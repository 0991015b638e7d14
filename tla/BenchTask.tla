-------------------------------- MODULE BenchTask --------------------------------
(***************************************************************************)
(* The child tasks of one run: _run_benchmark_task and _publish of         *)
(* app/server.py with run_burst and run_sustained of main.py.  Every await *)
(* of the coroutine is a value of pc; a step runs from one await to the    *)
(* next.  POST /api/runs/{id}/stop may come at any of them.                *)
(***************************************************************************)
EXTENDS Integers, Sequences, FiniteSets

CONSTANTS Task,                \* the child tasks, one per model
          ConcurrencyLevels,   \* concurrency_levels of the run, a sequence
          Configs,             \* the configurations of runs: mode, and source = "scheduled"
          Cap,                 \* the length at which the event list is cut (500)
          Keep,                \* the events it then keeps (300)
          MaxProgress          \* bound: bench:progress events published in one level

ASSUME TaskAssumption ==
  /\ ConcurrencyLevels \in Seq(Nat \ {0})
  /\ ConcurrencyLevels # <<>>
  /\ Configs \subseteq [mode: {"burst", "sustained"}, scheduled: BOOLEAN]
  /\ Cap \in Nat /\ Keep \in 1..Cap
  /\ MaxProgress \in Nat

LastLevel == Len(ConcurrencyLevels)

FinalType == {"bench:complete", "bench:stopped", "bench:error"}
EventType == {"bench:start", "bench:progress", "bench:level_complete"} \cup FinalType

VARIABLES
  config,          \* the configuration of this run
  pc,              \* where the coroutine waits
  status,          \* BenchTask.status
  stop_event,      \* BenchTask.stop_event.is_set()
  current_level,   \* BenchTask.current_level
  events,          \* BenchTask.events
  event_seq,       \* BenchTask.event_seq
  progress,        \* the bench:progress events of this level
  stray,           \* workers of a sustained level go on though nobody awaits them
  asked            \* history: a user has asked the run to stop

vars == <<config, pc, status, stop_event, current_level, events, event_seq, progress, stray,
          asked>>

Waiting == {"ready", "requests", "draining", "saving", "paused", "closing", "failing"}

TypeOK ==
  /\ config \in Configs
  /\ pc \in [Task -> Waiting \cup {"done"}]
  /\ status \in [Task -> {"running", "stopping", "idle"}]
  /\ stop_event \in [Task -> BOOLEAN]
  /\ current_level \in [Task -> 0..LastLevel]
  /\ events \in [Task -> Seq([seq: Nat, type: EventType])]
  /\ event_seq \in [Task -> Nat]
  /\ progress \in [Task -> 0..MaxProgress]
  /\ stray \in [Task -> BOOLEAN]
  /\ asked \in [Task -> BOOLEAN]
---------------------------------------------------------------------------------
\* Mutant: the cut keeps too many of the newest events.
PublishedCap(t, type) ==
  LET all == Append(events[t], [seq |-> event_seq[t] + 1, type |-> type])
  IN  IF Len(all) > Cap THEN SubSeq(all, Len(all) - Cap + 1, Len(all)) ELSE all

\* _publish(task, type, data).
Published(t, type) ==
  LET all == Append(events[t], [seq |-> event_seq[t] + 1, type |-> type])
  IN  IF Len(all) > Cap THEN SubSeq(all, Len(all) - Keep + 1, Len(all)) ELSE all

Publish(t, type) ==
  /\ events' = [events EXCEPT ![t] = Published(t, type)]
  /\ event_seq' = [event_seq EXCEPT ![t] = @ + 1]

Goto(t, place) == pc' = [pc EXCEPT ![t] = place]

\* Mutant: a task that is stopping stays so.
ReturnUnlessStopping(t) ==
  /\ Goto(t, "done")
  /\ status' = [status EXCEPT ![t] = IF @ = "running" THEN "idle" ELSE @]
  /\ UNCHANGED <<stop_event, current_level, progress, asked>>

\* The finally block: the task is idle in the same step as its last event.
Return(t) ==
  /\ Goto(t, "done")
  /\ status' = [status EXCEPT ![t] = "idle"]
  /\ UNCHANGED <<stop_event, current_level, progress, asked>>

\* Mutant: the loop does not look at stop_event.
StartLevelAlways(t) ==
  /\ pc[t] \in {"ready", "paused"}
  /\ current_level' = [current_level EXCEPT ![t] = @ + 1]
  /\ progress' = [progress EXCEPT ![t] = 0]
  /\ Publish(t, "bench:start")
  /\ Goto(t, "requests")
  /\ UNCHANGED <<status, stop_event, asked, stray>>

\* The head of the loop over the levels, after the first scheduling of the
\* coroutine or after the pause between two levels.
StartLevel(t) ==
  /\ pc[t] \in {"ready", "paused"}
  /\ ~stop_event[t]
  /\ current_level' = [current_level EXCEPT ![t] = @ + 1]
  /\ progress' = [progress EXCEPT ![t] = 0]
  /\ Publish(t, "bench:start")
  /\ Goto(t, "requests")
  /\ UNCHANGED <<status, stop_event, asked, stray>>

BreakLoop(t) ==
  /\ pc[t] \in {"ready", "paused"}
  /\ stop_event[t]
  /\ Goto(t, "closing")
  /\ UNCHANGED <<status, stop_event, current_level, events, event_seq, progress, asked, stray>>

\* on_progress: a request completed, and the throttle let its event through.
Progress(t) ==
  /\ pc[t] \in {"requests", "draining"}
  /\ progress[t] < MaxProgress
  /\ progress' = [progress EXCEPT ![t] = @ + 1]
  /\ Publish(t, "bench:progress")
  /\ UNCHANGED <<pc, status, stop_event, current_level, asked, stray>>

\* run_burst returns when all its requests have: it never looks at stop_event.
BurstDone(t) ==
  /\ config.mode = "burst"
  /\ pc[t] = "requests"
  /\ Goto(t, "saving")
  /\ UNCHANGED <<status, stop_event, current_level, events, event_seq, progress, asked, stray>>

\* run_sustained leaves its polling loop, because the duration is over or
\* because stop_event is set, and sets the event itself to stop its workers.
StopWorkers(t) ==
  /\ config.mode = "sustained"
  /\ pc[t] = "requests"
  /\ stop_event' = [stop_event EXCEPT ![t] = TRUE]
  /\ Goto(t, "draining")
  /\ UNCHANGED <<status, current_level, events, event_seq, progress, asked, stray>>

\* The workers have returned, or the timeout cancelled those that had not.
WorkersDone(t) ==
  /\ pc[t] = "draining"
  /\ Goto(t, "saving")
  /\ UNCHANGED <<status, stop_event, current_level, events, event_seq, progress, asked, stray>>

\* db_save_result has returned or failed (a failure is only logged).  No sleep
\* after the last level, after a level equal to it, or once stop_event is set.
LevelSaved(t) ==
  /\ pc[t] = "saving"
  /\ Publish(t, "bench:level_complete")
  /\ Goto(t, IF current_level[t] = LastLevel \/ stop_event[t] THEN "closing"
             ELSE IF ConcurrencyLevels[current_level[t]] = ConcurrencyLevels[LastLevel]
             THEN "ready"
             ELSE "paused")
  /\ UNCHANGED <<status, stop_event, current_level, progress, asked, stray>>

\* Mutant: the task always claims to be complete.
CloseComplete(t) ==
  /\ pc[t] = "closing"
  /\ Publish(t, "bench:complete")
  /\ Return(t)
  /\ UNCHANGED stray

\* The client session is closed, then the final event is published.
Close(t) ==
  /\ pc[t] = "closing"
  /\ Publish(t, IF stop_event[t] THEN "bench:stopped" ELSE "bench:complete")
  /\ Return(t)
  /\ UNCHANGED stray

\* An exception in what follows the requests of a level (no request raises one):
\* the session is left first, ...
Raise(t) ==
  /\ pc[t] = IF config.mode = "burst" THEN "requests" ELSE "draining"
  /\ Goto(t, "failing")
  /\ UNCHANGED <<status, stop_event, current_level, events, event_seq, progress, asked, stray>>

\* ... and is reported whatever stop_event says by then.
Fail(t) ==
  /\ pc[t] = "failing"
  /\ Publish(t, "bench:error")
  /\ Return(t)
  /\ UNCHANGED stray

\* The scheduled execution that awaits the task times out, which cancels the
\* task: CancelledError is not an Exception, so no event is published.  Workers of
\* a sustained level are tasks of their own: the cancellation does not reach them,
\* and in the polling loop it skips _stop_event.set().
Cancel(t) ==
  /\ config.scheduled
  /\ pc[t] \in Waiting \ {"ready"}
  /\ Return(t)
  /\ stray' = [stray EXCEPT ![t] =
                 config.mode = "sustained" /\ pc[t] \in {"requests", "draining"}]
  /\ UNCHANGED <<events, event_seq>>

\* Such a worker goes on: the session is closed, so its request fails at once, and
\* on_progress publishes that on a task that is idle.
StrayProgress(t) ==
  /\ stray[t]
  /\ progress[t] < MaxProgress
  /\ progress' = [progress EXCEPT ![t] = @ + 1]
  /\ Publish(t, "bench:progress")
  /\ UNCHANGED <<pc, status, stop_event, current_level, asked, stray>>

\* They end only if stop_event was set before the task was cancelled.
StraysEnd(t) ==
  /\ stray[t] /\ stop_event[t]
  /\ stray' = [stray EXCEPT ![t] = FALSE]
  /\ UNCHANGED <<pc, status, stop_event, current_level, events, event_seq, progress, asked>>

\* stop_run and admin_stop_run: every running task of the run, in one step.
Stop ==
  /\ \E t \in Task : status[t] = "running"
  /\ status' = [t \in Task |-> IF status[t] = "running" THEN "stopping" ELSE status[t]]
  /\ stop_event' = [t \in Task |-> stop_event[t] \/ status[t] = "running"]
  /\ asked' = [t \in Task |-> asked[t] \/ status[t] = "running"]
  /\ UNCHANGED <<pc, current_level, events, event_seq, progress, stray>>

Init ==
  /\ config \in Configs
  /\ pc = [t \in Task |-> "ready"]
  /\ status = [t \in Task |-> "running"]
  /\ stop_event = [t \in Task |-> FALSE]
  /\ current_level = [t \in Task |-> 0]
  /\ events = [t \in Task |-> <<>>]
  /\ event_seq = [t \in Task |-> 0]
  /\ progress = [t \in Task |-> 0]
  /\ stray = [t \in Task |-> FALSE]
  /\ asked = [t \in Task |-> FALSE]

\* What the coroutine does by itself, sooner or later: requests time out, a save
\* returns, a sleep ends.
Step(t) ==
  \/ StartLevel(t) \/ BreakLoop(t) \/ BurstDone(t) \/ StopWorkers(t) \/ WorkersDone(t)
  \/ LevelSaved(t) \/ Close(t) \/ Fail(t)

Next ==
  /\ \/ \E t \in Task : Step(t) \/ Progress(t) \/ Raise(t) \/ Cancel(t)
     \/ \E t \in Task : StrayProgress(t) \/ StraysEnd(t)
     \/ Stop
  /\ UNCHANGED config

Spec == Init /\ [][Next]_vars

FairSpec == Spec /\ \A t \in Task : WF_vars(Step(t) /\ UNCHANGED config)
---------------------------------------------------------------------------------
Last(t) == events[t][Len(events[t])].type

Ended(t, type) == events[t] # <<>> /\ Last(t) = type

\* _run_status of the run whose children are these tasks.
run_status ==
  LET types == UNION {{events[t][i].type : i \in DOMAIN events[t]} : t \in Task}
  IN  IF \E t \in Task : status[t] = "stopping" THEN "stopping"
      ELSE IF \E t \in Task : status[t] = "running" THEN "running"
      ELSE IF "bench:error" \in types THEN "failed"
      ELSE IF "bench:stopped" \in types THEN "canceled"
      ELSE "completed"

\* A stop request is honoured: once it has been accepted no further level is
\* started, wherever the coroutine was waiting.
NoLevelAfterStop ==
  [][\A t \in Task : asked[t] => current_level'[t] = current_level[t]]_vars

\* A run that users start is reported "completed" only if every level of every
\* task ran and nobody asked to stop, however the lists were cut and whatever was
\* raised on the way.  (Of a scheduled run that was cancelled the lists are not
\* complete.)
CompletedRunIsComplete ==
  run_status = "completed" /\ ~config.scheduled =>
    \A t \in Task : Ended(t, "bench:complete") /\ current_level[t] = LastLevel /\ ~asked[t]

\* Every task becomes idle, whatever was stopped, raised or cancelled on the way.
\* (Its stray workers may go on.)
TasksEnd == \A t \in Task : <>(status[t] = "idle")

\* The log as EventLog sees it.
Log == INSTANCE EventLog WITH
         Outcome <- FinalType,
         lo    <- [t \in Task |-> event_seq[t] + 1 - Len(events[t])],
         hi    <- event_seq,
         final <- [t \in Task |-> IF pc[t] # "done" THEN "none"
                                  ELSE IF \E type \in FinalType : Ended(t, type) THEN Last(t)
                                  ELSE "cancelled"]

ImplementsEventLog == Log!LogSpec
=================================================================================
