-------------------------------- MODULE RunStream --------------------------------
(***************************************************************************)
(* GET /api/runs/{run_id}/stream (run_stream of app/server.py) and the     *)
(* page that reads it (useBenchSSE.js, runWithSSE of SiteTestTab.vue).     *)
(* The generator is suspended at every yield and in asyncio.wait; the      *)
(* tasks publish in between.  A step of the generator runs from one        *)
(* suspension to the next.  The logs it reads are those of EventLog, which *)
(* BenchTask implements.                                                   *)
(***************************************************************************)
EXTENDS EventLog, Sequences, FiniteSets, FiniteSetsExt

CONSTANTS MaxEvents,   \* bound: events of one task
          MaxDrops     \* bound: times the connection is lost

ASSUME StreamAssumption ==
  /\ Task \subseteq Nat /\ IsFiniteSet(Task)     \* in the order of run.task_ids
  /\ MaxEvents \in Nat /\ MaxDrops \in Nat

VARIABLES
  at,         \* where the generator is suspended
  current,    \* the task whose event it has just yielded, 0 before the first
  upto,       \* the last event of the list it iterates over; Live: still growing
  last_seq,   \* last_seq of run_stream, per task
  waiter,     \* the asyncio.Event registered with each task is set
  inbox,      \* what the page has received on this connection, per task
  completed,  \* completedModels of runWithSSE
  resolved,   \* the page has closed its EventSource for good
  drops

streamVars == <<at, current, upto, last_seq, waiter, inbox, completed, resolved, drops>>
vars == <<logVars, streamVars>>

\* No event has the number 0.
Live == 0

TypeOK ==
  /\ LogTypeOK
  /\ at \in {"off", "begin", "replay", "wait", "scan"}
  /\ current \in Task \cup {0}
  /\ upto \in Nat
  /\ last_seq \in [Task -> Nat]
  /\ waiter \in [Task -> BOOLEAN]
  /\ inbox \in [Task -> Seq(Nat)]
  /\ completed \subseteq Task
  /\ resolved \in BOOLEAN
  /\ drops \in 0..MaxDrops

Idle(t) == final[t] # "none"
---------------------------------------------------------------------------------
\* Mutant: the log only wakes a generator that is waiting.
NotifyWaiting(t) ==
  /\ waiter' = [waiter EXCEPT ![t] = at = "wait"]
  /\ upto' = IF at = "replay" /\ current = t /\ upto = Live /\ lo'[t] # lo[t]
             THEN hi'[t] ELSE upto
  /\ UNCHANGED <<at, current, last_seq, inbox, completed, resolved, drops>>

\* What the log does, seen by the stream: _publish wakes the generator; cutting a
\* list that is being replayed leaves the generator with the old list object.
Notify(t) ==
  /\ waiter' = [waiter EXCEPT ![t] = at # "off"]
  /\ upto' = IF at = "replay" /\ current = t /\ upto = Live /\ lo'[t] # lo[t]
             THEN hi'[t] ELSE upto
  /\ UNCHANGED <<at, current, last_seq, inbox, completed, resolved, drops>>

TaskPublishes(t) == hi[t] < MaxEvents /\ Publish(t) /\ Notify(t)

TaskEnds(t) == \E outcome \in Outcome : End(t, outcome) /\ Notify(t)
---------------------------------------------------------------------------------
\* The page connects, at first or because EventSource reconnects by itself after
\* a stream that ended.  Waiters are registered before the generator first runs.
Connect ==
  /\ at = "off" /\ ~resolved
  /\ at' = "begin"
  /\ current' = 0
  /\ upto' = Live
  /\ last_seq' = [t \in Task |-> 0]
  /\ waiter' = [t \in Task |-> FALSE]
  /\ inbox' = [t \in Task |-> <<>>]
  /\ UNCHANGED <<logVars, completed, resolved, drops>>

\* The connection is lost; nothing of it survives on the server.
Drop ==
  /\ at # "off" /\ drops < MaxDrops
  /\ drops' = drops + 1
  /\ at' = "off"
  /\ UNCHANGED <<logVars, current, upto, last_seq, waiter, inbox, completed, resolved>>

\* Mutants: the page closes at the first final event, or waits for a model that
\* failed.
PageClosesAtFirst(t, seq) ==
  LET outcome == IF Idle(t) /\ seq = hi[t] THEN final[t] ELSE "none"
      over    == completed \cup (IF outcome \in {"bench:complete", "bench:error"} THEN {t} ELSE {})
  IN  /\ inbox' = [inbox EXCEPT ![t] = Append(@, seq)]
      /\ completed' = over
      /\ resolved' = (outcome # "none")
      /\ UNCHANGED drops

PageIgnoresErrors(t, seq) ==
  LET outcome == IF Idle(t) /\ seq = hi[t] THEN final[t] ELSE "none"
      over    == completed \cup (IF outcome = "bench:complete" THEN {t} ELSE {})
      closes  == outcome = "bench:stopped" \/ (outcome # "none" /\ over = Task)
  IN  /\ inbox' = [inbox EXCEPT ![t] = Append(@, seq)]
      /\ completed' = over
      /\ resolved' = closes
      /\ UNCHANGED drops

\* The handler of runWithSSE: it closes the EventSource when every model has
\* completed or failed, or as soon as one reports that it was stopped.
PageReceives(t, seq) ==
  LET outcome == IF Idle(t) /\ seq = hi[t] THEN final[t] ELSE "none"
      over    == completed \cup (IF outcome \in {"bench:complete", "bench:error"} THEN {t} ELSE {})
      closes  == outcome = "bench:stopped" \/ (outcome # "none" /\ over = Task)
  IN  /\ inbox' = [inbox EXCEPT ![t] = Append(@, seq)]
      /\ completed' = over
      /\ resolved' = closes
      /\ UNCHANGED drops

\* Mutant: last_seq jumps to the end of the log.
YieldSkips(place, t, seq, end) ==
  /\ PageReceives(t, seq)
  /\ at' = IF resolved' THEN "off" ELSE place
  /\ current' = t
  /\ upto' = end
  /\ last_seq' = [last_seq EXCEPT ![t] = hi[t]]
  /\ UNCHANGED logVars

Yield(place, t, seq, end) ==
  /\ PageReceives(t, seq)
  /\ at' = IF resolved' THEN "off" ELSE place
  /\ current' = t
  /\ upto' = end
  /\ last_seq' = [last_seq EXCEPT ![t] = seq]
  /\ UNCHANGED logVars

Suspend(place) ==
  /\ at' = place
  /\ UNCHANGED <<logVars, current, upto, last_seq, inbox, completed, resolved, drops>>

\* The first loop of event_generator: for task in tasks, for evt in task.events.
Replay ==
  /\ at \in {"begin", "replay"}
  /\ UNCHANGED waiter
  /\ LET end  == IF upto = Live THEN hi[current] ELSE upto
         more == at = "replay" /\ last_seq[current] < end
         rest == {t \in Task : t > current /\ Kept(t) # {}}
     IN  \/ more /\ Yield("replay", current, last_seq[current] + 1, upto)
         \/ ~more /\ rest # {} /\ Yield("replay", Min(rest), lo[Min(rest)], Live)
         \/ ~more /\ rest = {} /\ Suspend("wait")

\* Mutant: the last event sent counts as new.
NewOrSame(t) == {seq \in Kept(t) : seq >= last_seq[t]}

New(t) == {seq \in Kept(t) : seq > last_seq[t]}

\* asyncio.wait returns: the waiters are cleared, then every task is scanned.
Wake ==
  /\ at = "wait"
  /\ \E t \in Task : waiter[t]
  /\ waiter' = [t \in Task |-> FALSE]
  /\ LET rest == {t \in Task : New(t) # {}}
     IN  \/ rest # {} /\ Yield("scan", Min(rest), Min(New(Min(rest))), hi[Min(rest)])
         \/ rest = {} /\ Suspend("wait")

\* The scan goes on after a yield: the rest of the snapshot, the tasks that
\* follow, and then the end of the stream if every task is idle by now.
Scan ==
  /\ at = "scan"
  /\ UNCHANGED waiter
  /\ LET more == last_seq[current] < upto
         rest == {t \in Task : t > current /\ New(t) # {}}
     IN  \/ more /\ Yield("scan", current, last_seq[current] + 1, upto)
         \/ ~more /\ rest # {} /\ Yield("scan", Min(rest), Min(New(Min(rest))), hi[Min(rest)])
         \/ ~more /\ rest = {} /\ Suspend(IF \A t \in Task : Idle(t) THEN "off" ELSE "wait")

Init ==
  /\ LogInit
  /\ at = "off"
  /\ current = 0
  /\ upto = Live
  /\ last_seq = [t \in Task |-> 0]
  /\ waiter = [t \in Task |-> FALSE]
  /\ inbox = [t \in Task |-> <<>>]
  /\ completed = {}
  /\ resolved = FALSE
  /\ drops = 0

Stream == Connect \/ Replay \/ Wake \/ Scan

Next ==
  \/ \E t \in Task : TaskPublishes(t) \/ TaskEnds(t)
  \/ Stream
  \/ Drop

Spec == Init /\ [][Next]_vars

\* The event loop runs what is ready, and EventSource reconnects.
FairSpec == Spec /\ WF_vars(Stream)
---------------------------------------------------------------------------------
\* Within one connection no event arrives twice or late, although the replay, the
\* wake-ups and the cuts of the list interleave with the publishing.
DeliveredInOrder ==
  \A t \in Task : \A i \in 1..Len(inbox[t]) - 1 : inbox[t][i] < inbox[t][i+1]

\* An event that was skipped had already been cut from the list: a slow reader
\* loses only what nobody keeps.
OnlyCutEventsSkipped ==
  \A t \in Task :
    \A i \in 1..Len(inbox[t]) :
      LET before == IF i = 1 THEN 0 ELSE inbox[t][i-1]
      IN  \A seq \in before+1 .. inbox[t][i]-1 : seq < lo[t]

\* With several models in parallel the page closes its stream only when all of them
\* are done (SiteTestTab.vue:689), as long as no task reports bench:stopped: at the
\* first of these it closes, while other models may still run.
ClosesAfterAllUnlessStopped ==
  resolved => (\A t \in Task : Idle(t)) \/ (\E t \in Task : final[t] = "bench:stopped")

\* No wake-up is lost: a connected page that lags behind a log catches up, or
\* reconnects and catches up.
CatchesUp ==
  \A t \in Task :
    (at = "wait" /\ last_seq[t] < hi[t]) ~> (at # "wait" \/ last_seq[t] = hi[t])

\* The page learns the end: once every task has published its final event, it
\* receives them all and closes, even when the server ends the stream early or
\* the connection is lost.
PageResolves == (\A t \in Task : Idle(t)) ~> resolved
=================================================================================
