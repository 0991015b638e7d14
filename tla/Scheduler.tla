-------------------------------- MODULE Scheduler --------------------------------
(***************************************************************************)
(* Scheduled tasks: TaskScheduler of app/scheduler.py, the rows and the    *)
(* lock of scheduled_tasks (app/db.py) and the schedule endpoints of       *)
(* app/server.py.  Each server instance runs one loop and any number of    *)
(* executions; they share only the table.  One statement on the table is   *)
(* one step.  Times are relative to now: a field counts down with Tick, so *)
(* the state space is finite without a bound on time.                      *)
(***************************************************************************)
EXTENDS Integers, FiniteSets

CONSTANTS Task,         \* ids of scheduled tasks
          Owner,        \* user_id of each task
          Instance,     \* server instances on one database
          Exec,         \* identities for executions in flight
          Interval,     \* schedule_value
          LockTime,     \* lock_seconds (3600)
          Timeout,      \* SCHEDULER_TASK_TIMEOUT (1800)
          Grace,        \* bound: how long the statements after an execution take
          Cooldown,     \* _RUN_NOW_COOLDOWN (30)
          MaxGlobal,    \* BenchTaskManager.MAX_GLOBAL (20)
          MaxPerUser,   \* BenchTaskManager.MAX_PER_USER (5)
          DueLimit,     \* the LIMIT of get_due_scheduled_tasks (50)
          Dialect,      \* "sqlite" or "postgres"
          Requests,     \* the endpoints users call
          MaxRequests,  \* bound: requests between their two statements
          Booted,       \* whether the instances are up to begin with
          MaxCrashes,   \* bound: crashes and shutdowns of instances
          MaxFaults,    \* bound: statements that fail
          Null          \* no execution

Request == {"create", "pause", "resume", "edit", "delete", "run-now"}

ASSUME ScheduleAssumption ==
  /\ Task \subseteq Nat /\ IsFiniteSet(Task)      \* ORDER BY id
  /\ IsFiniteSet(Exec)
  /\ IsFiniteSet(Instance) /\ Instance # {}
  /\ Interval \in Nat \ {0}
  /\ LockTime \in Nat /\ Timeout \in Nat /\ Grace \in Nat /\ Cooldown \in Nat
  /\ MaxGlobal \in Nat /\ MaxPerUser \in Nat /\ DueLimit \in Nat
  /\ Dialect \in {"sqlite", "postgres"}
  /\ Requests \subseteq Request
  /\ Booted \in BOOLEAN
  /\ MaxRequests \in Nat /\ MaxCrashes \in Nat /\ MaxFaults \in Nat

\* claim_scheduled_task locks for longer than an execution and its release last.
ASSUME LockAssumption == Timeout + Grace <= LockTime

VARIABLES
  row,       \* the table scheduled_tasks
  exec,      \* the executions in flight: _execute_and_schedule
  loop,      \* what the loop _run of each instance does
  pending,   \* the second halves of requests, after their first statement
  crashes, faults

vars == <<row, exec, loop, pending, crashes, faults>>

NoNext  == Interval + 1      \* next_run_at IS NULL
NoLock  == -1                \* locked_until IS NULL, or has passed

\* next_run_at - now.  Once a whole interval late, a task is as late as one that
\* is due now: nothing the scheduler computes tells them apart.
Next_run_at == (1 - Interval)..NoNext

Row == [status: {"none", "active", "paused", "deleted"},
        next: Next_run_at,
        zoned: BOOLEAN,                \* the stored next_run_at has a time zone
        lock: NoLock..LockTime,        \* locked_until - now
        cool: 0..Cooldown]             \* what is left of the run-now cooldown

Execution == [task: Task,
              inst: Instance,
              skip: BOOLEAN,           \* skip_reschedule
              pc: {"begin", "running", "reading", "writing", "releasing"},
              left: Nat,               \* time until wait_for fires, or the grace ends
              next: Next_run_at]       \* the next_run_at it has computed

TypeOK ==
  /\ row \in [Task -> Row]
  /\ exec \in [Exec -> Execution \cup {Null}]
  /\ loop \in [Instance -> [pc: {"down", "sleep", "claim", "counted"}, todo: SUBSET Task]]
  /\ pending \subseteq {"release", "trigger", "arm", "delete", "claim"} \X Task \X Instance
  /\ crashes \in 0..MaxCrashes
  /\ faults \in 0..MaxFaults

ASSUME ExecutionNull == Null \notin Execution
---------------------------------------------------------------------------------
Exists(t) == row[t].status \in {"active", "paused"}
Active(t) == row[t].status = "active"

\* Mutant: a paused task is due as well.
DueUnlessDeleted(t) == Exists(t) /\ row[t].next <= 0

Due(t)    == Active(t) /\ row[t].next <= 0
Locked(t) == Exists(t) /\ row[t].lock >= 0

Up(i) == loop[i].pc # "down"

\* UPDATE ... WHERE id = t, which affects no row once the task is deleted.
Update(t, new) == row' = [row EXCEPT ![t] = IF Exists(t) THEN new ELSE @]

\* release_scheduled_task(t), whoever holds the lock.
Unlocked(t) == [row[t] EXCEPT !.lock = NoLock]

\* Mutant: the interval is counted from the end of the execution.
NextAtFromNow(t) == Interval

\* next_run_at as _release_and_reschedule computes it.  Only a time with a zone is
\* advanced by whole intervals: SQLite hands back what release_and_reschedule
\* formatted without one, and PostgreSQL always has one.  Without a time that can be
\* advanced the interval is counted from now.
NextAt(t) ==
  LET elapsed == -row[t].next
      at      == row[t].next + Interval * (elapsed \div Interval + 1)
  IN  IF row[t].next = NoNext \/ ~(row[t].zoned \/ Dialect = "postgres") THEN Interval
      ELSE IF at <= 0 THEN Interval
      ELSE at
---------------------------------------------------------------------------------
\* Mutant: a lock is free in the moment it expires.
ClaimableAtExpiry(t) == Exists(t) /\ row[t].lock <= 0

\* The lock is free or has expired.
Claimable(t) == Exists(t) /\ row[t].lock < 0

\* Mutant: the limits may be exceeded by one.
UnderLimitsByOne(t) ==
  LET locked == {s \in Task : Locked(s)}
  IN  /\ Cardinality(locked) <= MaxGlobal
      /\ Cardinality({s \in locked : Owner[s] = Owner[t]}) <= MaxPerUser

UnderLimits(t) ==
  LET locked == {s \in Task : Locked(s)}
  IN  /\ Cardinality(locked) < MaxGlobal
      /\ Cardinality({s \in locked : Owner[s] = Owner[t]}) < MaxPerUser

\* Mutant: the lock lasts for the timeout alone.
ClaimForTimeout(t, i, skip) ==
  \E e \in Exec :
    /\ exec[e] = Null
    /\ exec' = [exec EXCEPT ![e] = [task |-> t, inst |-> i, skip |-> skip, pc |-> "begin",
                                    left |-> Timeout, next |-> 0]]
    /\ row' = [row EXCEPT ![t].lock = Timeout]

\* claim_scheduled_task succeeds and the caller creates the execution.
Claim(t, i, skip) ==
  \E e \in Exec :
    /\ exec[e] = Null
    /\ exec' = [exec EXCEPT ![e] = [task |-> t, inst |-> i, skip |-> skip, pc |-> "begin",
                                    left |-> Timeout, next |-> 0]]
    /\ row' = [row EXCEPT ![t].lock = LockTime]

\* get_due_scheduled_tasks.
DueTasks == {t \in Task : Due(t) /\ Cardinality({s \in Task : Due(s) /\ s < t}) < DueLimit}

Scan(i) ==
  /\ loop[i].pc = "sleep"
  /\ DueTasks # {}
  /\ loop' = [loop EXCEPT ![i] = [pc |-> "claim", todo |-> DueTasks]]
  /\ UNCHANGED <<row, exec, pending, crashes, faults>>

First(i, t) == t \in loop[i].todo /\ \A s \in loop[i].todo : t <= s

\* The loop goes on to the task that follows t in its list.
Advance(i, t) ==
  LET rest == loop[i].todo \ {t}
  IN  loop' = [loop EXCEPT ![i] = [pc |-> IF rest = {} THEN "sleep" ELSE "claim", todo |-> rest]]

\* SQLite has one writer: the limits are counted and the lock taken in one step.
ClaimNext(i) ==
  /\ loop[i].pc = "claim"
  /\ \E t \in Task :
       /\ First(i, t)
       /\ \/ /\ Claimable(t) /\ UnderLimits(t)
             /\ Dialect = "sqlite"
             /\ Claim(t, i, FALSE)
             /\ Advance(i, t)
          \/ /\ Claimable(t) /\ UnderLimits(t)
             /\ Dialect = "postgres"
             /\ loop' = [loop EXCEPT ![i].pc = "counted"]
             /\ UNCHANGED <<row, exec>>
          \/ /\ ~(Claimable(t) /\ UnderLimits(t))
             /\ Advance(i, t)
             /\ UNCHANGED <<row, exec>>
  /\ UNCHANGED <<pending, crashes, faults>>

\* PostgreSQL counts in the statement's snapshot; only the row itself is checked
\* again when it is written.
ClaimCounted(i) ==
  /\ loop[i].pc = "counted"
  /\ \E t \in Task :
       /\ First(i, t)
       /\ \/ Claimable(t) /\ Claim(t, i, FALSE)
          \/ ~Claimable(t) /\ UNCHANGED <<row, exec>>
       /\ Advance(i, t)
  /\ UNCHANGED <<pending, crashes, faults>>

\* A statement of the loop fails: the rest of its list is dropped.
LoopFails(i) ==
  /\ loop[i].pc \in {"claim", "counted"}
  /\ faults < MaxFaults
  /\ faults' = faults + 1
  /\ loop' = [loop EXCEPT ![i] = [pc |-> "sleep", todo |-> {}]]
  /\ UNCHANGED <<row, exec, pending, crashes>>
---------------------------------------------------------------------------------
In(e, places) == exec[e] # Null /\ exec[e].pc \in places

Continue(e, place, left) ==
  exec' = [exec EXCEPT ![e] = [@ EXCEPT !.pc = place, !.left = left]]

End(e) == exec' = [exec EXCEPT ![e] = Null]

\* _run_scheduled_task reads the row, and goes on to the benchmark if it is active.
Begin(e) ==
  /\ In(e, {"begin"})
  /\ Active(exec[e].task)
  /\ Continue(e, "running", exec[e].left)
  /\ UNCHANGED <<row, loop, pending, crashes, faults>>

\* It returns, early or with results, raises, or is cancelled by wait_for.
EndRun(e) ==
  /\ In(e, {"begin", "running"})
  /\ Continue(e, IF exec[e].skip THEN "releasing" ELSE "reading", Grace)
  /\ UNCHANGED <<row, loop, pending, crashes, faults>>

\* _release_and_reschedule, first statement: the row is read, ...
ReadRow(e) ==
  /\ In(e, {"reading"})
  /\ LET t == exec[e].task IN
       exec' = [exec EXCEPT ![e] =
                  IF Active(t) THEN [@ EXCEPT !.pc = "writing", !.next = NextAt(t)]
                  ELSE [@ EXCEPT !.pc = "releasing"]]
  /\ UNCHANGED <<row, loop, pending, crashes, faults>>

\* ... and written if it is still active.
WriteRow(e) ==
  /\ In(e, {"writing"})
  /\ LET t == exec[e].task IN
       row' = [row EXCEPT ![t] =
                 IF Active(t)
                 THEN [@ EXCEPT !.lock = NoLock, !.next = exec[e].next, !.zoned = FALSE,
                                !.cool = Cooldown]
                 ELSE @]
  /\ End(e)
  /\ UNCHANGED <<loop, pending, crashes, faults>>

Release(e) ==
  /\ In(e, {"releasing"})
  /\ Update(exec[e].task, Unlocked(exec[e].task))
  /\ End(e)
  /\ UNCHANGED <<loop, pending, crashes, faults>>

\* A statement fails: the lock is released instead, or, if that fails, not at all.
ReleaseFails(e) ==
  /\ In(e, {"reading", "writing", "releasing"})
  /\ faults < MaxFaults
  /\ faults' = faults + 1
  /\ IF exec[e].pc = "releasing" THEN End(e) ELSE Continue(e, "releasing", exec[e].left)
  /\ UNCHANGED <<row, loop, pending, crashes>>
---------------------------------------------------------------------------------
\* An instance that is up takes another request.
Serves(i, op) == op \in Requests /\ Up(i) /\ Cardinality(pending) < MaxRequests

\* create_schedule: the row, then start_loop.
Create(i, t) ==
  /\ Serves(i, "create")
  /\ row[t].status = "none"
  /\ row' = [row EXCEPT ![t].status = "active"]
  /\ pending' = pending \cup {<<"trigger", t, i>>}
  /\ UNCHANGED <<exec, loop, crashes, faults>>

\* pause_schedule: the status, then cancel_loop.
Pause(i, t) ==
  /\ Serves(i, "pause")
  /\ Exists(t)
  /\ row' = [row EXCEPT ![t].status = "paused"]
  /\ pending' = pending \cup {<<"release", t, i>>}
  /\ UNCHANGED <<exec, loop, crashes, faults>>

\* resume_schedule: the status, then start_loop.
Resume(i, t) ==
  /\ Serves(i, "resume")
  /\ Exists(t)
  /\ row' = [row EXCEPT ![t].status = "active"]
  /\ pending' = pending \cup {<<"trigger", t, i>>}
  /\ UNCHANGED <<exec, loop, crashes, faults>>

\* update_schedule of other fields: start_loop or cancel_loop, as the status it
\* has read demands.
Edit(i, t) ==
  /\ Serves(i, "edit")
  /\ Exists(t)
  /\ pending' = pending \cup {<<IF Active(t) THEN "trigger" ELSE "release", t, i>>}
  /\ UNCHANGED <<row, exec, loop, crashes, faults>>

\* delete_schedule: cancel_loop, then DELETE.
Delete(i, t) ==
  /\ Serves(i, "delete")
  /\ Exists(t)
  /\ row' = [row EXCEPT ![t] = Unlocked(t)]
  /\ pending' = pending \cup {<<"delete", t, i>>}
  /\ UNCHANGED <<exec, loop, crashes, faults>>

\* run_schedule_now: the cooldown is checked, then run_now claims.
RunNow(i, t) ==
  /\ Serves(i, "run-now")
  /\ Exists(t) /\ row[t].cool = 0
  /\ pending' = pending \cup {<<"claim", t, i>>}
  /\ UNCHANGED <<row, exec, loop, crashes, faults>>

Finish(op, t, i) ==
  /\ <<op, t, i>> \in pending
  /\ pending' = pending \ {<<op, t, i>>}
  /\ UNCHANGED <<loop, crashes, faults>>

CancelLoop(t, i) ==
  /\ Finish("release", t, i)
  /\ Update(t, Unlocked(t))
  /\ UNCHANGED exec

\* _trigger: read the row, then set next_run_at to now.
Trigger(t, i) ==
  /\ <<"trigger", t, i>> \in pending
  /\ pending' = (pending \ {<<"trigger", t, i>>})
                  \cup (IF Active(t) THEN {<<"arm", t, i>>} ELSE {})
  /\ UNCHANGED <<row, exec, loop, crashes, faults>>

Arm(t, i) ==
  /\ Finish("arm", t, i)
  /\ Update(t, [row[t] EXCEPT !.next = 0, !.zoned = TRUE])
  /\ UNCHANGED exec

Remove(t, i) ==
  /\ Finish("delete", t, i)
  /\ Update(t, [row[t] EXCEPT !.status = "deleted"])
  /\ UNCHANGED exec

\* run_now: claimed without limits, executed without rescheduling.
ClaimNow(t, i) ==
  /\ Finish("claim", t, i)
  /\ \/ Claimable(t) /\ Claim(t, i, TRUE)
     \/ ~Claimable(t) /\ UNCHANGED <<row, exec>>

\* The second statement of a request fails; the first one stands.
RespondFails(t, i) ==
  /\ faults < MaxFaults
  /\ \E p \in pending : p[2] = t /\ p[3] = i /\ pending' = pending \ {p}
  /\ faults' = faults + 1
  /\ UNCHANGED <<row, exec, loop, crashes>>
---------------------------------------------------------------------------------
\* Mutant: start does not arm a task that was created and never armed.
StartReleases(i) ==
  /\ ~Up(i)
  /\ row' = [t \in Task |-> IF Active(t) THEN Unlocked(t) ELSE row[t]]
  /\ loop' = [loop EXCEPT ![i] = [pc |-> "sleep", todo |-> {}]]
  /\ UNCHANGED <<exec, pending, crashes, faults>>

\* TaskScheduler.start.  No request is served before it has returned.
Start(i) ==
  /\ ~Up(i)
  /\ row' = [t \in Task |->
               IF ~Active(t) THEN row[t]
               ELSE IF row[t].next = NoNext
               THEN [row[t] EXCEPT !.lock = NoLock, !.next = 0, !.zoned = TRUE]
               ELSE Unlocked(t)]
  /\ loop' = [loop EXCEPT ![i] = [pc |-> "sleep", todo |-> {}]]
  /\ UNCHANGED <<exec, pending, crashes, faults>>

OfInstance(i) == {e \in Exec : exec[e] # Null /\ exec[e].inst = i}

Halt(i) ==
  /\ Up(i)
  /\ crashes < MaxCrashes
  /\ crashes' = crashes + 1
  /\ loop' = [loop EXCEPT ![i] = [pc |-> "down", todo |-> {}]]
  /\ exec' = [e \in Exec |-> IF e \in OfInstance(i) THEN Null ELSE exec[e]]
  /\ pending' = {p \in pending : p[3] # i}
  /\ UNCHANGED faults

\* The process dies; its locks stay in the table.
Crash(i) == Halt(i) /\ UNCHANGED row

\* TaskScheduler.stop: an execution that is cancelled while it runs releases its
\* lock; one that is cancelled later, or was started by run_now, does not.
Shutdown(i) ==
  /\ Halt(i)
  /\ LET cancelled == {exec[e].task : e \in {e \in OfInstance(i) :
                                               ~exec[e].skip /\ In(e, {"begin", "running"})}}
     IN  row' = [t \in Task |-> IF t \in cancelled THEN Unlocked(t) ELSE row[t]]

Later(next) == CASE next = NoNext       -> next
                 [] next = 1 - Interval -> 0
                 [] OTHER               -> next - 1

\* Time passes, but never beyond a timeout that is due.
Tick ==
  /\ \A e \in Exec : exec[e] # Null => exec[e].left > 0
  /\ row' = [t \in Task |->
               [row[t] EXCEPT
                  !.next = Later(@),
                  !.lock = IF @ >= 0 THEN @ - 1 ELSE @,
                  !.cool = IF @ > 0 THEN @ - 1 ELSE @]]
  /\ exec' = [e \in Exec |->
                IF exec[e] = Null THEN Null
                ELSE [exec[e] EXCEPT !.left = @ - 1, !.next = Later(@)]]
  /\ UNCHANGED <<loop, pending, crashes, faults>>

\* The table as an earlier process left it.  An active row without next_run_at is
\* one that was created but never armed.
Init ==
  /\ \E status \in [Task -> {"none", "active", "paused"}] :
       /\ \A t \in Task : status[t] = "none" => "create" \in Requests
       /\ \A t \in Task : status[t] = "paused" => "resume" \in Requests
       /\ row = [t \in Task |->
                   [status |-> status[t],
                    next   |-> IF status[t] = "none" \/ (status[t] = "active" /\ ~Booted)
                               THEN NoNext ELSE 0,
                    zoned  |-> TRUE, lock |-> NoLock, cool |-> 0]]
  /\ exec = [e \in Exec |-> Null]
  /\ loop = [i \in Instance |-> [pc |-> IF Booted THEN "sleep" ELSE "down", todo |-> {}]]
  /\ pending = {}
  /\ crashes = 0
  /\ faults = 0

Loop(i) == Scan(i) \/ ClaimNext(i) \/ ClaimCounted(i)

Execute(e) == Begin(e) \/ EndRun(e) \/ ReadRow(e) \/ WriteRow(e) \/ Release(e)

\* The requests that release the lock of a task, or remove its row, whoever executes it.
Unlock(i, t) == CancelLoop(t, i) \/ Delete(i, t) \/ Remove(t, i)

\* The steps that leave an execution its lock.
Harmless ==
  \/ Tick
  \/ \E i \in Instance : Loop(i) \/ LoopFails(i) \/ Crash(i) \/ Shutdown(i)
  \/ \E e \in Exec : Execute(e) \/ ReleaseFails(e)
  \/ \E i \in Instance, t \in Task :
       \/ Create(i, t) \/ Pause(i, t) \/ Resume(i, t) \/ Edit(i, t) \/ RunNow(i, t)
       \/ Trigger(t, i) \/ Arm(t, i) \/ ClaimNow(t, i) \/ RespondFails(t, i)

Next ==
  \/ Harmless
  \/ \E i \in Instance : Start(i)
  \/ \E i \in Instance, t \in Task : Unlock(i, t)

Spec == Init /\ [][Next]_vars

\* The clock runs, an instance that went down is restarted (restart:
\* unless-stopped), and the event loop runs what is ready.
Fairness ==
  /\ WF_vars(Tick)
  /\ \A i \in Instance : WF_vars(Start(i)) /\ WF_vars(Loop(i))
  /\ \A e \in Exec : WF_vars(Execute(e))
  /\ \A i \in Instance, t \in Task :
       /\ WF_vars(CancelLoop(t, i)) /\ WF_vars(Trigger(t, i)) /\ WF_vars(Arm(t, i))
       /\ WF_vars(Remove(t, i)) /\ WF_vars(ClaimNow(t, i))

FairSpec == Spec /\ Fairness

Executing == {t \in Task : \E e \in Exec : exec[e] # Null /\ exec[e].task = t}

\* Use with care: no request releases the lock of a task, or removes its row, while the
\* task is being executed, and no instance starts while anything is.  Everything else
\* may happen at any time.
CarefulNext ==
  \/ Harmless
  \/ \E i \in Instance : Executing = {} /\ Start(i)
  \/ \E i \in Instance, t \in Task : t \notin Executing /\ Unlock(i, t)

CarefulSpec == Init /\ [][CarefulNext]_vars
---------------------------------------------------------------------------------
\* db.py:1735: of several workers only one gets the lock of a task, and with it
\* the right to execute it: a task is never executed twice at a time.
MutualExclusion ==
  \A e, f \in Exec :
    exec[e] # Null /\ exec[f] # Null /\ exec[e].task = exec[f].task => e = f

\* The weaker promise, for the benchmarks themselves: scheduler.py:91, a task that
\* is being executed is skipped.
OneBenchmark ==
  \A e, f \in Exec :
    In(e, {"running"}) /\ In(f, {"running"}) /\ exec[e].task = exec[f].task => e = f

\* Why the lock can be released without asking whose it is: the lock of a task
\* that is executed outlives the execution, however long it takes.
LockOutlivesExecution ==
  \A e \in Exec :
    LET x == exec[e] IN
      x # Null /\ Exists(x.task) =>
        row[x.task].lock >= x.left + (IF x.pc \in {"begin", "running"} THEN Grace ELSE 0)

\* What the loops execute; run_now claims without limits (scheduler.py:90).
Scheduled == {t \in Task : \E e \in Exec : exec[e] # Null /\ exec[e].task = t /\ ~exec[e].skip}

\* How far db.py:1736 is kept, that the limits hold across instances: for what is executed
\* and not only for what is locked.  SQLite counts and locks in one statement; on PostgreSQL
\* every instance may have counted before any of them locks, which exceeds the limits by less
\* than the number of instances.
ExecutionLimits ==
  LET extra == IF Dialect = "sqlite" THEN 0 ELSE Cardinality(Instance) - 1
  IN  /\ Cardinality(Scheduled) <= MaxGlobal + extra
      /\ \A t \in Task : Cardinality({s \in Scheduled : Owner[s] = Owner[t]}) <= MaxPerUser + extra

BeingArmed(t) == \E i \in Instance : {<<"trigger", t, i>>, <<"arm", t, i>>} \cap pending # {}

\* scheduler.py:42: start provides all active tasks with a next_run_at.  While the instances
\* are up and no statement has failed, an active task without one is being provided with it:
\* no order of requests, crashes and starts leaves a task that no scan will ever find.
NeverStranded ==
  faults = 0 /\ (\A i \in Instance : Up(i)) =>
    \A t \in Task : Active(t) /\ row[t].next = NoNext => BeingArmed(t)

\* Executions recur at fixed intervals, however late they start and however long they
\* take (module comment of scheduler.py): the next_run_at that an execution computes at
\* its end is the first time ahead of now that lies whole intervals from the one it
\* reads, so that none is missed, none comes at once and the phase is kept.
FixedInterval ==
  [][\A e \in Exec :
       LET read == row[exec[e].task].next
       IN  In(e, {"reading"}) /\ exec'[e] # Null /\ exec'[e].pc = "writing" /\ read # NoNext =>
             /\ exec'[e].next \in 1..Interval
             /\ (exec'[e].next - read) % Interval = 0]_vars

\* An active task is executed again and again: no crash, failed statement or
\* lock left behind stops it for ever.
KeepsRunning == \A t \in Task : []<>(~Active(t) \/ t \in Executing)

\* Pausing takes effect: once a task stays paused, what was being executed comes to
\* an end and nothing is executed any more, stale lists and crashes included.
PauseTakesEffect ==
  \A t \in Task : <>[](row[t].status = "paused") => <>[](t \notin Executing)
=================================================================================
