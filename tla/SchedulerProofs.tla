----------------------------- MODULE SchedulerProofs -----------------------------
(***************************************************************************)
(* Proofs about Scheduler for any number of tasks, instances and           *)
(* executions, any interval and any lock time that covers an execution:    *)
(* the types; under careful use, mutual exclusion of the executions of a   *)
(* task, its lock and the limits; under any use, that no task is left      *)
(* without a next execution; and, on PostgreSQL, that intervals are fixed. *)
(***************************************************************************)
EXTENDS Scheduler, FiniteSetTheorems, TLAPS

\* The second statements of requests.
Respond(t, i) == CancelLoop(t, i) \/ Trigger(t, i) \/ Arm(t, i) \/ Remove(t, i) \/ ClaimNow(t, i)

\* What _release_and_reschedule computes lies in the future, at most one interval
\* ahead, however late the execution was.
LEMMA NextAtRange ==
  ASSUME NEW t \in Task, row[t].next \in Next_run_at
  PROVE  NextAt(t) \in 1..Interval
<1> DEFINE n == row[t].next
           q == (-n) \div Interval
<1>1. Interval \in Nat \ {0} /\ n \in Int /\ 1 - Interval <= n /\ n <= Interval + 1
  BY ScheduleAssumption DEF Next_run_at, NoNext
<1>2. CASE n <= 0
  <2>1. q = 0
    BY <1>1, <1>2
  <2> QED BY <2>1, <1>1, <1>2 DEF NextAt
<1>3. CASE 1 <= n /\ n <= Interval
  <2>1. q = -1
    BY <1>1, <1>3
  <2> QED BY <2>1, <1>1, <1>3 DEF NextAt
<1>4. CASE n = Interval + 1
  BY <1>1, <1>4 DEF NextAt, NoNext
<1> QED BY <1>1, <1>2, <1>3, <1>4
---------------------------------------------------------------------------------
LEMMA LaterType ==
  ASSUME NEW n \in Next_run_at
  PROVE  Later(n) \in Next_run_at
BY ScheduleAssumption DEF Later, Next_run_at, NoNext

LEMMA InitType == Init => TypeOK
<1> SUFFICES ASSUME Init PROVE TypeOK
  OBVIOUS
<1>1. PICK status \in [Task -> {"none", "active", "paused"}] :
        row = [t \in Task |->
                 [status |-> status[t],
                  next   |-> IF status[t] = "none" \/ (status[t] = "active" /\ ~Booted)
                             THEN NoNext ELSE 0,
                  zoned  |-> TRUE, lock |-> NoLock, cool |-> 0]]
  BY DEF Init
<1>2. /\ NoNext \in Next_run_at /\ 0 \in Next_run_at
      /\ NoLock \in NoLock..LockTime /\ 0 \in 0..Cooldown
  BY ScheduleAssumption DEF Next_run_at, NoNext, NoLock
<1>3. row \in [Task -> Row]
  BY <1>1, <1>2 DEF Row
<1> QED BY <1>3, ScheduleAssumption DEF Init, TypeOK

\* The three ways a step changes the table, the executions and the loops.
LEMMA RowTypes ==
  ASSUME TypeOK, NEW t \in Task
  PROVE  /\ row[t] \in Row
         /\ Unlocked(t) \in Row
         /\ \A s \in {"active", "paused", "deleted"} : [row[t] EXCEPT !.status = s] \in Row
         /\ [row[t] EXCEPT !.lock = LockTime] \in Row
         /\ [row[t] EXCEPT !.next = 0, !.zoned = TRUE] \in Row
         /\ [row[t] EXCEPT !.lock = NoLock, !.next = 0, !.zoned = TRUE] \in Row
         /\ \A n \in Next_run_at :
              [row[t] EXCEPT !.lock = NoLock, !.next = n, !.zoned = FALSE, !.cool = Cooldown] \in Row
<1>1. row[t] \in Row
  BY DEF TypeOK
<1>2. /\ 0 \in Next_run_at /\ NoLock \in NoLock..LockTime /\ LockTime \in NoLock..LockTime
      /\ Cooldown \in 0..Cooldown
  BY ScheduleAssumption DEF Next_run_at, NoNext, NoLock
<1> QED BY <1>1, <1>2 DEF Row, Unlocked

LEMMA UpdateType ==
  ASSUME TypeOK, NEW t \in Task, NEW new, Exists(t) => new \in Row, Update(t, new)
  PROVE  row' \in [Task -> Row]
BY DEF TypeOK, Update

LEMMA ClaimType ==
  ASSUME TypeOK, NEW t \in Task, NEW i \in Instance, NEW skip \in BOOLEAN, Claim(t, i, skip)
  PROVE  row' \in [Task -> Row] /\ exec' \in [Exec -> Execution \cup {Null}]
<1>1. row' \in [Task -> Row]
  <2>1. [row[t] EXCEPT !.lock = LockTime] \in Row
    BY RowTypes
  <2> QED BY <2>1 DEF TypeOK, Claim
<1>2. 0 \in Next_run_at /\ Timeout \in Nat
  BY ScheduleAssumption DEF Next_run_at, NoNext
<1>3. [task |-> t, inst |-> i, skip |-> skip, pc |-> "begin", left |-> Timeout, next |-> 0]
        \in Execution
  BY <1>2 DEF Execution
<1> QED BY <1>1, <1>3 DEF TypeOK, Claim

LoopState == [pc: {"down", "sleep", "claim", "counted"}, todo: SUBSET Task]

LEMMA AdvanceType ==
  ASSUME TypeOK, NEW i \in Instance, NEW t, Advance(i, t)
  PROVE  loop' \in [Instance -> LoopState]
<1>1. loop[i].todo \ {t} \in SUBSET Task
  BY DEF TypeOK
<1> QED BY <1>1 DEF TypeOK, Advance, LoopState

\* Steps that change one field of one execution keep it an execution.
LEMMA ContinueType ==
  ASSUME TypeOK, NEW e \in Exec, exec[e] # Null,
         NEW place \in {"begin", "running", "reading", "writing", "releasing"},
         NEW left \in Nat, Continue(e, place, left)
  PROVE  exec' \in [Exec -> Execution \cup {Null}]
<1>1. exec[e] \in Execution
  BY DEF TypeOK
<1>2. [exec[e] EXCEPT !.pc = place, !.left = left] \in Execution
  BY <1>1 DEF Execution
<1> QED BY <1>2 DEF TypeOK, Continue

LEMMA ScheduleStepTyping ==
  ASSUME TypeOK, NEW i \in Instance, Loop(i) \/ LoopFails(i)
  PROVE  TypeOK'
<1>1. CASE Scan(i)
  <2>1. [pc |-> "claim", todo |-> DueTasks] \in LoopState
    BY DEF DueTasks, LoopState
  <2> QED BY <1>1, <2>1 DEF Scan, TypeOK, LoopState
<1>2. CASE ClaimNext(i)
  <2>1. PICK t \in Task :
          \/ Claim(t, i, FALSE) /\ Advance(i, t)
          \/ loop' = [loop EXCEPT ![i].pc = "counted"] /\ UNCHANGED <<row, exec>>
          \/ Advance(i, t) /\ UNCHANGED <<row, exec>>
    BY <1>2 DEF ClaimNext
  <2>2. row' \in [Task -> Row] /\ exec' \in [Exec -> Execution \cup {Null}]
    BY <2>1, ClaimType DEF TypeOK
  <2>3. loop' \in [Instance -> LoopState]
    <3>1. [loop[i] EXCEPT !.pc = "counted"] \in LoopState
      BY DEF TypeOK, LoopState
    <3> QED BY <2>1, <3>1, AdvanceType DEF TypeOK, LoopState
  <2> QED BY <1>2, <2>2, <2>3 DEF ClaimNext, TypeOK, LoopState
<1>3. CASE ClaimCounted(i)
  <2>1. loop' \in [Instance -> LoopState]
    BY <1>3, AdvanceType DEF ClaimCounted
  <2>2. row' \in [Task -> Row] /\ exec' \in [Exec -> Execution \cup {Null}]
    BY <1>3, ClaimType DEF ClaimCounted, TypeOK
  <2> QED BY <1>3, <2>1, <2>2 DEF ClaimCounted, TypeOK, LoopState
<1>4. CASE LoopFails(i)
  BY <1>4, ScheduleAssumption DEF LoopFails, TypeOK
<1> QED BY <1>1, <1>2, <1>3, <1>4 DEF Loop

LEMMA ExecutionStepTyping ==
  ASSUME TypeOK, NEW e \in Exec, Execute(e) \/ ReleaseFails(e)
  PROVE  TypeOK'
<1>0. exec[e] # Null /\ exec[e] \in Execution /\ exec[e].task \in Task /\ exec[e].left \in Nat
  BY DEF TypeOK, Execution, Execute, Begin, EndRun, ReadRow, WriteRow, Release, ReleaseFails, In
<1>1. ASSUME End(e) PROVE exec' \in [Exec -> Execution \cup {Null}]
  BY <1>1 DEF End, TypeOK
<1>2. CASE Begin(e)
  BY <1>0, <1>2, ContinueType DEF Begin, TypeOK
<1>3. CASE EndRun(e)
  BY <1>0, <1>3, ContinueType, ScheduleAssumption DEF EndRun, TypeOK
<1>4. CASE ReadRow(e)
  <2> DEFINE t == exec[e].task
  <2>1. NextAt(t) \in Next_run_at
    <3>1. row[t].next \in Next_run_at
      BY <1>0 DEF TypeOK, Row
    <3>2. NextAt(t) \in 1..Interval
      BY <1>0, <3>1, NextAtRange
    <3> QED BY <3>2, ScheduleAssumption DEF Next_run_at, NoNext
  <2>2. /\ [exec[e] EXCEPT !.pc = "writing", !.next = NextAt(t)] \in Execution
        /\ [exec[e] EXCEPT !.pc = "releasing"] \in Execution
    BY <1>0, <2>1 DEF Execution
  <2> QED BY <1>4, <2>2 DEF ReadRow, TypeOK
<1>5. CASE WriteRow(e)
  <2> DEFINE t == exec[e].task
  <2>1. [row[t] EXCEPT !.lock = NoLock, !.next = exec[e].next, !.zoned = FALSE,
                       !.cool = Cooldown] \in Row
    BY <1>0, RowTypes DEF Execution
  <2> QED BY <1>0, <1>1, <1>5, <2>1 DEF WriteRow, TypeOK
<1>6. CASE Release(e)
  <2>1. row' \in [Task -> Row]
    BY <1>0, <1>6, RowTypes, UpdateType DEF Release
  <2> QED BY <1>1, <1>6, <2>1 DEF Release, TypeOK
<1>7. CASE ReleaseFails(e)
  <2>1. exec' \in [Exec -> Execution \cup {Null}]
    BY <1>0, <1>1, <1>7, ContinueType DEF ReleaseFails
  <2> QED BY <1>7, <2>1, ScheduleAssumption DEF ReleaseFails, TypeOK
<1> QED BY <1>2, <1>3, <1>4, <1>5, <1>6, <1>7 DEF Execute

LEMMA RequestStepTyping ==
  ASSUME TypeOK, NEW i \in Instance, NEW t \in Task,
         \/ Create(i, t) \/ Pause(i, t) \/ Resume(i, t) \/ Edit(i, t) \/ Delete(i, t) \/ RunNow(i, t)
         \/ Respond(t, i) \/ RespondFails(t, i)
  PROVE  TypeOK'
<1>1. CASE Create(i, t) \/ Pause(i, t) \/ Resume(i, t) \/ Delete(i, t)
  <2>1. \/ \E s \in {"active", "paused"} : row' = [row EXCEPT ![t].status = s]
        \/ row' = [row EXCEPT ![t] = Unlocked(t)]
    BY <1>1 DEF Create, Pause, Resume, Delete
  <2>2. row' \in [Task -> Row]
    BY <2>1, RowTypes DEF TypeOK
  <2> QED BY <1>1, <2>2 DEF Create, Pause, Resume, Delete, TypeOK
<1>2. CASE Edit(i, t) \/ RunNow(i, t)
  BY <1>2 DEF Edit, RunNow, TypeOK
<1>3. CASE CancelLoop(t, i) \/ Arm(t, i) \/ Remove(t, i)
  <2>1. \/ Update(t, Unlocked(t))
        \/ Update(t, [row[t] EXCEPT !.next = 0, !.zoned = TRUE])
        \/ Update(t, [row[t] EXCEPT !.status = "deleted"])
    BY <1>3 DEF CancelLoop, Arm, Remove
  <2>2. row' \in [Task -> Row]
    BY <2>1, RowTypes, UpdateType
  <2> QED BY <1>3, <2>2 DEF CancelLoop, Arm, Remove, Finish, TypeOK
<1>4. CASE Trigger(t, i)
  BY <1>4 DEF Trigger, TypeOK
<1>5. CASE ClaimNow(t, i)
  <2>1. row' \in [Task -> Row] /\ exec' \in [Exec -> Execution \cup {Null}]
    BY <1>5, ClaimType DEF ClaimNow, TypeOK
  <2> QED BY <1>5, <2>1 DEF ClaimNow, Finish, TypeOK
<1>6. CASE RespondFails(t, i)
  BY <1>6, ScheduleAssumption DEF RespondFails, TypeOK
<1> QED BY <1>1, <1>2, <1>3, <1>4, <1>5, <1>6 DEF Respond

LEMMA InstanceStepTyping ==
  ASSUME TypeOK, NEW i \in Instance, Start(i) \/ Crash(i) \/ Shutdown(i)
  PROVE  TypeOK'
<1>1. CASE Start(i)
  <2>1. row' \in [Task -> Row]
    BY <1>1, RowTypes DEF Start, TypeOK
  <2> QED BY <1>1, <2>1 DEF Start, TypeOK
<1>2. CASE Crash(i) \/ Shutdown(i)
  <2>1. Halt(i)
    BY <1>2 DEF Crash, Shutdown
  <2>2. row' \in [Task -> Row]
    BY <1>2, RowTypes DEF Crash, Shutdown, TypeOK
  <2>3. exec' \in [Exec -> Execution \cup {Null}] /\ crashes' \in 0..MaxCrashes
    BY <2>1, ScheduleAssumption DEF Halt, TypeOK
  <2>4. loop' \in [Instance -> LoopState]
    BY <2>1 DEF Halt, TypeOK, LoopState
  <2> QED BY <2>1, <2>2, <2>3, <2>4 DEF Halt, TypeOK, LoopState
<1> QED BY <1>1, <1>2

LEMMA TickTyping == TypeOK /\ Tick => TypeOK'
<1> SUFFICES ASSUME TypeOK, Tick PROVE TypeOK'
  OBVIOUS
<1>1. ASSUME NEW t \in Task PROVE row'[t] \in Row
  <2>1. row[t] \in Row
    BY DEF TypeOK
  <2>2. Later(row[t].next) \in Next_run_at
    BY <2>1, LaterType DEF Row
  <2>3. row'[t] = [row[t] EXCEPT !.next = Later(@),
                                 !.lock = IF @ >= 0 THEN @ - 1 ELSE @,
                                 !.cool = IF @ > 0 THEN @ - 1 ELSE @]
    BY DEF Tick
  <2>4. /\ (IF row[t].lock >= 0 THEN row[t].lock - 1 ELSE row[t].lock) \in NoLock..LockTime
        /\ (IF row[t].cool > 0 THEN row[t].cool - 1 ELSE row[t].cool) \in 0..Cooldown
    BY <2>1, ScheduleAssumption DEF Row, NoLock
  <2> QED BY <2>1, <2>2, <2>3, <2>4 DEF Row
<1>2. ASSUME NEW e \in Exec PROVE exec'[e] \in Execution \cup {Null}
  <2>1. CASE exec[e] = Null
    BY <2>1 DEF Tick
  <2>2. CASE exec[e] # Null
    <3>1. exec[e] \in Execution /\ exec[e].left > 0
      BY <2>2 DEF TypeOK, Tick
    <3>2. Later(exec[e].next) \in Next_run_at
      BY <3>1, LaterType DEF Execution
    <3>3. exec'[e] = [exec[e] EXCEPT !.left = @ - 1, !.next = Later(@)]
      BY <2>2 DEF Tick
    <3>4. exec[e].left - 1 \in Nat
      BY <3>1 DEF Execution
    <3> QED BY <3>1, <3>2, <3>3, <3>4 DEF Execution
  <2> QED BY <2>1, <2>2
<1>3. row' \in [Task -> Row] /\ exec' \in [Exec -> Execution \cup {Null}]
  BY <1>1, <1>2 DEF Tick
<1> QED BY <1>3 DEF Tick, TypeOK

LEMMA StepTyping == TypeOK /\ [Next]_vars => TypeOK'
<1> SUFFICES ASSUME TypeOK, [Next]_vars PROVE TypeOK'
  OBVIOUS
<1>1. CASE Next
  BY <1>1, TickTyping, ScheduleStepTyping, ExecutionStepTyping, RequestStepTyping,
     InstanceStepTyping DEF Next, Harmless, Unlock, Respond
<1>2. CASE UNCHANGED vars
  BY <1>2 DEF vars, TypeOK
<1> QED BY <1>1, <1>2

\* The table, the executions and the loops keep their types, whatever requests,
\* crashes and failures come in between: in particular next_run_at never runs
\* more than an interval ahead, and a lock never outlasts LockTime.
THEOREM TypeCorrect == Spec => []TypeOK
BY InitType, StepTyping, PTL DEF Spec
---------------------------------------------------------------------------------
(***************************************************************************)
(* A task is executed once at a time, as long as nobody releases the lock  *)
(* of a task that is being executed.                                       *)
(***************************************************************************)
Reserve(e) == IF exec[e].pc \in {"begin", "running"} THEN Grace ELSE 0

\* The inductive invariant: mutual exclusion, and why no lock expires too early.
LockHeld ==
  \A e \in Exec :
    exec[e] # Null =>
      Exists(exec[e].task) /\ row[exec[e].task].lock >= exec[e].left + Reserve(e)

Locking == LockHeld /\ MutualExclusion

LockInv == TypeOK /\ Locking

LEMMA InitLocking == Init => LockInv
BY InitType DEF Init, LockInv, Locking, LockHeld, MutualExclusion

\* Whoever claims a task finds nobody executing it, and locks it for long enough.
LEMMA ClaimKeepsLocking ==
  ASSUME TypeOK, Locking, NEW t \in Task, NEW i \in Instance, NEW skip \in BOOLEAN,
         Claimable(t), Claim(t, i, skip)
  PROVE  Locking'
<1> USE DEF Locking
<1>1. PICK e \in Exec :
        /\ exec[e] = Null
        /\ exec' = [exec EXCEPT ![e] = [task |-> t, inst |-> i, skip |-> skip, pc |-> "begin",
                                        left |-> Timeout, next |-> 0]]
        /\ row' = [row EXCEPT ![t].lock = LockTime]
  BY DEF Claim
<1>2. ASSUME NEW f \in Exec, exec[f] # Null PROVE exec[f].task # t /\ exec[f].task \in Task
  <2>1. exec[f] \in Execution
    BY <1>2 DEF TypeOK
  <2>2. exec[f].left \in Nat /\ Reserve(f) \in Nat /\ exec[f].task \in Task
    BY <2>1, ScheduleAssumption DEF Execution, Reserve
  <2>3. row[exec[f].task].lock >= 0
    BY <1>2, <2>2 DEF LockHeld, TypeOK, Row, NoLock
  <2> QED BY <2>2, <2>3 DEF Claimable, TypeOK, Row, NoLock
<1>3. /\ row[t] \in Row
      /\ row'[t] = [row[t] EXCEPT !.lock = LockTime]
      /\ \A s \in Task : s # t => row'[s] = row[s]
  BY <1>1 DEF TypeOK
<1>4. row'[t].lock = LockTime /\ row'[t].status \in {"active", "paused"}
  BY <1>3 DEF Row, Claimable, Exists
<1>5. /\ exec'[e] # Null
      /\ exec'[e].task = t /\ exec'[e].left = Timeout /\ exec'[e].pc = "begin"
      /\ \A f \in Exec : f # e => exec'[f] = exec[f]
  <2>1. 0 \in Next_run_at /\ Timeout \in Nat
    BY ScheduleAssumption DEF Next_run_at, NoNext
  <2>2. [task |-> t, inst |-> i, skip |-> skip, pc |-> "begin", left |-> Timeout, next |-> 0]
          \in Execution
    BY <2>1 DEF Execution
  <2> QED BY <1>1, <2>2, ExecutionNull DEF TypeOK
<1>7. LockHeld'
  <2> SUFFICES ASSUME NEW f \in Exec, exec'[f] # Null
               PROVE  /\ row'[exec'[f].task].status \in {"active", "paused"}
                      /\ row'[exec'[f].task].lock >= exec'[f].left + Reserve(f)'
    BY DEF LockHeld, Exists
  <2>1. CASE f = e
    BY <1>4, <1>5, <2>1, LockAssumption, ScheduleAssumption DEF Reserve
  <2>2. CASE f # e
    BY <1>2, <1>3, <1>5, <2>2 DEF LockHeld, Reserve, Exists
  <2> QED BY <2>1, <2>2
<1>8. MutualExclusion'
  BY <1>2, <1>5 DEF MutualExclusion
<1> QED BY <1>7, <1>8

\* An execution that ends may release the lock: nobody else executes the task.
LEMMA EndKeepsLocking ==
  ASSUME TypeOK, Locking, NEW e \in Exec, exec[e] # Null, End(e),
         row' \in [Task -> Row],
         \A t \in Task : row'[t].status = row[t].status,
         \A t \in Task : t # exec[e].task => row'[t] = row[t]
  PROVE  Locking'
<1> USE DEF Locking
<1>1. \A f \in Exec : exec'[f] = IF f = e THEN Null ELSE exec[f]
  BY DEF End, TypeOK
<1>2. ASSUME NEW f \in Exec, exec'[f] # Null
      PROVE  /\ exec'[f] = exec[f] /\ exec[f] # Null /\ exec[f].task \in Task
             /\ row'[exec[f].task] = row[exec[f].task]
  <2>1. f # e /\ exec'[f] = exec[f]
    BY <1>1, <1>2
  <2>2. exec[f].task \in Task /\ exec[f].task # exec[e].task
    BY <1>2, <2>1 DEF TypeOK, Execution, MutualExclusion
  <2> QED BY <1>2, <2>1, <2>2
<1>4. LockHeld'
  BY <1>2 DEF LockHeld, Reserve, Exists
<1>5. MutualExclusion'
  BY <1>2 DEF MutualExclusion
<1> QED BY <1>4, <1>5

\* An execution that goes on with no more time than it had keeps its lock.
LEMMA ContinueKeepsLocking ==
  ASSUME TypeOK, Locking, NEW e \in Exec, exec[e] # Null, UNCHANGED row,
         NEW x \in Execution, exec' = [exec EXCEPT ![e] = x],
         x.task = exec[e].task,
         x.left + (IF x.pc \in {"begin", "running"} THEN Grace ELSE 0) <= exec[e].left + Reserve(e)
  PROVE  Locking'
<1> USE DEF Locking
<1>1. \A f \in Exec : exec'[f] = IF f = e THEN x ELSE exec[f]
  BY DEF TypeOK
<1>2. exec[e] \in Execution /\ x.left \in Nat /\ exec[e].left \in Nat /\ exec[e].task \in Task
  BY DEF TypeOK, Execution
<1>3. row[exec[e].task].lock \in Int
  BY <1>2 DEF TypeOK, Row, NoLock
<1>5. LockHeld'
  <2> SUFFICES ASSUME NEW f \in Exec, exec'[f] # Null
               PROVE  /\ row[exec'[f].task].status \in {"active", "paused"}
                      /\ row[exec'[f].task].lock >= exec'[f].left + Reserve(f)'
    BY DEF LockHeld, Exists
  <2>1. CASE f = e
    <3>1. row[exec[e].task].status \in {"active", "paused"}
          /\ row[exec[e].task].lock >= exec[e].left + Reserve(e)
      BY DEF LockHeld, Exists
    <3>2. exec'[f] = x
      BY <1>1, <2>1
    <3>3. Reserve(f)' \in Nat /\ Reserve(e) \in Nat
      BY ScheduleAssumption DEF Reserve
    <3>4. x.left + Reserve(f)' <= exec[e].left + Reserve(e)
      BY <3>2 DEF Reserve
    <3> QED BY <1>2, <1>3, <3>1, <3>2, <3>3, <3>4
  <2>2. CASE f # e
    BY <1>1, <2>2 DEF LockHeld, Reserve, Exists
  <2> QED BY <2>1, <2>2
<1>6. MutualExclusion'
  BY <1>1 DEF MutualExclusion
<1> QED BY <1>5, <1>6

LEMMA ExecutionKeepsLocking ==
  ASSUME TypeOK, Locking, NEW e \in Exec, Execute(e) \/ ReleaseFails(e)
  PROVE  Locking'
<1>1. /\ exec[e] # Null /\ exec[e] \in Execution /\ exec[e].task \in Task /\ exec[e].left \in Nat
      /\ exec[e].pc \in {"begin", "running", "reading", "writing", "releasing"}
  BY DEF TypeOK, Execution, Execute, Begin, EndRun, ReadRow, WriteRow, Release, ReleaseFails, In
<1>2. LockTime \in Nat /\ Grace \in Nat
  BY ScheduleAssumption
<1>3. CASE Begin(e)
  <2> DEFINE x == [exec[e] EXCEPT !.pc = "running", !.left = exec[e].left]
  <2>1. x \in Execution /\ x.task = exec[e].task /\ x.pc = "running" /\ x.left = exec[e].left
    BY <1>1 DEF Execution
  <2>2. Reserve(e) = Grace
    BY <1>3 DEF Begin, In, Reserve
  <2>3. exec' = [exec EXCEPT ![e] = x] /\ UNCHANGED row
    BY <1>3 DEF Begin, Continue
  <2>4. x.left + (IF x.pc \in {"begin", "running"} THEN Grace ELSE 0) <= exec[e].left + Reserve(e)
    BY <1>1, <1>2, <2>1, <2>2
  <2> HIDE DEF x
  <2> QED BY <1>1, <2>1, <2>3, <2>4, ContinueKeepsLocking
<1>4. CASE EndRun(e)
  <2> DEFINE place == IF exec[e].skip THEN "releasing" ELSE "reading"
             x     == [exec[e] EXCEPT !.pc = place, !.left = Grace]
  <2>1. x \in Execution /\ x.task = exec[e].task /\ x.pc \in {"reading", "releasing"} /\ x.left = Grace
    BY <1>1, <1>2 DEF Execution
  <2>2. Reserve(e) = Grace
    BY <1>4 DEF EndRun, In, Reserve
  <2>3. exec' = [exec EXCEPT ![e] = x] /\ UNCHANGED row
    BY <1>4 DEF EndRun, Continue
  <2>4. x.left + (IF x.pc \in {"begin", "running"} THEN Grace ELSE 0) <= exec[e].left + Reserve(e)
    BY <1>1, <1>2, <2>1, <2>2
  <2> HIDE DEF x
  <2> QED BY <1>1, <2>1, <2>3, <2>4, ContinueKeepsLocking
<1>5. CASE ReadRow(e)
  <2> DEFINE t == exec[e].task
             x == IF Active(t) THEN [exec[e] EXCEPT !.pc = "writing", !.next = NextAt(t)]
                  ELSE [exec[e] EXCEPT !.pc = "releasing"]
  <2>1. NextAt(t) \in Next_run_at
    <3>1. row[t].next \in Next_run_at
      BY <1>1 DEF TypeOK, Row
    <3>2. NextAt(t) \in 1..Interval
      BY <1>1, <3>1, NextAtRange
    <3> QED BY <3>2, ScheduleAssumption DEF Next_run_at, NoNext
  <2>2. /\ x \in Execution /\ x.task = exec[e].task /\ x.pc \in {"writing", "releasing"}
        /\ x.left = exec[e].left
    BY <1>1, <2>1 DEF Execution
  <2>3. Reserve(e) \in Nat
    BY <1>2 DEF Reserve
  <2>4. exec' = [exec EXCEPT ![e] = x] /\ UNCHANGED row
    BY <1>5 DEF ReadRow
  <2>5. x.left + (IF x.pc \in {"begin", "running"} THEN Grace ELSE 0) <= exec[e].left + Reserve(e)
    BY <1>1, <1>2, <2>2, <2>3
  <2> HIDE DEF x
  <2> QED BY <1>1, <2>2, <2>4, <2>5, ContinueKeepsLocking
<1>6. CASE WriteRow(e) \/ Release(e)
  <2>1. End(e) /\ row' \in [Task -> Row]
    BY <1>6, ExecutionStepTyping DEF WriteRow, Release, Execute, TypeOK
  <2>2. \A t \in Task : t # exec[e].task => row'[t] = row[t]
    BY <1>1, <1>6 DEF WriteRow, Release, Update, TypeOK
  <2>3. row'[exec[e].task].status = row[exec[e].task].status
    <3>1. row[exec[e].task] \in Row
      BY <1>1 DEF TypeOK
    <3>2. CASE WriteRow(e)
      BY <1>1, <3>1, <3>2 DEF WriteRow, TypeOK, Row
    <3>3. CASE Release(e)
      BY <1>1, <3>1, <3>3 DEF Release, Update, Unlocked, TypeOK, Row
    <3> QED BY <1>6, <3>2, <3>3
  <2>4. \A t \in Task : row'[t].status = row[t].status
    BY <2>2, <2>3
  <2> QED BY <1>1, <2>1, <2>2, <2>4, EndKeepsLocking
<1>7. CASE ReleaseFails(e)
  <2>1. CASE End(e)
    BY <1>1, <1>7, <2>1, EndKeepsLocking DEF ReleaseFails, TypeOK
  <2>2. CASE Continue(e, "releasing", exec[e].left)
    <3> DEFINE x == [exec[e] EXCEPT !.pc = "releasing", !.left = exec[e].left]
    <3>1. x \in Execution /\ x.task = exec[e].task /\ x.pc = "releasing" /\ x.left = exec[e].left
      BY <1>1 DEF Execution
    <3>2. Reserve(e) \in Nat
      BY <1>2 DEF Reserve
    <3>3. exec' = [exec EXCEPT ![e] = x] /\ UNCHANGED row
      BY <1>7, <2>2 DEF ReleaseFails, Continue
    <3>4. x.left + (IF x.pc \in {"begin", "running"} THEN Grace ELSE 0) <= exec[e].left + Reserve(e)
      BY <1>1, <1>2, <3>1, <3>2
    <3> HIDE DEF x
    <3> QED BY <1>1, <3>1, <3>3, <3>4, ContinueKeepsLocking
  <2> QED BY <1>7, <2>1, <2>2 DEF ReleaseFails
<1> QED BY <1>3, <1>4, <1>5, <1>6, <1>7 DEF Execute

\* A lock and the execution it protects age together.
LEMMA TickKeepsLocking == TypeOK /\ Locking /\ Tick => Locking'
<1> SUFFICES ASSUME TypeOK, Locking, Tick PROVE Locking'
  OBVIOUS
<1> USE DEF Locking
<1>1. ASSUME NEW t \in Task
      PROVE  /\ row'[t].status = row[t].status
             /\ row'[t].lock = IF row[t].lock >= 0 THEN row[t].lock - 1 ELSE row[t].lock
  <2>1. row[t] \in Row
    BY DEF TypeOK
  <2>2. row'[t] = [row[t] EXCEPT !.next = Later(@),
                                 !.lock = IF @ >= 0 THEN @ - 1 ELSE @,
                                 !.cool = IF @ > 0 THEN @ - 1 ELSE @]
    BY DEF Tick
  <2> QED BY <2>1, <2>2 DEF Row
<1>2. ASSUME NEW e \in Exec
      PROVE  IF exec[e] = Null THEN exec'[e] = Null
             ELSE /\ exec'[e].task = exec[e].task /\ exec'[e].pc = exec[e].pc
                  /\ exec'[e].left = exec[e].left - 1
  <2>1. exec'[e] = IF exec[e] = Null THEN Null
                   ELSE [exec[e] EXCEPT !.left = @ - 1, !.next = Later(@)]
    BY DEF Tick
  <2>2. exec[e] # Null => exec[e] \in Execution
    BY DEF TypeOK
  <2> QED BY <2>1, <2>2 DEF Execution
<1>4. LockHeld'
  <2> SUFFICES ASSUME NEW e \in Exec, exec'[e] # Null
               PROVE  /\ row'[exec'[e].task].status \in {"active", "paused"}
                      /\ row'[exec'[e].task].lock >= exec'[e].left + Reserve(e)'
    BY DEF LockHeld, Exists
  <2>1. /\ exec[e] # Null /\ exec'[e].task = exec[e].task
        /\ exec'[e].left = exec[e].left - 1
        /\ Reserve(e)' = Reserve(e)
    BY <1>2 DEF Reserve
  <2>2. /\ exec[e].task \in Task /\ exec[e].left \in Nat /\ exec[e].left > 0
        /\ Reserve(e) \in Nat
    BY <2>1, ScheduleAssumption DEF TypeOK, Execution, Tick, Reserve
  <2>3. /\ row[exec[e].task].status \in {"active", "paused"}
        /\ row[exec[e].task].lock >= exec[e].left + Reserve(e)
        /\ row[exec[e].task].lock \in Int
    BY <2>1, <2>2 DEF LockHeld, Exists, TypeOK, Row, NoLock
  <2>4. row'[exec[e].task].lock = row[exec[e].task].lock - 1
    BY <1>1, <2>2, <2>3
  <2> QED BY <1>1, <2>1, <2>2, <2>3, <2>4
<1>5. MutualExclusion'
  BY <1>2 DEF MutualExclusion
<1> QED BY <1>4, <1>5

LEMMA SameLocking ==
  ASSUME Locking, UNCHANGED exec,
         \A e \in Exec : exec[e] # Null =>
           /\ Exists(exec[e].task) => Exists(exec[e].task)'
           /\ row'[exec[e].task].lock = row[exec[e].task].lock
  PROVE  Locking'
BY DEF Locking, LockHeld, MutualExclusion, Reserve

LEMMA LoopKeepsLocking ==
  ASSUME TypeOK, Locking, NEW i \in Instance, Loop(i) \/ LoopFails(i)
  PROVE  Locking'
<1>1. CASE UNCHANGED <<row, exec>>
  BY <1>1, SameLocking DEF Exists
<1>2. CASE \E t \in Task : Claimable(t) /\ Claim(t, i, FALSE)
  BY <1>2, ClaimKeepsLocking
<1>3. UNCHANGED <<row, exec>> \/ \E t \in Task : Claimable(t) /\ Claim(t, i, FALSE)
  BY DEF Loop, Scan, ClaimNext, ClaimCounted, LoopFails
<1> QED BY <1>1, <1>2, <1>3

\* Of the requests only run-now takes a lock, and a careful one releases it, or removes the
\* row, only when nobody executes the task.
LEMMA RequestKeepsLocking ==
  ASSUME TypeOK, Locking, NEW i \in Instance, NEW t \in Task,
         \/ Create(i, t) \/ Pause(i, t) \/ Resume(i, t) \/ Edit(i, t) \/ RunNow(i, t)
         \/ Trigger(t, i) \/ Arm(t, i) \/ ClaimNow(t, i) \/ RespondFails(t, i)
         \/ t \notin Executing /\ Unlock(i, t)
  PROVE  Locking'
<1>1. \A e \in Exec : exec[e] # Null => exec[e].task \in Task
  BY DEF TypeOK, Execution
<1>2. CASE Create(i, t) \/ Pause(i, t) \/ Resume(i, t) \/ Arm(t, i)
  <2>1. \A s \in Task : row'[s].lock = row[s].lock /\ (Exists(s) => Exists(s)')
    <3>1. row \in [Task -> Row]
      BY DEF TypeOK
    <3>2. \A s \in Task \ {t} : row'[s] = row[s]
      BY <1>2, <3>1 DEF Create, Pause, Resume, Arm, Update
    <3>3. CASE Create(i, t)
      <4>1. row'[t] = [row[t] EXCEPT !.status = "active"]
        BY <3>1, <3>3 DEF Create
      <4> QED BY <3>1, <3>2, <4>1 DEF Row, Exists
    <3>4. CASE Pause(i, t)
      <4>1. row'[t] = [row[t] EXCEPT !.status = "paused"]
        BY <3>1, <3>4 DEF Pause
      <4> QED BY <3>1, <3>2, <4>1 DEF Row, Exists
    <3>5. CASE Resume(i, t)
      <4>1. row'[t] = [row[t] EXCEPT !.status = "active"]
        BY <3>1, <3>5 DEF Resume
      <4> QED BY <3>1, <3>2, <4>1 DEF Row, Exists
    <3>6. CASE Arm(t, i)
      <4>1. row'[t] \in {row[t], [row[t] EXCEPT !.next = 0, !.zoned = TRUE]}
        BY <3>1, <3>6 DEF Arm, Update
      <4>2. row'[t].lock = row[t].lock /\ row'[t].status = row[t].status
        BY <3>1, <4>1 DEF Row
      <4> QED BY <3>2, <4>2 DEF Exists
    <3> QED BY <1>2, <3>3, <3>4, <3>5, <3>6
  <2>2. UNCHANGED exec
    BY <1>2 DEF Create, Pause, Resume, Arm
  <2> QED BY <1>1, <2>1, <2>2, SameLocking
<1>3. CASE Edit(i, t) \/ RunNow(i, t) \/ Trigger(t, i) \/ RespondFails(t, i)
  <2>1. UNCHANGED <<row, exec>>
    BY <1>3 DEF Edit, RunNow, Trigger, RespondFails
  <2> QED BY <2>1, SameLocking DEF Exists
<1>4. CASE t \notin Executing /\ Unlock(i, t)
  <2>1. \A e \in Exec : exec[e] # Null => exec[e].task \in Task \ {t}
    BY <1>1, <1>4 DEF Executing
  <2>2. UNCHANGED exec /\ \A s \in Task \ {t} : row'[s] = row[s]
    BY <1>4 DEF Unlock, CancelLoop, Delete, Remove, Update, TypeOK
  <2> QED BY <2>1, <2>2, SameLocking DEF Exists
<1>5. CASE ClaimNow(t, i)
  <2>1. CASE Claimable(t) /\ Claim(t, i, TRUE)
    BY <2>1, ClaimKeepsLocking
  <2>2. CASE UNCHANGED <<row, exec>>
    BY <2>2, SameLocking DEF Exists
  <2> QED BY <1>5, <2>1, <2>2 DEF ClaimNow
<1> QED BY <1>2, <1>3, <1>4, <1>5

LEMMA StartKeepsLocking ==
  ASSUME TypeOK, Locking, Executing = {}, NEW i \in Instance, Start(i)
  PROVE  Locking'
<1>1. \A e \in Exec : exec'[e] = Null
  BY DEF Executing, Start, TypeOK, Execution
<1> QED BY <1>1 DEF Locking, LockHeld, MutualExclusion

\* What an instance releases when it shuts down it executes itself.
LEMMA HaltKeepsLocking ==
  ASSUME TypeOK, Locking, NEW i \in Instance, Crash(i) \/ Shutdown(i)
  PROVE  Locking'
<1> USE DEF Locking
<1>1. \A e \in Exec : exec'[e] = IF e \in OfInstance(i) THEN Null ELSE exec[e]
  BY DEF Crash, Shutdown, Halt
<1>2. ASSUME NEW e \in Exec, exec'[e] # Null
      PROVE  /\ exec'[e] = exec[e] /\ exec[e] # Null /\ exec[e].task \in Task
             /\ row'[exec[e].task] = row[exec[e].task]
  <2>1. exec'[e] = exec[e] /\ exec[e] # Null /\ e \notin OfInstance(i)
    BY <1>1, <1>2
  <2>2. exec[e].task \in Task
    BY <2>1 DEF TypeOK, Execution
  <2>3. \A f \in OfInstance(i) : exec[f].task # exec[e].task
    BY <2>1 DEF OfInstance, MutualExclusion
  <2> QED BY <2>1, <2>2, <2>3 DEF Crash, Shutdown
<1>3. LockHeld'
  BY <1>2 DEF LockHeld, Reserve, Exists
<1>4. MutualExclusion'
  BY <1>2 DEF MutualExclusion
<1> QED BY <1>3, <1>4

LEMMA CarefulStepsAreSteps == [CarefulNext]_vars => [Next]_vars
BY DEF CarefulNext, Next

LEMMA StepLocking == LockInv /\ [CarefulNext]_vars => LockInv'
<1> SUFFICES ASSUME LockInv, [CarefulNext]_vars PROVE LockInv'
  OBVIOUS
<1>1. TypeOK /\ Locking /\ TypeOK'
  BY CarefulStepsAreSteps, StepTyping DEF LockInv
<1>2. CASE Tick
  BY <1>1, <1>2, TickKeepsLocking DEF LockInv
<1>3. ASSUME NEW i \in Instance, Loop(i) \/ LoopFails(i) PROVE LockInv'
  BY <1>1, <1>3, LoopKeepsLocking DEF LockInv
<1>4. ASSUME NEW e \in Exec, Execute(e) \/ ReleaseFails(e) PROVE LockInv'
  BY <1>1, <1>4, ExecutionKeepsLocking DEF LockInv
<1>5. ASSUME NEW i \in Instance, NEW t \in Task,
             \/ Create(i, t) \/ Pause(i, t) \/ Resume(i, t) \/ Edit(i, t) \/ RunNow(i, t)
             \/ Trigger(t, i) \/ Arm(t, i) \/ ClaimNow(t, i) \/ RespondFails(t, i)
             \/ t \notin Executing /\ Unlock(i, t)
      PROVE  LockInv'
  BY <1>1, <1>5, RequestKeepsLocking DEF LockInv
<1>6. ASSUME Executing = {}, NEW i \in Instance, Start(i) PROVE LockInv'
  BY <1>1, <1>6, StartKeepsLocking DEF LockInv
<1>7. ASSUME NEW i \in Instance, Crash(i) \/ Shutdown(i) PROVE LockInv'
  BY <1>1, <1>7, HaltKeepsLocking DEF LockInv
<1>8. CASE UNCHANGED vars
  BY <1>1, <1>8, SameLocking DEF vars, LockInv, Exists
<1> QED BY <1>2, <1>3, <1>4, <1>5, <1>6, <1>7, <1>8 DEF CarefulNext, Harmless

LEMMA LockingHolds == CarefulSpec => []LockInv
BY InitLocking, StepLocking, PTL DEF CarefulSpec

\* Of all that the loops, run-now, the requests, crashes, restarts and failed statements
\* can do, only a release or a removal under an execution, or the start of an instance
\* beside one, can have a task executed twice at a time: claim_scheduled_task's promise
\* rests on nothing else.
THEOREM CarefulUseExecutesOnce == CarefulSpec => []MutualExclusion
<1>1. LockInv => MutualExclusion
  BY DEF LockInv, Locking
<1> QED BY <1>1, LockingHolds, PTL

\* The lock of a task outlives its execution and the statements that release it,
\* which is why release_scheduled_task need not ask whose lock it releases.
THEOREM CarefulUseKeepsLocks == CarefulSpec => []LockOutlivesExecution
<1>1. LockInv => LockOutlivesExecution
  BY DEF LockInv, Locking, LockHeld, LockOutlivesExecution, Reserve
<1> QED BY <1>1, LockingHolds, PTL
---------------------------------------------------------------------------------
(***************************************************************************)
(* Use that is careful by itself: nobody pauses, resumes or deletes tasks, *)
(* and either there is one instance, which may crash and restart, or the   *)
(* instances stay up.                                                      *)
(***************************************************************************)
SafeUse ==
  /\ Requests \subseteq {"create", "edit", "run-now"}
  /\ \/ \A i, j \in Instance : i = j
     \/ Booted /\ MaxCrashes = 0

NothingPaused == \A t \in Task : row[t].status \in {"none", "active"}

RequestsServed ==
  \A p \in pending : p[1] \in {"trigger", "arm", "claim"} /\ Up(p[3])

DownIsQuiet ==
  /\ \A i \in Instance : ~Up(i) => \A e \in Exec : exec[e] = Null
  /\ Booted /\ MaxCrashes = 0 => \A i \in Instance : Up(i)

SafeInv == TypeOK /\ NothingPaused /\ RequestsServed /\ DownIsQuiet

LEMMA InitSafe == ASSUME SafeUse PROVE Init => SafeInv
<1> SUFFICES ASSUME Init PROVE SafeInv
  OBVIOUS
<1>1. TypeOK
  BY InitType
<1>2. NothingPaused
  BY DEF Init, SafeUse, NothingPaused
<1>3. RequestsServed
  BY DEF Init, RequestsServed
<1>4. DownIsQuiet
  BY DEF Init, DownIsQuiet, Up
<1> QED BY <1>1, <1>2, <1>3, <1>4 DEF SafeInv

\* No other step pauses or deletes a row.
LEMMA NothingGetsPaused ==
  ASSUME SafeUse, TypeOK, NothingPaused, RequestsServed, [Next]_vars
  PROVE  NothingPaused'
<1> SUFFICES ASSUME NEW t \in Task PROVE row'[t].status \in {"none", "active"}
  BY DEF NothingPaused
<1>1. row[t].status \in {"none", "active"} /\ row[t] \in Row
  BY DEF NothingPaused, TypeOK
<1>2. CASE Tick
  BY <1>1, <1>2 DEF Tick, Row
<1>3. ASSUME NEW i \in Instance, Loop(i) \/ LoopFails(i)
      PROVE  row'[t].status = row[t].status
  <2>1. UNCHANGED row \/ \E s \in Task : row' = [row EXCEPT ![s].lock = LockTime]
    BY <1>3 DEF Loop, Scan, ClaimNext, ClaimCounted, LoopFails, Claim
  <2> QED BY <1>1, <2>1 DEF TypeOK, Row
<1>4. ASSUME NEW e \in Exec, Execute(e) \/ ReleaseFails(e)
      PROVE  row'[t].status = row[t].status
  <2>1. CASE WriteRow(e)
    BY <1>1, <2>1 DEF WriteRow, TypeOK, Row
  <2>2. CASE Release(e)
    BY <1>1, <2>2 DEF Release, Update, Unlocked, TypeOK, Row
  <2>3. CASE ~WriteRow(e) /\ ~Release(e)
    BY <1>4, <2>3 DEF Execute, Begin, EndRun, ReadRow, ReleaseFails
  <2> QED BY <2>1, <2>2, <2>3
<1>5. ASSUME NEW i \in Instance, NEW s \in Task, Create(i, s) \/ Arm(s, i)
      PROVE  row'[t].status \in {row[t].status, "active"}
  <2>1. row \in [Task -> Row]
    BY DEF TypeOK
  <2>2. CASE s # t
    BY <1>5, <2>1, <2>2 DEF Create, Arm, Update
  <2>3. CASE s = t /\ Create(i, s)
    <3>1. row'[t] = [row[t] EXCEPT !.status = "active"]
      BY <2>1, <2>3 DEF Create
    <3> QED BY <1>1, <3>1 DEF Row
  <2>4. CASE s = t /\ Arm(s, i)
    <3>1. row'[t] \in {row[t], [row[t] EXCEPT !.next = 0, !.zoned = TRUE]}
      BY <2>1, <2>4 DEF Arm, Update
    <3> QED BY <1>1, <3>1 DEF Row
  <2> QED BY <1>5, <2>2, <2>3, <2>4
<1>6. ASSUME NEW i \in Instance, NEW s \in Task, ClaimNow(s, i)
      PROVE  row'[t].status = row[t].status
  BY <1>1, <1>6 DEF ClaimNow, Claim, TypeOK, Row
<1>7. ASSUME NEW i \in Instance, NEW s \in Task,
             Pause(i, s) \/ Resume(i, s) \/ Delete(i, s) \/ CancelLoop(s, i) \/ Remove(s, i)
      PROVE  FALSE
  BY <1>7 DEF Pause, Resume, Delete, Serves, CancelLoop, Remove, Finish, SafeUse, RequestsServed
<1>8. ASSUME NEW i \in Instance, NEW s \in Task,
             Edit(i, s) \/ RunNow(i, s) \/ Trigger(s, i) \/ RespondFails(s, i)
      PROVE  UNCHANGED row
  BY <1>8 DEF Edit, RunNow, Trigger, RespondFails
<1>9. ASSUME NEW i \in Instance, Start(i) \/ Crash(i) \/ Shutdown(i)
      PROVE  row'[t].status = row[t].status
  <2>1. row'[t] \in {row[t], Unlocked(t), [row[t] EXCEPT !.lock = NoLock, !.next = 0, !.zoned = TRUE]}
    BY <1>9 DEF Start, Crash, Shutdown
  <2> QED BY <1>1, <2>1 DEF Unlocked, Row
<1>10. CASE UNCHANGED vars
  BY <1>1, <1>10 DEF vars
<1> QED
  BY <1>1, <1>2, <1>3, <1>4, <1>5, <1>6, <1>7, <1>8, <1>9, <1>10 DEF Next, Harmless, Unlock, Respond

\* Under SafeUse nobody works while some instance is down.
LEMMA AllUp ==
  ASSUME SafeUse, DownIsQuiet, NEW i \in Instance, Up(i)
  PROVE  \A j \in Instance : Up(j)
BY DEF SafeUse, DownIsQuiet

LEMMA AllUpWhileExecuting ==
  ASSUME DownIsQuiet, NEW e \in Exec, exec[e] # Null
  PROVE  \A j \in Instance : Up(j)
BY DEF DownIsQuiet

LEMMA LoopStaysServed ==
  ASSUME SafeUse, SafeInv, NEW i \in Instance, Loop(i) \/ LoopFails(i)
  PROVE  RequestsServed' /\ DownIsQuiet'
<1>1. Up(i) /\ UNCHANGED pending
  BY DEF Loop, Scan, ClaimNext, ClaimCounted, LoopFails, Up
<1>2. \A j \in Instance : Up(j)
  BY <1>1, AllUp DEF SafeInv
<1>3. \A j \in Instance : Up(j)'
  <2> USE DEF SafeInv, TypeOK
  <2>1. CASE Scan(i) \/ LoopFails(i)
    BY <1>2, <2>1 DEF Scan, LoopFails, Up
  <2>2. CASE \E t \in Task : Advance(i, t)
    BY <1>2, <2>2 DEF Advance, Up
  <2>3. CASE loop' = [loop EXCEPT ![i].pc = "counted"]
    BY <1>2, <2>3 DEF Up
  <2>4. CASE ClaimNext(i) \/ ClaimCounted(i)
    BY <2>2, <2>3, <2>4 DEF ClaimNext, ClaimCounted
  <2> QED BY <2>1, <2>4 DEF Loop
<1>4. \A p \in pending : p[3] \in Instance
  BY DEF SafeInv, TypeOK
<1> QED BY <1>1, <1>3, <1>4 DEF SafeInv, RequestsServed, DownIsQuiet

LEMMA ExecutionStaysServed ==
  ASSUME SafeInv, NEW e \in Exec, Execute(e) \/ ReleaseFails(e)
  PROVE  RequestsServed' /\ DownIsQuiet'
<1>1. exec[e] # Null /\ UNCHANGED <<loop, pending>>
  BY DEF Execute, Begin, EndRun, ReadRow, WriteRow, Release, ReleaseFails, In
<1>2. \A j \in Instance : Up(j)'
  BY <1>1, AllUpWhileExecuting DEF SafeInv, Up
<1>3. RequestsServed'
  BY <1>1 DEF SafeInv, RequestsServed, Up
<1> QED BY <1>2, <1>3 DEF DownIsQuiet

LEMMA RequestStaysServed ==
  ASSUME SafeUse, SafeInv, NEW i \in Instance, NEW t \in Task,
         \/ Create(i, t) \/ Pause(i, t) \/ Resume(i, t) \/ Edit(i, t) \/ Delete(i, t) \/ RunNow(i, t)
         \/ Respond(t, i) \/ RespondFails(t, i)
  PROVE  RequestsServed' /\ DownIsQuiet'
<1>1. UNCHANGED loop
  BY DEF Create, Pause, Resume, Edit, Delete, RunNow, Respond, RespondFails, CancelLoop, Trigger,
         Arm, Remove, ClaimNow, Finish
<1>2. Up(i)
  BY DEF Create, Pause, Resume, Edit, Delete, RunNow, Respond, RespondFails, CancelLoop, Trigger,
         Arm, Remove, ClaimNow, Finish, Serves, SafeInv, RequestsServed
<1>3. \A p \in pending' : p \in pending \/ (p[1] \in {"trigger", "arm", "claim"} /\ Up(p[3]))
  <2>1. CASE Create(i, t) \/ RunNow(i, t)
    BY <1>2, <2>1 DEF Create, RunNow
  <2>2. CASE Pause(i, t) \/ Resume(i, t) \/ Delete(i, t)
    BY <2>2 DEF Pause, Resume, Delete, Serves, SafeUse
  <2>3. CASE Edit(i, t)
    BY <1>2, <2>3 DEF Edit, Exists, Active, SafeInv, NothingPaused
  <2>4. CASE Respond(t, i) \/ RespondFails(t, i)
    <3>1. pending' \subseteq pending \cup {<<"arm", t, i>>}
      BY <2>4 DEF Respond, RespondFails, CancelLoop, Trigger, Arm, Remove, ClaimNow, Finish
    <3> QED BY <1>2, <3>1
  <2> QED BY <2>1, <2>2, <2>3, <2>4
<1>4. \A j \in Instance : Up(j)'
  BY <1>1, <1>2, AllUp DEF SafeInv, Up
<1>5. RequestsServed'
  BY <1>1, <1>3 DEF SafeInv, RequestsServed, Up
<1> QED BY <1>4, <1>5 DEF DownIsQuiet

LEMMA StartStaysServed ==
  ASSUME SafeInv, NEW i \in Instance, Start(i)
  PROVE  RequestsServed' /\ DownIsQuiet'
<1>1. /\ UNCHANGED <<exec, pending>>
      /\ \A e \in Exec : exec[e] = Null
      /\ \A j \in Instance : Up(j) => Up(j)'
  BY DEF Start, SafeInv, TypeOK, DownIsQuiet, Up
<1>2. \A p \in pending : p[3] \in Instance
  BY DEF SafeInv, TypeOK
<1> QED BY <1>1, <1>2 DEF SafeInv, RequestsServed, DownIsQuiet

\* The only instance takes its executions and its requests down with it.
LEMMA HaltStaysServed ==
  ASSUME SafeUse, SafeInv, NEW i \in Instance, Crash(i) \/ Shutdown(i)
  PROVE  RequestsServed' /\ DownIsQuiet'
<1>1. Halt(i)
  BY DEF Crash, Shutdown
<1>2. MaxCrashes # 0
  BY <1>1, ScheduleAssumption DEF Halt, SafeInv, TypeOK
<1>3. \A j \in Instance : j = i
  BY <1>2 DEF SafeUse
<1>4. pending' = {}
  BY <1>1, <1>3 DEF Halt, SafeInv, TypeOK
<1>5. \A e \in Exec : exec'[e] = Null
  <2>1. \A e \in Exec : exec[e] # Null => exec[e].inst = i
    BY <1>3 DEF SafeInv, TypeOK, Execution
  <2> QED BY <1>1, <2>1 DEF Halt, OfInstance
<1> QED BY <1>2, <1>4, <1>5 DEF RequestsServed, DownIsQuiet

LEMMA StepSafe == ASSUME SafeUse PROVE SafeInv /\ [Next]_vars => SafeInv'
<1> SUFFICES ASSUME SafeInv, [Next]_vars PROVE RequestsServed' /\ DownIsQuiet'
  BY StepTyping, NothingGetsPaused DEF SafeInv
<1>1. CASE Tick \/ UNCHANGED vars
  BY <1>1 DEF Tick, vars, SafeInv, RequestsServed, DownIsQuiet, Up
<1>2. ASSUME NEW i \in Instance, Loop(i) \/ LoopFails(i) PROVE RequestsServed' /\ DownIsQuiet'
  BY <1>2, LoopStaysServed
<1>3. ASSUME NEW e \in Exec, Execute(e) \/ ReleaseFails(e) PROVE RequestsServed' /\ DownIsQuiet'
  BY <1>3, ExecutionStaysServed
<1>4. ASSUME NEW i \in Instance, NEW t \in Task,
             \/ Create(i, t) \/ Pause(i, t) \/ Resume(i, t) \/ Edit(i, t) \/ Delete(i, t)
             \/ RunNow(i, t)
             \/ Respond(t, i) \/ RespondFails(t, i)
      PROVE  RequestsServed' /\ DownIsQuiet'
  BY <1>4, RequestStaysServed
<1>5. ASSUME NEW i \in Instance, Start(i) PROVE RequestsServed' /\ DownIsQuiet'
  BY <1>5, StartStaysServed
<1>6. ASSUME NEW i \in Instance, Crash(i) \/ Shutdown(i) PROVE RequestsServed' /\ DownIsQuiet'
  BY <1>6, HaltStaysServed
<1> QED BY <1>1, <1>2, <1>3, <1>4, <1>5, <1>6 DEF Next, Harmless, Unlock, Respond

LEMMA SafeStepsAreCareful ==
  ASSUME SafeUse, SafeInv, [Next]_vars
  PROVE  [CarefulNext]_vars
<1>1. ASSUME NEW t \in Executing, NEW i \in Instance, Start(i) PROVE FALSE
  BY <1>1 DEF Executing, Start, SafeInv, DownIsQuiet
<1>2. ASSUME NEW t \in Executing, NEW i \in Instance, CancelLoop(t, i) \/ Delete(i, t) \/ Remove(t, i)
      PROVE  FALSE
  BY <1>2 DEF CancelLoop, Delete, Remove, Finish, SafeUse, SafeInv, RequestsServed, Serves
<1>3. Executing \subseteq Task
  BY DEF Executing
<1> QED BY <1>1, <1>2, <1>3 DEF CarefulNext, Next, Unlock

LEMMA SafeUseIsCareful == ASSUME SafeUse PROVE Spec => CarefulSpec
<1>1. Init => SafeInv
  BY InitSafe
<1>2. SafeInv /\ [Next]_vars => SafeInv'
  BY StepSafe
<1>3. SafeInv /\ [Next]_vars => [CarefulNext]_vars
  BY SafeStepsAreCareful
<1> QED BY <1>1, <1>2, <1>3, PTL DEF Spec, CarefulSpec

\* Of the instances that share the table, and of the loop and run-now within one,
\* only one at a time executes a task, through crashes, restarts and failed
\* statements, as long as the use is safe.
THEOREM OneExecutionPerTask == ASSUME SafeUse PROVE Spec => []MutualExclusion
BY SafeUseIsCareful, CarefulUseExecutesOnce, PTL

\* Under safe use no lock expires or is released under an execution.
THEOREM LocksOutliveExecutions == ASSUME SafeUse PROVE Spec => []LockOutlivesExecution
BY SafeUseIsCareful, CarefulUseKeepsLocks, PTL
---------------------------------------------------------------------------------
(***************************************************************************)
(* The limits of claim_scheduled_task.  They count locks, and what is      *)
(* executed is locked: so they bound what is executed.  An instance that   *)
(* has counted and not yet claimed, as there may be on PostgreSQL, holds   *)
(* room that the others do not see.                                        *)
(***************************************************************************)
CountedIn(S) == {i \in Instance : loop[i].pc = "counted" /\ \E t \in S : First(i, t)}

Extra == IF Dialect = "sqlite" THEN 0 ELSE Cardinality(Instance) - 1

Within(S, M) == Cardinality(Scheduled \cap S) + Cardinality(CountedIn(S)) <= M + Extra

\* SQLite never waits between counting and claiming.
NeverCounted == Dialect = "sqlite" => \A i \in Instance : loop[i].pc # "counted"

OfOwner(t) == {s \in Task : Owner[s] = Owner[t]}

LimitInv ==
  /\ LockInv
  /\ NeverCounted
  /\ Within(Task, MaxGlobal)
  /\ \A t \in Task : Within(OfOwner(t), MaxPerUser)

LEMMA SubsetCounts ==
  ASSUME NEW X, IsFiniteSet(X), NEW A \in SUBSET X, NEW B \in SUBSET A
  PROVE  /\ Cardinality(A) \in Nat /\ Cardinality(B) \in Nat /\ Cardinality(B) <= Cardinality(A)
         /\ \A x \in X : /\ Cardinality(A \cup {x}) \in Nat
                         /\ Cardinality(A \cup {x}) <= Cardinality(A) + 1
                         /\ x \notin A => Cardinality(A \cup {x}) = Cardinality(A) + 1
<1>1. IsFiniteSet(A)
  BY FS_Subset
<1>2. IsFiniteSet(B) /\ Cardinality(B) <= Cardinality(A)
  BY <1>1, FS_Subset
<1>3. Cardinality(A) \in Nat /\ Cardinality(B) \in Nat
  BY <1>1, <1>2, FS_CardinalityType
<1>4. ASSUME NEW x \in X
      PROVE  /\ Cardinality(A \cup {x}) \in Nat
             /\ Cardinality(A \cup {x}) <= Cardinality(A) + 1
             /\ x \notin A => Cardinality(A \cup {x}) = Cardinality(A) + 1
  <2>1. Cardinality(A \cup {x}) = IF x \in A THEN Cardinality(A) ELSE Cardinality(A) + 1
    BY <1>1, FS_AddElement
  <2> QED BY <1>3, <2>1
<1> QED BY <1>2, <1>3, <1>4

LEMMA Finite == /\ IsFiniteSet(Task) /\ IsFiniteSet(Instance)
                /\ Cardinality(Instance) \in Nat /\ Cardinality(Instance) >= 1 /\ Extra \in Nat
<1>1. IsFiniteSet(Task) /\ IsFiniteSet(Instance) /\ Instance # {}
  BY ScheduleAssumption
<1>2. Cardinality(Instance) \in Nat /\ Cardinality(Instance) # 0
  BY <1>1, FS_CardinalityType, FS_EmptySet
<1> QED BY <1>1, <1>2 DEF Extra

\* What is executed by a loop is locked.
LEMMA ScheduledIsLocked ==
  ASSUME LockInv
  PROVE  Scheduled \subseteq {s \in Task : Locked(s)}
<1> SUFFICES ASSUME NEW s \in Scheduled PROVE Locked(s)
  BY DEF Scheduled
<1>1. PICK e \in Exec : exec[e] # Null /\ exec[e].task = s
  BY DEF Scheduled
<1>2. exec[e] \in Execution /\ s \in Task
  BY <1>1 DEF LockInv, TypeOK, Scheduled
<1>3. exec[e].left \in Nat /\ Reserve(e) \in Nat /\ row[s].lock \in Int
  BY <1>2, ScheduleAssumption DEF Execution, Reserve, LockInv, TypeOK, Row, NoLock
<1>4. row[s].lock >= exec[e].left + Reserve(e) /\ Exists(s)
  BY <1>1 DEF LockInv, Locking, LockHeld
<1> QED BY <1>3, <1>4 DEF Locked

\* A step after which no more is executed and no more counted.
LEMMA QuietWithin ==
  ASSUME NEW S \in SUBSET Task, NEW M \in Nat, Within(S, M),
         Scheduled' \subseteq Scheduled, CountedIn(S)' \subseteq CountedIn(S)
  PROVE  Within(S, M)'
<1>1. /\ Cardinality(Scheduled' \cap S) <= Cardinality(Scheduled \cap S)
      /\ Cardinality(Scheduled' \cap S) \in Nat /\ Cardinality(Scheduled \cap S) \in Nat
  <2>1. Scheduled \cap S \in SUBSET Task /\ Scheduled' \cap S \in SUBSET (Scheduled \cap S)
    OBVIOUS
  <2> QED BY <2>1, Finite, SubsetCounts
<1>2. /\ Cardinality(CountedIn(S)') <= Cardinality(CountedIn(S))
      /\ Cardinality(CountedIn(S)') \in Nat /\ Cardinality(CountedIn(S)) \in Nat
  <2>1. CountedIn(S) \in SUBSET Instance /\ CountedIn(S)' \in SUBSET CountedIn(S)
    BY DEF CountedIn
  <2> QED BY <2>1, Finite, SubsetCounts
<1> QED BY <1>1, <1>2, Finite DEF Within, Extra

\* The condition that a claim checks, for the tasks of one scope.
Guards(S, M) == \A t \in S : UnderLimits(t) => Cardinality({s \in S : Locked(s)}) < M

LEMMA LimitsGuard == Guards(Task, MaxGlobal) /\ \A t \in Task : Guards(OfOwner(t), MaxPerUser)
<1>1. Guards(Task, MaxGlobal)
  BY DEF Guards, UnderLimits
<1>2. ASSUME NEW u \in Task, NEW t \in OfOwner(u), UnderLimits(t)
      PROVE  Cardinality({s \in OfOwner(u) : Locked(s)}) < MaxPerUser
  <2>1. {s \in OfOwner(u) : Locked(s)} = {s \in {s \in Task : Locked(s)} : Owner[s] = Owner[t]}
    BY DEF OfOwner
  <2> QED BY <1>2, <2>1 DEF UnderLimits
<1> QED BY <1>1, <1>2 DEF Guards

\* Room that was counted, before it is taken.
LEMMA RoomLeft ==
  ASSUME LockInv, NEW S \in SUBSET Task, NEW M \in Nat, Guards(S, M), NEW t \in S, UnderLimits(t)
  PROVE  Cardinality(Scheduled \cap S) \in Nat /\ Cardinality(Scheduled \cap S) + 1 <= M
<1> DEFINE locked == {s \in S : Locked(s)}
<1>1. locked \in SUBSET Task /\ Scheduled \cap S \in SUBSET locked
  BY ScheduledIsLocked
<1>2. Cardinality(locked) < M
  BY DEF Guards
<1> HIDE DEF locked
<1>3. /\ Cardinality(locked) \in Nat /\ Cardinality(Scheduled \cap S) \in Nat
      /\ Cardinality(Scheduled \cap S) <= Cardinality(locked)
  BY <1>1, Finite, SubsetCounts
<1> QED BY <1>2, <1>3

LEMMA ClaimSchedules ==
  ASSUME TypeOK, NEW t \in Task, NEW i \in Instance, Claim(t, i, FALSE)
  PROVE  Scheduled' \subseteq Scheduled \cup {t}
BY ExecutionNull DEF Scheduled, Claim, TypeOK

\* SQLite: counting and claiming is one step, and nobody else has counted.
LEMMA ClaimWithin ==
  ASSUME LockInv, NEW S \in SUBSET Task, NEW M \in Nat, Within(S, M), Guards(S, M),
         NEW t \in Task, NEW i \in Instance, UnderLimits(t), Claim(t, i, FALSE),
         CountedIn(S)' = {}
  PROVE  Within(S, M)'
<1>1. Scheduled' \subseteq Scheduled \cup {t}
  BY ClaimSchedules DEF LockInv
<1>2. CASE t \in S
  <2>1. Scheduled \cap S \in SUBSET Task /\ Scheduled' \cap S \in SUBSET ((Scheduled \cap S) \cup {t})
        /\ (Scheduled \cap S) \cup {t} \in SUBSET Task
    BY <1>1, <1>2 DEF Scheduled
  <2>2. /\ Cardinality((Scheduled \cap S) \cup {t}) <= Cardinality(Scheduled \cap S) + 1
        /\ Cardinality((Scheduled \cap S) \cup {t}) \in Nat
    BY <2>1, Finite, SubsetCounts
  <2>3. /\ Cardinality(Scheduled' \cap S) <= Cardinality((Scheduled \cap S) \cup {t})
        /\ Cardinality(Scheduled' \cap S) \in Nat
    BY <2>1, Finite, SubsetCounts
  <2>4. Cardinality(Scheduled \cap S) \in Nat /\ Cardinality(Scheduled \cap S) + 1 <= M
    BY <1>2, RoomLeft
  <2>5. Cardinality(CountedIn(S)') = 0
    BY FS_EmptySet
  <2> QED BY <2>2, <2>3, <2>4, <2>5, Finite DEF Within, Extra
<1>3. CASE t \notin S
  <2>1. Scheduled' \cap S \in SUBSET (Scheduled \cap S) /\ Scheduled \cap S \in SUBSET Task
    BY <1>1, <1>3 DEF Scheduled
  <2>2. /\ Cardinality(Scheduled' \cap S) <= Cardinality(Scheduled \cap S)
        /\ Cardinality(Scheduled' \cap S) \in Nat /\ Cardinality(Scheduled \cap S) \in Nat
    BY <2>1, Finite, SubsetCounts
  <2>3. Cardinality(CountedIn(S)') = 0
    BY FS_EmptySet
  <2>4. Cardinality(CountedIn(S)) \in Nat
    <3>1. CountedIn(S) \in SUBSET Instance /\ {} \in SUBSET CountedIn(S)
      BY DEF CountedIn
    <3> QED BY <3>1, Finite, SubsetCounts
  <2> QED BY <2>2, <2>3, <2>4, Finite DEF Within, Extra
<1> QED BY <1>2, <1>3

\* PostgreSQL, first half: all other instances may have counted for the same room.
LEMMA CountWithin ==
  ASSUME LockInv, Dialect # "sqlite",
         NEW S \in SUBSET Task, NEW M \in Nat, Within(S, M), Guards(S, M),
         NEW t \in Task, NEW i \in Instance, UnderLimits(t), First(i, t), UNCHANGED exec,
         loop' = [loop EXCEPT ![i].pc = "counted"]
  PROVE  Within(S, M)'
<1>1. Scheduled' = Scheduled
  BY DEF Scheduled
<1>2. CASE t \in S
  <2>1. Cardinality(Scheduled \cap S) \in Nat /\ Cardinality(Scheduled \cap S) + 1 <= M
    BY <1>2, RoomLeft
  <2>2. Cardinality(CountedIn(S)') <= Cardinality(Instance) /\ Cardinality(CountedIn(S)') \in Nat
    <3>1. CountedIn(S)' \in SUBSET Instance /\ Instance \in SUBSET Instance
      BY DEF CountedIn
    <3> QED BY <3>1, Finite, SubsetCounts
  <2> QED BY <1>1, <2>1, <2>2, Finite DEF Within, Extra
<1>3. CASE t \notin S
  <2>1. \A j \in Instance : loop'[j].todo = loop[j].todo /\ (j # i => loop'[j] = loop[j])
    BY DEF LockInv, TypeOK
  <2>2. \A s \in S : ~First(i, s)
    <3>1. ASSUME NEW s \in S, First(i, s) PROVE FALSE
      <4>1. s <= t /\ t <= s /\ s \in Nat /\ t \in Nat
        BY <3>1, ScheduleAssumption DEF First
      <4> QED BY <1>3, <4>1
    <3> QED BY <3>1
  <2>3. CountedIn(S)' \subseteq CountedIn(S)
    BY <2>1, <2>2 DEF CountedIn, First
  <2> QED BY <1>1, <2>3, QuietWithin
<1> QED BY <1>2, <1>3

\* PostgreSQL, second half: the room that was counted is used, or given up.
LEMMA ClaimCountedWithin ==
  ASSUME LockInv, NEW S \in SUBSET Task, NEW M \in Nat, Within(S, M),
         NEW t \in Task, NEW i \in Instance, loop[i].pc = "counted", First(i, t),
         Scheduled' \subseteq Scheduled \cup {t},
         CountedIn(S)' \subseteq CountedIn(S) \ {i}
  PROVE  Within(S, M)'
<1>1. CASE t \in S
  <2> DEFINE after == CountedIn(S) \ {i}
  <2>1. i \in CountedIn(S) /\ CountedIn(S) \in SUBSET Instance /\ after \in SUBSET Instance
        /\ CountedIn(S) = after \cup {i} /\ i \notin after /\ CountedIn(S)' \in SUBSET after
    BY <1>1 DEF CountedIn
  <2> HIDE DEF after
  <2>2. /\ Cardinality(after \cup {i}) = Cardinality(after) + 1
        /\ Cardinality(CountedIn(S)') <= Cardinality(after)
        /\ Cardinality(CountedIn(S)') \in Nat /\ Cardinality(after) \in Nat
    BY <2>1, Finite, SubsetCounts
  <2>3. Scheduled \cap S \in SUBSET Task /\ Scheduled' \cap S \in SUBSET ((Scheduled \cap S) \cup {t})
        /\ (Scheduled \cap S) \cup {t} \in SUBSET Task
    BY <1>1 DEF Scheduled
  <2>4. /\ Cardinality((Scheduled \cap S) \cup {t}) <= Cardinality(Scheduled \cap S) + 1
        /\ Cardinality((Scheduled \cap S) \cup {t}) \in Nat /\ Cardinality(Scheduled \cap S) \in Nat
    BY <2>3, Finite, SubsetCounts
  <2>5. /\ Cardinality(Scheduled' \cap S) <= Cardinality((Scheduled \cap S) \cup {t})
        /\ Cardinality(Scheduled' \cap S) \in Nat
    BY <2>3, Finite, SubsetCounts
  <2>6. Cardinality(CountedIn(S)) = Cardinality(after) + 1
    BY <2>1, <2>2
  <2> QED BY <2>2, <2>4, <2>5, <2>6, Finite DEF Within, Extra
<1>2. CASE t \notin S
  <2>1. /\ Scheduled' \cap S \in SUBSET (Scheduled \cap S) /\ Scheduled \cap S \in SUBSET Task
        /\ CountedIn(S)' \in SUBSET CountedIn(S) /\ CountedIn(S) \in SUBSET Instance
    BY <1>2 DEF Scheduled, CountedIn
  <2>2. /\ Cardinality(Scheduled' \cap S) <= Cardinality(Scheduled \cap S)
        /\ Cardinality(Scheduled' \cap S) \in Nat /\ Cardinality(Scheduled \cap S) \in Nat
        /\ Cardinality(CountedIn(S)') <= Cardinality(CountedIn(S))
        /\ Cardinality(CountedIn(S)') \in Nat /\ Cardinality(CountedIn(S)) \in Nat
    BY <2>1, Finite, SubsetCounts
  <2> QED BY <2>2, Finite DEF Within, Extra
<1> QED BY <1>1, <1>2

\* No other step makes a task a scheduled execution that was none.
NoneStarts ==
  \A e \in Exec :
    exec'[e] # Null /\ ~exec'[e].skip =>
      exec[e] # Null /\ ~exec[e].skip /\ exec'[e].task = exec[e].task

LEMMA NoneStartsSchedules ==
  ASSUME NoneStarts
  PROVE  Scheduled' \subseteq Scheduled
BY DEF Scheduled, NoneStarts

LEMMA ExecutionStartsNone ==
  ASSUME TypeOK, NEW e \in Exec, Execute(e) \/ ReleaseFails(e)
  PROVE  NoneStarts
<1>1. exec[e] # Null /\ exec[e] \in Execution
  BY DEF TypeOK, Execute, Begin, EndRun, ReadRow, WriteRow, Release, ReleaseFails, In
<1>2. \/ End(e)
      \/ \E place, left : Continue(e, place, left)
      \/ exec' = [exec EXCEPT ![e] = [@ EXCEPT !.pc = "writing", !.next = NextAt(exec[e].task)]]
      \/ exec' = [exec EXCEPT ![e] = [@ EXCEPT !.pc = "releasing"]]
  BY DEF Execute, Begin, EndRun, ReadRow, WriteRow, Release, ReleaseFails
<1>3. exec'[e] # Null => exec'[e].skip = exec[e].skip /\ exec'[e].task = exec[e].task
  <2>1. ASSUME NEW place, NEW left
        PROVE  LET x == [exec[e] EXCEPT !.pc = place, !.left = left]
               IN  x.skip = exec[e].skip /\ x.task = exec[e].task
    BY <1>1 DEF Execution
  <2>2. /\ \A n : LET x == [exec[e] EXCEPT !.pc = "writing", !.next = n]
                 IN  x.skip = exec[e].skip /\ x.task = exec[e].task
        /\ LET x == [exec[e] EXCEPT !.pc = "releasing"]
           IN  x.skip = exec[e].skip /\ x.task = exec[e].task
    BY <1>1 DEF Execution
  <2>3. CASE End(e)
    BY <2>3 DEF End, TypeOK
  <2>4. CASE \E place, left : Continue(e, place, left)
    BY <2>1, <2>4 DEF Continue, TypeOK
  <2>5. CASE exec' = [exec EXCEPT ![e] = [@ EXCEPT !.pc = "writing", !.next = NextAt(exec[e].task)]]
    BY <2>2, <2>5 DEF TypeOK
  <2>6. CASE exec' = [exec EXCEPT ![e] = [@ EXCEPT !.pc = "releasing"]]
    BY <2>2, <2>6 DEF TypeOK
  <2> QED BY <1>2, <2>3, <2>4, <2>5, <2>6
<1>4. \A f \in Exec \ {e} : exec'[f] = exec[f]
  BY <1>2 DEF End, Continue, TypeOK
<1> QED BY <1>1, <1>3, <1>4 DEF NoneStarts

\* An instance that is not counting holds no room; the others hold what they held.
LEMMA LoopLeaves ==
  ASSUME TypeOK, NEW i \in Instance, NEW x, x.pc # "counted", loop' = [loop EXCEPT ![i] = x]
  PROVE  /\ NeverCounted => NeverCounted'
         /\ \A S \in SUBSET Task : CountedIn(S)' \subseteq CountedIn(S) \ {i}
<1>1. loop'[i] = x /\ \A j \in Instance \ {i} : loop'[j] = loop[j]
  BY DEF TypeOK
<1> QED BY <1>1 DEF NeverCounted, CountedIn, First

LEMMA LoopWithin ==
  ASSUME LockInv, NeverCounted, NEW S \in SUBSET Task, NEW M \in Nat, Within(S, M), Guards(S, M),
         NEW i \in Instance, Loop(i) \/ LoopFails(i)
  PROVE  NeverCounted' /\ Within(S, M)'
<1>0. TypeOK
  BY DEF LockInv
<1>1. CASE Scan(i) \/ LoopFails(i)
  <2>1. Scheduled' = Scheduled
    BY <1>1 DEF Scan, LoopFails, Scheduled
  <2>2. PICK x : x.pc # "counted" /\ loop' = [loop EXCEPT ![i] = x]
    <3>1. \E todo, pc : pc \in {"claim", "sleep"} /\ loop' = [loop EXCEPT ![i] = [pc |-> pc, todo |-> todo]]
      BY <1>1 DEF Scan, LoopFails
    <3>2. PICK todo, pc : pc \in {"claim", "sleep"} /\ loop' = [loop EXCEPT ![i] = [pc |-> pc, todo |-> todo]]
      BY <3>1
    <3>3. PICK x : x = [pc |-> pc, todo |-> todo]
      OBVIOUS
    <3>4. x.pc # "counted"
      BY <3>2, <3>3
    <3> QED BY <3>2, <3>3, <3>4
  <2> QED BY <1>0, <2>1, <2>2, LoopLeaves, QuietWithin
<1>2. ASSUME NEW t \in Task, Advance(i, t)
      PROVE  NeverCounted' /\ CountedIn(S)' \subseteq CountedIn(S) \ {i}
  <2>1. PICK x : x = [pc |-> IF loop[i].todo \ {t} = {} THEN "sleep" ELSE "claim", todo |-> loop[i].todo \ {t}]
    OBVIOUS
  <2>2. x.pc # "counted" /\ loop' = [loop EXCEPT ![i] = x]
    BY <1>2, <2>1 DEF Advance
  <2> QED BY <1>0, <2>2, LoopLeaves
<1>3. CASE ClaimNext(i)
  <2>1. PICK t \in Task :
          /\ First(i, t)
          /\ \/ /\ Claimable(t) /\ UnderLimits(t)
                /\ Dialect = "sqlite"
                /\ Claim(t, i, FALSE)
                /\ Advance(i, t)
             \/ /\ Claimable(t) /\ UnderLimits(t)
                /\ Dialect = "postgres"
                /\ loop' = [loop EXCEPT ![i].pc = "counted"]
                /\ UNCHANGED <<row, exec>>
             \/ /\ Advance(i, t)
                /\ UNCHANGED <<row, exec>>
    BY <1>3 DEF ClaimNext
  <2>2. CASE UnderLimits(t) /\ Dialect = "sqlite" /\ Claim(t, i, FALSE) /\ Advance(i, t)
    <3>1. NeverCounted'
      BY <1>2, <2>2
    <3>2. CountedIn(S)' = {}
      BY <2>2, <3>1 DEF NeverCounted, CountedIn
    <3> QED BY <2>2, <3>1, <3>2, ClaimWithin
  <2>3. CASE /\ UnderLimits(t) /\ Dialect = "postgres" /\ UNCHANGED exec
             /\ loop' = [loop EXCEPT ![i].pc = "counted"]
    <3>1. Within(S, M)'
      BY <2>1, <2>3, CountWithin
    <3> QED BY <2>3, <3>1 DEF NeverCounted
  <2>4. CASE Advance(i, t) /\ UNCHANGED <<row, exec>>
    <3>1. Scheduled' = Scheduled
      BY <2>4 DEF Scheduled
    <3> QED BY <1>2, <2>4, <3>1, QuietWithin
  <2> QED BY <2>1, <2>2, <2>3, <2>4
<1>4. CASE ClaimCounted(i)
  <2>1. PICK t \in Task : /\ First(i, t) /\ Advance(i, t)
                          /\ Claim(t, i, FALSE) \/ UNCHANGED <<row, exec>>
    BY <1>4 DEF ClaimCounted
  <2>2. Scheduled' \subseteq Scheduled \cup {t}
    <3>1. CASE Claim(t, i, FALSE)
      BY <1>0, <3>1, ClaimSchedules
    <3>2. CASE UNCHANGED exec
      BY <3>2 DEF Scheduled
    <3> QED BY <2>1, <3>1, <3>2
  <2>3. loop[i].pc = "counted"
    BY <1>4 DEF ClaimCounted
  <2> QED BY <1>2, <2>1, <2>2, <2>3, ClaimCountedWithin
<1> QED BY <1>1, <1>3, <1>4 DEF Loop

LEMMA RequestStartsNone ==
  ASSUME TypeOK, NEW i \in Instance, NEW t \in Task,
         \/ Create(i, t) \/ Pause(i, t) \/ Resume(i, t) \/ Edit(i, t) \/ Delete(i, t) \/ RunNow(i, t)
         \/ Respond(t, i) \/ RespondFails(t, i)
  PROVE  NoneStarts
<1>1. CASE UNCHANGED exec
  BY <1>1 DEF NoneStarts
<1>2. CASE Claim(t, i, TRUE)
  <2>1. PICK e \in Exec :
          exec' = [exec EXCEPT ![e] = [task |-> t, inst |-> i, skip |-> TRUE, pc |-> "begin",
                                       left |-> Timeout, next |-> 0]]
    BY <1>2 DEF Claim
  <2> QED BY <2>1 DEF NoneStarts, TypeOK
<1>3. UNCHANGED exec \/ Claim(t, i, TRUE)
  BY DEF Create, Pause, Resume, Edit, Delete, RunNow, Respond, RespondFails, CancelLoop, Trigger,
         Arm, Remove, ClaimNow
<1> QED BY <1>1, <1>2, <1>3

LEMMA StepWithin ==
  ASSUME LockInv, NeverCounted, [CarefulNext]_vars,
         NEW S \in SUBSET Task, NEW M \in Nat, Within(S, M), Guards(S, M)
  PROVE  NeverCounted' /\ Within(S, M)'
<1>1. TypeOK
  BY DEF LockInv
<1>2. ASSUME NoneStarts, UNCHANGED loop PROVE NeverCounted' /\ Within(S, M)'
  <2>1. CountedIn(S)' = CountedIn(S) /\ NeverCounted'
    BY <1>2 DEF CountedIn, First, NeverCounted
  <2> QED BY <1>2, <2>1, NoneStartsSchedules, QuietWithin
<1>3. ASSUME NEW i \in Instance, Loop(i) \/ LoopFails(i) PROVE NeverCounted' /\ Within(S, M)'
  BY <1>3, LoopWithin
<1>4. ASSUME NEW e \in Exec, Execute(e) \/ ReleaseFails(e) PROVE NeverCounted' /\ Within(S, M)'
  <2>1. UNCHANGED loop
    BY <1>4 DEF Execute, Begin, EndRun, ReadRow, WriteRow, Release, ReleaseFails
  <2> QED BY <1>1, <1>2, <1>4, <2>1, ExecutionStartsNone
<1>5. ASSUME NEW i \in Instance, NEW t \in Task,
             \/ Create(i, t) \/ Pause(i, t) \/ Resume(i, t) \/ Edit(i, t) \/ Delete(i, t)
             \/ RunNow(i, t)
             \/ Respond(t, i) \/ RespondFails(t, i)
      PROVE  NeverCounted' /\ Within(S, M)'
  <2>1. UNCHANGED loop
    BY <1>5 DEF Create, Pause, Resume, Edit, Delete, RunNow, Respond, RespondFails, CancelLoop,
                Trigger, Arm, Remove, ClaimNow, Finish
  <2> QED BY <1>1, <1>2, <1>5, <2>1, RequestStartsNone
<1>6. ASSUME NEW i \in Instance, Start(i) \/ Crash(i) \/ Shutdown(i)
      PROVE  NeverCounted' /\ Within(S, M)'
  <2>1. PICK pc \in {"sleep", "down"} : loop' = [loop EXCEPT ![i] = [pc |-> pc, todo |-> {}]]
    BY <1>6 DEF Start, Crash, Shutdown, Halt
  <2>2. PICK x : x = [pc |-> pc, todo |-> {}]
    OBVIOUS
  <2>3. x.pc # "counted" /\ loop' = [loop EXCEPT ![i] = x]
    BY <2>1, <2>2
  <2>4. NoneStarts
    BY <1>6 DEF Start, Crash, Shutdown, Halt, NoneStarts
  <2> QED BY <1>1, <2>3, <2>4, LoopLeaves, NoneStartsSchedules, QuietWithin
<1>7. CASE Tick
  <2>1. \A e \in Exec : exec[e] # Null => exec[e] \in Execution
    BY <1>1 DEF TypeOK
  <2>2. NoneStarts
    BY <1>7, <2>1 DEF Tick, NoneStarts, Execution
  <2> QED BY <1>2, <1>7, <2>2 DEF Tick
<1>8. CASE UNCHANGED vars
  BY <1>2, <1>8 DEF vars, NoneStarts
<1> QED BY <1>3, <1>4, <1>5, <1>6, <1>7, <1>8 DEF CarefulNext, Harmless, Unlock, Respond

LEMMA LimitInvHolds == CarefulSpec => []LimitInv
<1>1. Init => NeverCounted /\ \A S \in SUBSET Task, M \in Nat : Within(S, M)
  <2> SUFFICES ASSUME Init, NEW S \in SUBSET Task, NEW M \in Nat PROVE NeverCounted /\ Within(S, M)
    OBVIOUS
  <2>1. NeverCounted /\ CountedIn(S) = {} /\ Scheduled \cap S = {}
    BY DEF Init, NeverCounted, CountedIn, Scheduled
  <2> QED BY <2>1, FS_EmptySet, Finite DEF Within
<1>2. Task \in SUBSET Task /\ MaxGlobal \in Nat /\ MaxPerUser \in Nat
      /\ \A t \in Task : OfOwner(t) \in SUBSET Task
  BY ScheduleAssumption DEF OfOwner
<1>3. Init => LimitInv
  BY <1>1, <1>2, InitLocking DEF LimitInv
<1>4. LimitInv /\ [CarefulNext]_vars => LimitInv'
  <2> SUFFICES ASSUME LimitInv, [CarefulNext]_vars PROVE LimitInv'
    OBVIOUS
  <2>1. LockInv /\ LockInv' /\ NeverCounted
    BY StepLocking DEF LimitInv
  <2>2. NeverCounted' /\ Within(Task, MaxGlobal)'
    BY <1>2, <2>1, StepWithin, LimitsGuard DEF LimitInv
  <2>3. ASSUME NEW t \in Task PROVE Within(OfOwner(t), MaxPerUser)'
    BY <1>2, <2>1, StepWithin, LimitsGuard DEF LimitInv
  <2> QED BY <2>1, <2>2, <2>3 DEF LimitInv
<1> QED BY <1>3, <1>4, PTL DEF CarefulSpec

\* What the loops of all instances execute together exceeds the limits by less than the
\* number of instances, and on SQLite not at all, as long as nobody unlocks or removes what is
\* executed, and whatever run-now executes beside them.  One instance keeps the limits.
THEOREM LimitsHold == CarefulSpec => []ExecutionLimits
<1>1. ASSUME NEW S \in SUBSET Task, NEW M \in Nat, Within(S, M)
      PROVE  Cardinality(Scheduled \cap S) <= M + Extra
  <2>1. Scheduled \cap S \in SUBSET Task /\ {} \in SUBSET (Scheduled \cap S)
        /\ CountedIn(S) \in SUBSET Instance /\ {} \in SUBSET CountedIn(S)
    BY DEF CountedIn
  <2>2. Cardinality(Scheduled \cap S) \in Nat /\ Cardinality(CountedIn(S)) \in Nat
    BY <2>1, Finite, SubsetCounts
  <2> QED BY <1>1, <2>2, Finite DEF Within
<1>2. Scheduled \cap Task = Scheduled
  BY DEF Scheduled
<1>3. \A t \in Task : Scheduled \cap OfOwner(t) = {s \in Scheduled : Owner[s] = Owner[t]}
  BY DEF Scheduled, OfOwner
<1>4. \A t \in Task : OfOwner(t) \in SUBSET Task
  BY DEF OfOwner
<1>5. LimitInv => ExecutionLimits
  BY <1>1, <1>2, <1>3, <1>4, ScheduleAssumption DEF LimitInv, ExecutionLimits, Extra
<1> QED BY <1>5, LimitInvHolds, PTL
---------------------------------------------------------------------------------
(***************************************************************************)
(* No task is left without a next execution.                               *)
(***************************************************************************)
\* An execution never writes an empty next_run_at.
Computed == \A e \in Exec : exec[e] # Null => exec[e].next # NoNext

LEMMA ComputedStep ==
  ASSUME TypeOK, Computed, [Next]_vars
  PROVE  Computed'
<1> SUFFICES ASSUME NEW e \in Exec, exec'[e] # Null PROVE exec'[e].next # NoNext
  BY DEF Computed
<1>1. Interval \in Nat \ {0} /\ NoNext = Interval + 1
  BY ScheduleAssumption DEF NoNext
<1>2. CASE exec'[e] = exec[e]
  BY <1>2 DEF Computed
<1>3. CASE exec[e] # Null /\ exec'[e] # exec[e]
  <2>1. exec[e] \in Execution /\ exec[e].next # NoNext /\ exec[e].next \in Next_run_at
        /\ exec[e].task \in Task /\ row[exec[e].task].next \in Next_run_at
    BY <1>3 DEF TypeOK, Execution, Computed, Row
  <2>2. CASE Tick
    <3>1. exec'[e].next = Later(exec[e].next)
      BY <1>3, <2>1, <2>2 DEF Tick, Execution
    <3> QED BY <1>1, <2>1, <3>1 DEF Later, Next_run_at
  <2>3. CASE ReadRow(e)
    <3>1. exec'[e].next \in {exec[e].next, NextAt(exec[e].task)}
      BY <2>1, <2>3 DEF ReadRow, TypeOK, Execution
    <3>2. NextAt(exec[e].task) \in 1..Interval
      BY <2>1, NextAtRange
    <3> QED BY <1>1, <2>1, <3>1, <3>2
  <2>4. ASSUME NEW place, NEW left, Continue(e, place, left) PROVE exec'[e].next = exec[e].next
    <3>1. exec'[e] = [exec[e] EXCEPT !.pc = place, !.left = left]
      BY <2>4 DEF Continue, TypeOK
    <3> QED BY <2>1, <3>1 DEF Execution
  <2>5. CASE Begin(e) \/ EndRun(e) \/ ReleaseFails(e)
    <3>1. \E place, left : Continue(e, place, left)
      BY <2>5, <1>3 DEF Begin, EndRun, ReleaseFails, End, TypeOK
    <3> QED BY <2>1, <2>4, <3>1
  <2>6. CASE ~Tick /\ ~ReadRow(e) /\ ~(Begin(e) \/ EndRun(e) \/ ReleaseFails(e))
    <3>1. ASSUME NEW f \in Exec, Execute(f) \/ ReleaseFails(f) PROVE FALSE
      BY <1>3, <2>6, <3>1 DEF Execute, Begin, EndRun, ReadRow, WriteRow, Release, ReleaseFails,
                              Continue, End, TypeOK
    <3>2. ASSUME NEW t \in Task, NEW i \in Instance, NEW skip, Claim(t, i, skip) PROVE FALSE
      BY <1>3, <3>2 DEF Claim, TypeOK
    <3>3. ASSUME NEW i \in Instance,
                 Loop(i) \/ LoopFails(i) \/ Start(i) \/ Crash(i) \/ Shutdown(i)
          PROVE  FALSE
      BY <1>3, <3>2, <3>3 DEF Loop, Scan, ClaimNext, ClaimCounted, LoopFails, Start, Crash,
                              Shutdown, Halt
    <3>4. ASSUME NEW i \in Instance, NEW t \in Task,
                 \/ Create(i, t) \/ Pause(i, t) \/ Resume(i, t) \/ Edit(i, t) \/ Delete(i, t)
                 \/ RunNow(i, t)
                 \/ Respond(t, i) \/ RespondFails(t, i)
          PROVE  FALSE
      BY <1>3, <3>2, <3>4 DEF Create, Pause, Resume, Edit, Delete, RunNow, Respond, RespondFails,
                              CancelLoop, Trigger, Arm, Remove, ClaimNow
    <3>5. CASE UNCHANGED vars
      BY <1>3, <3>5 DEF vars
    <3> QED BY <2>6, <3>1, <3>3, <3>4, <3>5 DEF Next, Harmless, Unlock, Respond
  <2> QED BY <2>2, <2>3, <2>5, <2>6
<1>4. CASE exec[e] = Null
  <2>1. ASSUME NEW t \in Task, NEW i \in Instance, NEW skip, Claim(t, i, skip)
        PROVE  exec'[e].next = 0
    BY <1>4, <2>1 DEF Claim, TypeOK
  <2>2. \E t \in Task, i \in Instance, skip \in BOOLEAN : Claim(t, i, skip)
    <3>1. CASE Tick \/ UNCHANGED vars
      BY <1>4, <3>1 DEF Tick, vars
    <3>2. ASSUME NEW f \in Exec, Execute(f) \/ ReleaseFails(f) PROVE FALSE
      <4>1. exec[f] # Null /\ f # e
        BY <1>4, <3>2 DEF Execute, Begin, EndRun, ReadRow, WriteRow, Release, ReleaseFails, In
      <4> QED BY <1>4, <3>2, <4>1 DEF Execute, Begin, EndRun, ReadRow, WriteRow, Release,
                                      ReleaseFails, Continue, End, TypeOK
    <3>3. ASSUME NEW i \in Instance,
                 Loop(i) \/ LoopFails(i) \/ Start(i) \/ Crash(i) \/ Shutdown(i)
          PROVE  \E t \in Task : Claim(t, i, FALSE)
      BY <1>4, <3>3 DEF Loop, Scan, ClaimNext, ClaimCounted, LoopFails, Start, Crash, Shutdown, Halt
    <3>4. ASSUME NEW i \in Instance, NEW t \in Task,
                 \/ Create(i, t) \/ Pause(i, t) \/ Resume(i, t) \/ Edit(i, t) \/ Delete(i, t)
                 \/ RunNow(i, t)
                 \/ Respond(t, i) \/ RespondFails(t, i)
          PROVE  Claim(t, i, TRUE)
      BY <1>4, <3>4 DEF Create, Pause, Resume, Edit, Delete, RunNow, Respond, RespondFails,
                        CancelLoop, Trigger, Arm, Remove, ClaimNow
    <3> QED BY <3>1, <3>2, <3>3, <3>4 DEF Next, Harmless, Unlock, Respond
  <2> QED BY <1>1, <2>1, <2>2
<1> QED BY <1>2, <1>3, <1>4

Unarmed(t) == Active(t) /\ row[t].next = NoNext

\* A step that makes no task unarmed and forgets no trigger.
LEMMA NothingForgotten ==
  ASSUME NeverStranded, UNCHANGED faults, \A i \in Instance : Up(i)' => Up(i),
         \A t \in Task : Unarmed(t)' => Unarmed(t) /\ (BeingArmed(t) => BeingArmed(t)')
  PROVE  NeverStranded'
BY DEF NeverStranded, Unarmed

LEMMA RequestStrandsNone ==
  ASSUME TypeOK, NeverStranded, NEW i \in Instance, NEW t \in Task,
         \/ Create(i, t) \/ Pause(i, t) \/ Resume(i, t) \/ Edit(i, t) \/ Delete(i, t) \/ RunNow(i, t)
         \/ Respond(t, i)
  PROVE  NeverStranded'
<1>1. UNCHANGED <<loop, faults>>
  BY DEF Create, Pause, Resume, Edit, Delete, RunNow, Respond, CancelLoop, Trigger, Arm, Remove,
         ClaimNow, Finish
<1>2. \A j \in Instance : Up(j)' => Up(j)
  BY <1>1 DEF Up
<1>3. row[t] \in Row /\ row \in [Task -> Row]
  BY DEF TypeOK
<1>4. ASSUME NEW s \in Task, s # t
      PROVE  Unarmed(s)' => Unarmed(s) /\ (BeingArmed(s) => BeingArmed(s)')
  <2>1. row'[s].status = row[s].status /\ row'[s].next = row[s].next
    BY <1>3, <1>4 DEF Create, Pause, Resume, Edit, Delete, RunNow, Respond, CancelLoop, Trigger, Arm,
           Remove, ClaimNow, Update, Claim
  <2>2. \A p \in pending : p \in pending' \/ \E op \in {"release", "trigger", "arm", "delete", "claim"} :
                                               p = <<op, t, i>>
    BY DEF Create, Pause, Resume, Edit, Delete, RunNow, Respond, CancelLoop, Trigger, Arm, Remove,
           ClaimNow, Finish
  <2>3. BeingArmed(s) => BeingArmed(s)'
    BY <1>4, <2>2 DEF BeingArmed
  <2> QED BY <2>1, <2>3 DEF Unarmed, Active
<1>5. ASSUME Unarmed(t)'
      PROVE  BeingArmed(t)' \/ (Unarmed(t) /\ (BeingArmed(t) => BeingArmed(t)'))
  <2>1. CASE Create(i, t) \/ Resume(i, t)
    BY <2>1 DEF Create, Resume, BeingArmed
  <2>2. CASE Pause(i, t)
    <3>1. row'[t] = [row[t] EXCEPT !.status = "paused"]
      BY <1>3, <2>2 DEF Pause
    <3> QED BY <1>3, <1>5, <3>1 DEF Unarmed, Active, Row
  <2>3. CASE Edit(i, t) \/ RunNow(i, t)
    BY <1>5, <2>3 DEF Edit, RunNow, Unarmed, Active, BeingArmed
  <2>4. CASE Delete(i, t) \/ CancelLoop(t, i) \/ ClaimNow(t, i)
    <3>1. row'[t].status = row[t].status /\ row'[t].next = row[t].next
      <4>1. row'[t] \in {row[t], Unlocked(t), [row[t] EXCEPT !.lock = LockTime]}
        BY <1>3, <2>4 DEF Delete, CancelLoop, ClaimNow, Claim, Update
      <4> QED BY <1>3, <4>1 DEF Unlocked, Row
    <3>2. \A p \in pending : p \in pending' \/ p = <<"release", t, i>> \/ p = <<"claim", t, i>>
      BY <2>4 DEF Delete, CancelLoop, ClaimNow, Finish
    <3>3. BeingArmed(t) => BeingArmed(t)'
      BY <3>2 DEF BeingArmed
    <3> QED BY <1>5, <3>1, <3>3 DEF Unarmed, Active
  <2>5. CASE Trigger(t, i)
    BY <1>5, <2>5 DEF Trigger, Unarmed, Active, BeingArmed
  <2>6. CASE Arm(t, i)
    <3>1. row[t].status = row'[t].status
      <4>1. row'[t] \in {row[t], [row[t] EXCEPT !.next = 0, !.zoned = TRUE]}
        BY <1>3, <2>6 DEF Arm, Update
      <4> QED BY <1>3, <4>1 DEF Row
    <3>2. Exists(t)
      BY <1>5, <3>1 DEF Unarmed, Active, Exists
    <3>3. row'[t] = [row[t] EXCEPT !.next = 0, !.zoned = TRUE]
      BY <1>3, <2>6, <3>2 DEF Arm, Update
    <3>4. row'[t].next = 0
      BY <1>3, <3>3 DEF Row
    <3> QED BY <1>5, <3>4, ScheduleAssumption DEF Unarmed, NoNext
  <2>7. CASE Remove(t, i)
    <3>1. row'[t] \in {row[t], [row[t] EXCEPT !.status = "deleted"]} /\ (Exists(t) => row'[t] # row[t])
      BY <1>3, <2>7 DEF Remove, Update, Exists, Row
    <3> QED BY <1>3, <1>5, <3>1 DEF Unarmed, Active, Exists, Row
  <2> QED BY <2>1, <2>2, <2>3, <2>4, <2>5, <2>6, <2>7 DEF Respond
<1> QED BY <1>1, <1>2, <1>4, <1>5 DEF NeverStranded, Unarmed

\* While all instances are up and no statement has failed, every active task has a
\* next_run_at or is about to get one, for any number of instances and through every
\* crash, start and order of requests.
THEOREM NobodyIsStranded == Spec => []NeverStranded
<1>1. Init => Computed /\ NeverStranded
  <2> SUFFICES ASSUME Init PROVE Computed /\ NeverStranded
    OBVIOUS
  <2>1. CASE Booted
    <3>1. \A t \in Task : ~Unarmed(t)
      BY <2>1, ScheduleAssumption DEF Init, Unarmed, Active, NoNext
    <3> QED BY <3>1 DEF Init, Computed, NeverStranded, Unarmed
  <2>2. CASE ~Booted
    <3>1. PICK i \in Instance : ~Up(i)
      BY <2>2, ScheduleAssumption DEF Init, Up
    <3> QED BY <3>1 DEF Init, Computed, NeverStranded
  <2> QED BY <2>1, <2>2
<1>2. TypeOK /\ Computed /\ NeverStranded /\ [Next]_vars => NeverStranded'
  <2> SUFFICES ASSUME TypeOK, Computed, NeverStranded, [Next]_vars PROVE NeverStranded'
    OBVIOUS
  <2>1. CASE Tick
    <3>1. ASSUME NEW t \in Task PROVE Unarmed(t)' => Unarmed(t)
      <4>1. row[t] \in Row /\ row[t].next \in Next_run_at
        BY DEF TypeOK, Row
      <4>2. row'[t].status = row[t].status /\ row'[t].next = Later(row[t].next)
        BY <2>1, <4>1 DEF Tick, Row
      <4>3. Later(row[t].next) = NoNext => row[t].next = NoNext
        BY <4>1, ScheduleAssumption DEF Later, Next_run_at, NoNext
      <4> QED BY <4>2, <4>3 DEF Unarmed, Active
    <3> QED BY <2>1, <3>1, NothingForgotten DEF Tick, Up, BeingArmed
  <2>2. ASSUME NEW i \in Instance, Loop(i) PROVE NeverStranded'
    <3>1. Up(i) /\ UNCHANGED <<pending, faults>> /\ \A j \in Instance \ {i} : loop'[j] = loop[j]
      BY <2>2 DEF Loop, Scan, ClaimNext, ClaimCounted, Advance, Up, TypeOK
    <3>2. ASSUME NEW t \in Task PROVE Unarmed(t)' => Unarmed(t)
      <4>1. row' = row \/ \E s \in Task : row' = [row EXCEPT ![s].lock = LockTime]
        BY <2>2 DEF Loop, Scan, ClaimNext, ClaimCounted, Claim
      <4>2. row[t] \in Row /\ row \in [Task -> Row]
        BY DEF TypeOK
      <4>3. row'[t] \in {row[t], [row[t] EXCEPT !.lock = LockTime]}
        BY <4>1, <4>2
      <4> QED BY <4>2, <4>3 DEF Unarmed, Active, Row
    <3> QED BY <3>1, <3>2, NothingForgotten DEF Up, BeingArmed
  <2>3. ASSUME NEW e \in Exec, Execute(e) PROVE NeverStranded'
    <3>1. UNCHANGED <<loop, pending, faults>> /\ exec[e] # Null
      BY <2>3 DEF Execute, Begin, EndRun, ReadRow, WriteRow, Release, In
    <3>2. exec[e].next # NoNext /\ row \in [Task -> Row] /\ exec[e].next \in Next_run_at
      BY <3>1 DEF Computed, TypeOK, Execution
    <3>3. ASSUME NEW t \in Task PROVE Unarmed(t)' => Unarmed(t)
      <4>1. row[t] \in Row
        BY <3>2
      <4>2. CASE WriteRow(e)
        <5>1. \/ row'[t] = row[t]
              \/ row'[t] = [row[t] EXCEPT !.lock = NoLock, !.next = exec[e].next, !.zoned = FALSE,
                                          !.cool = Cooldown]
          BY <3>2, <4>2 DEF WriteRow
        <5> QED BY <3>2, <4>1, <5>1 DEF Unarmed, Active, Row
      <4>3. CASE Release(e)
        <5>1. row'[t] \in {row[t], Unlocked(t)}
          BY <3>2, <4>3 DEF Release, Update
        <5> QED BY <4>1, <5>1 DEF Unlocked, Unarmed, Active, Row
      <4>4. CASE ~WriteRow(e) /\ ~Release(e)
        BY <2>3, <4>4 DEF Execute, Begin, EndRun, ReadRow, Unarmed, Active
      <4> QED BY <4>2, <4>3, <4>4
    <3> QED BY <3>1, <3>3, NothingForgotten DEF Up, BeingArmed
  <2>4. ASSUME NEW i \in Instance, NEW t \in Task,
               \/ Create(i, t) \/ Pause(i, t) \/ Resume(i, t) \/ Edit(i, t) \/ Delete(i, t)
               \/ RunNow(i, t)
               \/ Respond(t, i)
        PROVE  NeverStranded'
    BY <2>4, RequestStrandsNone
  <2>5. CASE \/ \E i \in Instance : LoopFails(i)
             \/ \E e \in Exec : ReleaseFails(e)
             \/ \E i \in Instance, t \in Task : RespondFails(t, i)
    <3>1. faults' = faults + 1 /\ faults \in Nat
      BY <2>5, ScheduleAssumption DEF LoopFails, ReleaseFails, RespondFails, TypeOK
    <3> QED BY <3>1 DEF NeverStranded
  <2>6. ASSUME NEW i \in Instance, Start(i) PROVE NeverStranded'
    <3>1. ASSUME NEW t \in Task PROVE ~Unarmed(t)'
      <4>1. row[t] \in Row /\ NoNext # 0
        BY ScheduleAssumption DEF TypeOK, NoNext
      <4>2. row'[t] = IF ~Active(t) THEN row[t]
                      ELSE IF row[t].next = NoNext
                      THEN [row[t] EXCEPT !.lock = NoLock, !.next = 0, !.zoned = TRUE]
                      ELSE Unlocked(t)
        BY <2>6 DEF Start
      <4> QED BY <4>1, <4>2 DEF Unarmed, Active, Unlocked, Row
    <3> QED BY <3>1 DEF NeverStranded, Unarmed
  <2>7. ASSUME NEW i \in Instance, Crash(i) \/ Shutdown(i) PROVE NeverStranded'
    <3>1. ~Up(i)'
      BY <2>7 DEF Crash, Shutdown, Halt, Up, TypeOK
    <3> QED BY <3>1 DEF NeverStranded
  <2>8. CASE UNCHANGED vars
    BY <2>8 DEF vars, NeverStranded, Active, Up, BeingArmed
  <2> QED BY <2>1, <2>2, <2>3, <2>4, <2>5, <2>6, <2>7, <2>8 DEF Next, Harmless, Unlock, Respond
<1>3. TypeOK /\ Computed /\ NeverStranded /\ [Next]_vars => (Computed /\ NeverStranded)'
  BY <1>2, ComputedStep
<1> QED BY <1>1, <1>3, TypeCorrect, PTL DEF Spec
---------------------------------------------------------------------------------
\* What is added to a time with a zone is a number of intervals.
LEMMA NextAtOnGrid ==
  ASSUME NEW t \in Task, row[t].next \in Next_run_at, row[t].zoned \/ Dialect = "postgres",
         row[t].next # NoNext
  PROVE  (NextAt(t) - row[t].next) % Interval = 0
<1> DEFINE n == row[t].next
           q == (-n) \div Interval
<1>1. Interval \in Nat \ {0} /\ n \in Int /\ 1 - Interval <= n /\ n <= Interval
  BY ScheduleAssumption DEF Next_run_at, NoNext
<1>2. Interval % Interval = 0 /\ 0 % Interval = 0 /\ (-Interval) % Interval = 0
  BY <1>1
<1>3. NextAt(t) - n \in {Interval, 0, -Interval}
  <2>1. CASE n <= 0
    <3>1. q = 0
      BY <1>1, <2>1
    <3> QED BY <3>1, <1>1, <2>1 DEF NextAt
  <2>2. CASE 1 <= n /\ n <= Interval
    <3>1. q = -1
      BY <1>1, <2>2
    <3> QED BY <3>1, <1>1, <2>2 DEF NextAt
  <2> QED BY <1>1, <2>1, <2>2
<1> QED BY <1>2, <1>3

\* On PostgreSQL an execution, however late it starts and however long it takes, is
\* followed by the first time ahead of now on the grid of the one before.  (On SQLite they drift: what is read back has
\* no zone.)
THEOREM IntervalsAreFixed == ASSUME Dialect = "postgres" PROVE Spec => FixedInterval
<1>1. TypeOK /\ [Next]_vars =>
        [\A e \in Exec :
           LET read == row[exec[e].task].next
           IN  In(e, {"reading"}) /\ exec'[e] # Null /\ exec'[e].pc = "writing" /\ read # NoNext =>
                 /\ exec'[e].next \in 1..Interval
                 /\ (exec'[e].next - read) % Interval = 0]_vars
  <2> SUFFICES ASSUME TypeOK, [Next]_vars, NEW e \in Exec, In(e, {"reading"}),
                      exec'[e] # Null, exec'[e].pc = "writing",
                      row[exec[e].task].next # NoNext
               PROVE  /\ exec'[e].next \in 1..Interval
                      /\ (exec'[e].next - row[exec[e].task].next) % Interval = 0
    OBVIOUS
  <2>1. exec[e] \in Execution /\ exec[e].pc = "reading" /\ exec[e] # Null
    BY DEF In, TypeOK
  <2>2. exec'[e] # exec[e]
    BY <2>1
  <2>3. CASE ReadRow(e)
    <3>1. exec'[e].next = NextAt(exec[e].task)
      BY <2>1, <2>3 DEF ReadRow, TypeOK, Execution
    <3>2. exec[e].task \in Task /\ row[exec[e].task].next \in Next_run_at
      BY <2>1 DEF TypeOK, Execution, Row
    <3> QED BY <3>1, <3>2, NextAtOnGrid, NextAtRange
  <2>4. CASE Tick
    BY <2>1, <2>4 DEF Tick, Execution
  <2>5. ASSUME NEW i \in Instance, Loop(i) \/ LoopFails(i) \/ Start(i) \/ Crash(i) \/ Shutdown(i)
        PROVE  FALSE
    BY <2>1, <2>2, <2>5 DEF Loop, Scan, ClaimNext, ClaimCounted, Claim, LoopFails, Start, Crash,
                           Shutdown, Halt, TypeOK
  <2>6. ASSUME NEW f \in Exec, Execute(f) \/ ReleaseFails(f), ~ReadRow(e)
        PROVE  FALSE
    <3>1. CASE f = e
      BY <2>1, <2>6, <3>1 DEF Execute, Begin, EndRun, WriteRow, Release, ReleaseFails, In,
                              Continue, End, TypeOK, Execution
    <3>2. CASE f # e
      BY <2>2, <2>6, <3>2 DEF Execute, Begin, EndRun, ReadRow, WriteRow, Release, ReleaseFails,
                              Continue, End, TypeOK
    <3> QED BY <3>1, <3>2
  <2>7. ASSUME NEW i \in Instance, NEW t \in Task,
               \/ Create(i, t) \/ Pause(i, t) \/ Resume(i, t) \/ Edit(i, t) \/ Delete(i, t)
               \/ RunNow(i, t)
               \/ Respond(t, i) \/ RespondFails(t, i)
        PROVE  FALSE
    BY <2>1, <2>2, <2>7 DEF Create, Pause, Resume, Edit, Delete, RunNow, Respond, RespondFails,
                           CancelLoop, Trigger, Arm, Remove, ClaimNow, Claim, TypeOK
  <2>8. CASE UNCHANGED vars
    BY <2>2, <2>8 DEF vars
  <2> QED BY <2>3, <2>4, <2>5, <2>6, <2>7, <2>8 DEF Next, Harmless, Unlock, Respond
<1> QED BY <1>1, TypeCorrect, PTL DEF Spec, FixedInterval
=================================================================================
