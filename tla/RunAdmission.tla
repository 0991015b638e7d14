------------------------------ MODULE RunAdmission ------------------------------
(***************************************************************************)
(* Run Center admission: BenchTaskManager and _start_run_for_profile of    *)
(* app/server.py.  A handler (POST /api/runs, .../retry, or a scheduled    *)
(* execution) compares the slots a run asks for with those the running     *)
(* runs hold, then suspends in `await get_settings`, and only afterwards   *)
(* registers the run and starts its child tasks.  Everything between two   *)
(* awaits is one action: the server is a single asyncio event loop.        *)
(***************************************************************************)
EXTENDS Integers, FiniteSets

CONSTANTS User,          \* the users that own runs
          Handler,       \* the starts that may be in flight at the same time
          RunId,         \* run ids
          MaxChildren,   \* RUN_MAX_CHILDREN_PER_RUN
          Level,         \* the values max(concurrency_levels) may take
          UserMax,       \* RUN_MAX_USER_SLOTS
          GlobalMax,     \* RUN_MAX_GLOBAL_SLOTS
          Null           \* no request, no run, no task

ASSUME FiniteAssumption == IsFiniteSet(Handler) /\ IsFiniteSet(RunId)

ASSUME LimitAssumption ==
  /\ UserMax \in Nat
  /\ GlobalMax \in Nat
  /\ MaxChildren \in Nat
  /\ Level \subseteq Nat \ {0}

Child  == 1..MaxChildren
Slot   == 1..GlobalMax
TaskId == RunId \X Child

VARIABLES
  request,    \* what each handler carries over its await, or Null
  run,        \* manager._runs
  task,       \* manager._tasks
  executing   \* the asyncio tasks in which _run_benchmark_task has not returned

vars == <<request, run, task, executing>>

\* A request that passed the capacity check, and the BenchRun made from it.
BenchRun == [owner: User, children: Child, slots: Slot]

\* aged: the task finished at least TASK_RETENTION_SECONDS ago.
BenchTask == [status: {"running", "stopping", "idle"}, aged: BOOLEAN]

TypeOK ==
  /\ request \in [Handler -> BenchRun \cup {Null}]
  /\ run \in [RunId -> BenchRun \cup {Null}]
  /\ task \in [TaskId -> BenchTask \cup {Null}]
  /\ executing \subseteq TaskId

ASSUME NullAssumption ==
  /\ Null \notin BenchRun
  /\ Null \notin BenchTask
  /\ Null \notin [owner: User, slots: Slot]
---------------------------------------------------------------------------------
\* The ids in run.task_ids.
ChildrenOf(r) == {x \in TaskId : x[1] = r /\ x[2] <= run[r].children}

\* Mutant: a task that is stopping no longer counts as busy.
BusyWhileRunning(x) == task[x] # Null /\ task[x].status = "running"

Busy(x) == task[x] # Null /\ task[x].status \in {"running", "stopping"}

get_running_runs ==
  {r \in RunId : run[r] # Null /\ \E x \in ChildrenOf(r) : Busy(x)}

RunningRunsOf(u) == {r \in get_running_runs : run[r].owner = u}

\* The slots of the runs in R, one pair for each: their number is the sum of
\* requested_slots.
SlotsOf(R) == {s \in R \X Slot : s[2] <= run[s[1]].slots}

get_running_slots == Cardinality(SlotsOf(get_running_runs))

UserRunningSlots(u) == Cardinality(SlotsOf(RunningRunsOf(u)))

\* Mutants: a limit is off by one, or one of the two is not compared.
FitsOneMore(u, n) ==
  /\ n <= UserMax - UserRunningSlots(u) + 1
  /\ n <= GlobalMax - get_running_slots

FitsUser(u, n) == n <= UserMax - UserRunningSlots(u)

FitsGlobal(u, n) == n <= GlobalMax - get_running_slots

Fits(u, n) ==
  /\ n <= UserMax - UserRunningSlots(u)
  /\ n <= GlobalMax - get_running_slots
---------------------------------------------------------------------------------
\* The first half of _start_run_for_profile, up to `await get_settings`.  A
\* request that does not fit raises RunCapacityError and changes nothing.
Admit(h, u, children, level) ==
  /\ request[h] = Null
  /\ Fits(u, children * level)
  /\ request' = [request EXCEPT ![h] =
                   [owner |-> u, children |-> children, slots |-> children * level]]
  /\ UNCHANGED <<run, task, executing>>

\* get_settings fails: the handler answers with an error and starts nothing.
SettingsFail(h) ==
  /\ request[h] # Null
  /\ request' = [request EXCEPT ![h] = Null]
  /\ UNCHANGED <<run, task, executing>>

\* create_run, then create_task and asyncio.create_task for every model.  The id
\* is a new uuid: nothing registered carries it.
Register(r, requested) ==
  /\ run[r] = Null
  /\ \A c \in Child : task[<<r, c>>] = Null /\ <<r, c>> \notin executing
  /\ LET new == {x \in TaskId : x[1] = r /\ x[2] <= requested.children}
     IN  /\ task' = [x \in TaskId |->
                       IF x \in new THEN [status |-> "running", aged |-> FALSE]
                                    ELSE task[x]]
         /\ executing' = executing \cup new
  /\ run' = [run EXCEPT ![r] = requested]

\* The second half, after the await.
Start(h, r) ==
  /\ request[h] # Null
  /\ Register(r, request[h])
  /\ request' = [request EXCEPT ![h] = Null]

\* stop_run and admin_stop_run: only tasks that are "running" are touched.
Stop(r) ==
  /\ run[r] # Null
  /\ \E x \in ChildrenOf(r) : task[x] # Null /\ task[x].status = "running"
  /\ task' = [x \in TaskId |->
                IF x \in ChildrenOf(r) /\ task[x] # Null /\ task[x].status = "running"
                THEN [task[x] EXCEPT !.status = "stopping"]
                ELSE task[x]]
  /\ UNCHANGED <<request, run, executing>>

\* Mutant: only a task nobody stopped becomes idle.
FinishUnlessStopping(x) ==
  /\ x \in executing
  /\ executing' = executing \ {x}
  /\ task' = [task EXCEPT ![x] = IF @ # Null /\ @.status = "running"
                                 THEN [@ EXCEPT !.status = "idle"] ELSE @]
  /\ UNCHANGED <<request, run>>

\* The finally block of _run_benchmark_task.  It writes to the BenchTask the
\* coroutine holds, whether or not the manager still lists it.
Finish(x) ==
  /\ x \in executing
  /\ executing' = executing \ {x}
  /\ task' = [task EXCEPT ![x] = IF @ = Null THEN Null ELSE [@ EXCEPT !.status = "idle"]]
  /\ UNCHANGED <<request, run>>

\* The retention window of a finished task passes.
Age(x) ==
  /\ task[x] # Null
  /\ task[x].status = "idle"
  /\ ~task[x].aged
  /\ task' = [task EXCEPT ![x].aged = TRUE]
  /\ UNCHANGED <<request, run, executing>>

Expired(x) == task[x] # Null /\ task[x].status = "idle" /\ task[x].aged

\* Mutant: cleanup_idle without _cleanup_orphan_runs, as before issue #24.
CleanupTasks ==
  /\ task' = [x \in TaskId |-> IF Expired(x) THEN Null ELSE task[x]]
  /\ UNCHANGED <<request, run, executing>>

\* cleanup_idle and _cleanup_orphan_runs, from _periodic_task_cleanup.
Cleanup ==
  /\ task' = [x \in TaskId |-> IF Expired(x) THEN Null ELSE task[x]]
  /\ run' = [r \in RunId |->
               IF run[r] # Null /\ \A x \in ChildrenOf(r) : task'[x] = Null
               THEN Null ELSE run[r]]
  /\ UNCHANGED <<request, executing>>

Init ==
  /\ request = [h \in Handler |-> Null]
  /\ run = [r \in RunId |-> Null]
  /\ task = [x \in TaskId |-> Null]
  /\ executing = {}

Next ==
  \/ \E h \in Handler, u \in User, c \in Child, l \in Level : Admit(h, u, c, l)
  \/ \E h \in Handler : SettingsFail(h)
  \/ \E h \in Handler, r \in RunId : Start(h, r)
  \/ \E r \in RunId : Stop(r)
  \/ \E x \in TaskId : Finish(x) \/ Age(x)
  \/ Cleanup

Spec == Init /\ [][Next]_vars

\* A benchmark ends by itself (every request carries a timeout), time passes,
\* and the cleanup loop runs for as long as the server does.
Fairness ==
  /\ \A x \in TaskId : WF_vars(Finish(x)) /\ WF_vars(Age(x))
  /\ WF_vars(Cleanup)

FairSpec == Spec /\ Fairness
---------------------------------------------------------------------------------
\* RUN_MAX_GLOBAL_SLOTS and RUN_MAX_USER_SLOTS as documented: the slots of the
\* running runs never exceed the limits.
SlotLimits ==
  /\ get_running_slots <= GlobalMax
  /\ \A u \in User : UserRunningSlots(u) <= UserMax

\* How far the unprotected await lets concurrent starts go: with n starts in
\* flight the limits are exceeded at most n-fold.
OvercommitBound ==
  /\ get_running_slots <= Cardinality(Handler) * GlobalMax
  /\ \A u \in User : UserRunningSlots(u) <= Cardinality(Handler) * UserMax

\* Admission counts everything that runs: the run of every benchmark still
\* executing is registered and is counted among the running runs, whatever stop
\* requests and cleanups came in between.
AllWorkCounted == \A x \in executing : x[1] \in get_running_runs /\ Busy(x)

\* The registries agree: a listed task belongs to a listed run, so its status,
\* its stream and its stop endpoint can be reached, and a listed run still has a
\* listed task, so _runs does not grow without bound (issue #24).
RegistriesAgree ==
  \A r \in RunId :
    (run[r] # Null) <=> \E c \in Child : task[<<r, c>>] # Null

\* A stop takes effect: the slots of a run that is stopping come back.
StopFreesSlots ==
  \A x \in TaskId :
    (task[x] # Null /\ task[x].status = "stopping") ~> ~Busy(x)

\* Every run is dropped from memory in the end (issue #24).
RunsReclaimed == \A r \in RunId : (run[r] # Null) ~> (run[r] = Null)

\* The slots each run holds, as SlotPool sees them.
pool == [r \in RunId |->
           IF r \in get_running_runs
           THEN [owner |-> run[r].owner, slots |-> run[r].slots]
           ELSE Null]

Pool == INSTANCE SlotPool WITH Free <- Null

\* With one start in flight, admission is the atomic slot pool.
ImplementsPool == Pool!PoolSpec
=================================================================================
