------------------------------ MODULE ScheduledRun ------------------------------
(***************************************************************************)
(* One execution of a scheduled task, _run_scheduled_task of               *)
(* app/scheduler.py, as a client of run admission: it checks that the      *)
(* slots of all its profiles together are free, then starts a run for one  *)
(* profile after the other, each behind its own check and its own await,   *)
(* and waits for them all.  Runs that users start, stop or retry go on     *)
(* beside it.                                                              *)
(***************************************************************************)
EXTENDS RunAdmission, Sequences, SequencesExt, FiniteSetsExt

CONSTANTS RawLevels,     \* what concurrency_levels may hold in a stored configuration
          MaxLevels,     \* 20: the number of levels accepted
          MaxLevel,      \* 2000: the highest level accepted
          MaxProfiles    \* bound: profiles of one scheduled task

ASSUME ScheduledAssumption ==
  /\ \A raw \in RawLevels : raw \in Seq(Int)
  /\ 1..MaxLevel \subseteq Level
  /\ MaxLevels \in Nat /\ MaxLevel \in Nat \ {0} /\ MaxProfiles \in Nat

VARIABLES
  state,      \* how far the execution of each handler is; "none" for the others
  plans,      \* run_plans it has not come to yet
  level,      \* max(levels) of the execution
  mine,       \* run_ids
  stray,      \* tasks that were cancelled and whose workers go on
  overtaken   \* history: a run was started beside it since it checked the whole group

execVars == <<state, plans, level, mine, stray, overtaken>>
allVars == <<vars, execVars>>

\* A profile of the task: the models it is to run, and whether the request made
\* from it passes the checks of _start_run_for_profile.
Plan == [children: Child, valid: BOOLEAN]

Working == {"starting", "waiting"}

ScheduledTypeOK ==
  /\ TypeOK
  /\ state \in [Handler -> Working \cup {"none", "short", "failed", "over", "timeout"}]
  /\ plans \in [Handler -> Seq(Plan)]
  /\ level \in [Handler -> Level]
  /\ mine \in [Handler -> SUBSET RunId]
  /\ stray \subseteq TaskId
  /\ overtaken \in [Handler -> BOOLEAN]
---------------------------------------------------------------------------------
\* _normalize_concurrency_levels: values out of range are dropped, and reported;
\* what is left is never empty.  Their order makes no difference to admission.
Normalized(raw) ==
  LET kept == ToSet(raw) \cap (1..MaxLevel)
  IN  IF kept = {} THEN {1} ELSE kept

LevelErrors(raw) == raw = <<>> \/ Len(raw) > MaxLevels \/ ToSet(raw) \ (1..MaxLevel) # {}

Highest(raw) == Max(Normalized(raw))

\* Mutant: the whole-group check looks at the largest run only.
GroupLargest(group, l) == Max({0} \cup {group[i].children * l : i \in DOMAIN group})

\* The slots of the profiles of a group, one pair for each.
PlanSlots(group, l) ==
  {s \in (DOMAIN group) \X (1..(MaxChildren * l)) : s[2] <= group[s[1]].children * l}

\* total_requested_slots.
GroupSlots(group, l) == Cardinality(PlanSlots(group, l))

\* The profiles after those whose requests are turned down with an error, which
\* the loop passes over without an await.
FromValid(group) ==
  LET valid == {i \in DOMAIN group : group[i].valid}
  IN  IF valid = {} THEN <<>> ELSE SubSeq(group, Min(valid), Len(group))

Requested(u, p, l) == [owner |-> u, children |-> p.children, slots |-> p.children * l]

\* Everybody else that is between its check and its end.
Overtake(h) ==
  [g \in Handler |-> \/ overtaken[g] /\ state[g] \in {"starting", "short"}
                     \/ g # h /\ state[g] = "starting"]
---------------------------------------------------------------------------------
\* POST /api/runs and .../retry: errors in the body are answered with 400; a valid
\* one is admitted or not.
RequestRun(h, u, children, raw) ==
  /\ state[h] \notin Working
  /\ ~LevelErrors(raw)
  /\ Admit(h, u, children, Highest(raw))
  /\ UNCHANGED execVars

RequestFails(h) ==
  /\ state[h] \notin Working
  /\ SettingsFail(h)
  /\ UNCHANGED execVars

RequestStarts(h, r) ==
  /\ state[h] \notin Working
  /\ Start(h, r)
  /\ overtaken' = Overtake(h)
  /\ UNCHANGED <<state, plans, level, mine, stray>>

\* Workers that the last execution of h left behind.  They go on, but the model
\* follows them only until their run is no longer listed or the next execution begins.
LeftBy(h) == {x \in stray : x[1] \in mine[h]}

\* The execution up to its first await: the profiles are looked up, the group is
\* compared with what is free, and its first run is admitted.  If the group does
\* not fit, or no profile is valid, the execution returns and nothing changes.
BeginExecution(h, u, group, raw) ==
  LET l    == Highest(raw)
      rest == FromValid(group)
  IN  /\ state[h] \notin Working /\ request[h] = Null
      /\ Fits(u, GroupSlots(group, l))
      /\ rest # <<>>
      /\ Admit(h, u, Head(rest).children, l)
      /\ state' = [state EXCEPT ![h] = "starting"]
      /\ plans' = [plans EXCEPT ![h] = Tail(rest)]
      /\ level' = [level EXCEPT ![h] = l]
      /\ mine' = [mine EXCEPT ![h] = {}]
      /\ overtaken' = [overtaken EXCEPT ![h] = FALSE]
      /\ stray' = stray \ LeftBy(h)

\* The loop is left, and with it its variables.
Forget(h) ==
  /\ plans' = [plans EXCEPT ![h] = <<>>]
  /\ level' = [level EXCEPT ![h] = 1]

\* The run is started; the loop goes on to the next valid profile, compares its
\* slots with what is free now, and either awaits its settings or, if they do not
\* fit any more, returns and leaves the runs it has started to themselves.
StartNext(h, r) ==
  /\ state[h] = "starting"
  /\ Register(r, request[h])
  /\ overtaken' = Overtake(h)
  /\ UNCHANGED stray
  /\ \E rest \in {FromValid(plans[h])}, u \in {request[h].owner}, l \in {level[h]} :
       IF rest = <<>>
       THEN /\ state' = [state EXCEPT ![h] = "waiting"]
            /\ request' = [request EXCEPT ![h] = Null]
            /\ Forget(h)
       ELSE IF Fits(u, Head(rest).children * l)'
       THEN /\ request' = [request EXCEPT ![h] = Requested(u, Head(rest), l)]
            /\ plans' = [plans EXCEPT ![h] = Tail(rest)]
            /\ UNCHANGED <<state, level>>
       ELSE /\ state' = [state EXCEPT ![h] = "short"]
            /\ request' = [request EXCEPT ![h] = Null]
            /\ Forget(h)
  /\ mine' = [mine EXCEPT ![h] = IF state'[h] = "short" THEN {} ELSE @ \cup {r}]

\* get_settings raises, or the timeout of the execution comes while it is awaited.
StartingFails(h) ==
  /\ state[h] = "starting"
  /\ state' = [state EXCEPT ![h] = "failed"]
  /\ request' = [request EXCEPT ![h] = Null]
  /\ mine' = [mine EXCEPT ![h] = {}]
  /\ Forget(h)
  /\ UNCHANGED <<run, task, executing, stray, overtaken>>

Own(h) == {x \in executing : x[1] \in mine[h]}

\* gather returns: every task of every run it started has ended.
AllEnded(h) ==
  /\ state[h] = "waiting"
  /\ Own(h) = {}
  /\ state' = [state EXCEPT ![h] = "over"]
  /\ UNCHANGED <<vars, plans, level, mine, stray, overtaken>>

\* Mutant: the timeout does not reach the tasks.
TimeoutDetached(h) ==
  /\ state[h] = "waiting"
  /\ state' = [state EXCEPT ![h] = "timeout"]
  /\ UNCHANGED <<vars, plans, level, mine, stray, overtaken>>

\* wait_for times out: it cancels the tasks that are awaited and returns when they
\* have ended, each in its finally block.  That is the coroutines.  The workers of a
\* task whose level is sustained, is not yet over and was not stopped are neither
\* cancelled nor told to stop, and go on with a closed session.
TimeoutCancels(h) ==
  /\ state[h] = "waiting"
  /\ state' = [state EXCEPT ![h] = "timeout"]
  /\ executing' = executing \ Own(h)
  /\ task' = [x \in TaskId |-> IF x \in Own(h) /\ task[x] # Null
                               THEN [task[x] EXCEPT !.status = "idle"] ELSE task[x]]
  /\ \E left \in SUBSET {x \in Own(h) : task[x] # Null /\ task[x].status = "running"} :
       stray' = stray \cup left
  /\ UNCHANGED <<request, run, plans, level, mine, overtaken>>

\* The manager's own steps, whoever started the runs.  An id that is free again
\* stands for a new one, which no execution has started.
Manage ==
  /\ \/ \E r \in RunId : Stop(r)
     \/ \E x \in TaskId : Finish(x) \/ Age(x)
     \/ Cleanup
  /\ mine' = [h \in Handler |-> {r \in mine[h] : run'[r] # Null}]
  /\ stray' = {x \in stray : run'[x[1]] # Null}
  /\ UNCHANGED <<state, plans, level, overtaken>>

ScheduledInit ==
  /\ Init
  /\ state = [h \in Handler |-> "none"]
  /\ plans = [h \in Handler |-> <<>>]
  /\ level = [h \in Handler |-> 1]
  /\ mine = [h \in Handler |-> {}]
  /\ stray = {}
  /\ overtaken = [h \in Handler |-> FALSE]

Groups == UNION {[1..n -> Plan] : n \in 1..MaxProfiles}

ScheduledNext ==
  \/ \E h \in Handler, u \in User, c \in Child, raw \in RawLevels : RequestRun(h, u, c, raw)
  \/ \E h \in Handler, u \in User, group \in Groups, raw \in RawLevels :
       BeginExecution(h, u, group, raw)
  \/ \E h \in Handler : RequestFails(h) \/ StartingFails(h) \/ AllEnded(h) \/ TimeoutCancels(h)
  \/ \E h \in Handler, r \in RunId : RequestStarts(h, r) \/ StartNext(h, r)
  \/ Manage

ScheduledSpec == ScheduledInit /\ [][ScheduledNext]_allVars
---------------------------------------------------------------------------------
\* scheduler.py:356: a task whose profiles do not fit together is skipped as a whole.  The
\* check is exact, so that a task is run in part, by the return at line 415, only if
\* somebody else started a run after it.
PartialOnlyIfOvertaken == \A h \in Handler : state[h] = "short" => overtaken[h]

\* An execution that waits ends together with its benchmarks.  When the scheduler
\* then releases the task's lock, none of them is executing any more; after a timeout
\* the workers of those that it cut off may go on, otherwise nothing does.
EndsWithItsRuns ==
  \A h \in Handler :
    /\ state[h] \in {"over", "timeout"} => Own(h) = {}
    /\ state[h] = "over" => LeftBy(h) = {}
=================================================================================
