----------------------------- MODULE BenchTaskProofs -----------------------------
(***************************************************************************)
(* Proofs about BenchTask: its invariants, for any number of tasks, levels *)
(* and events, and the step simulation of EventLog.                        *)
(***************************************************************************)
EXTENDS BenchTask, TLAPS

Event == [seq: Nat, type: EventType]

LEMMA LastLevelNat == LastLevel \in Nat \ {0}
BY TaskAssumption DEF LastLevel

\* What _publish leaves in the list: a list of events no longer than Cap, whose
\* newest is the new one and whose others are the newest of the old ones.
LEMMA PublishedList ==
  ASSUME NEW t \in Task, NEW type \in EventType,
         events[t] \in Seq(Event), event_seq[t] \in Nat,
         Len(events[t]) <= Cap
  PROVE  LET old == Len(events[t])
             new == Len(Published(t, type))
         IN  /\ Published(t, type) \in Seq(Event)
             /\ new = IF old + 1 > Cap THEN Keep ELSE old + 1
             /\ Published(t, type)[new] = [seq |-> event_seq[t] + 1, type |-> type]
             /\ \A i \in 1..(new - 1) : Published(t, type)[i] = events[t][i + old + 1 - new]
<1> DEFINE event == [seq |-> event_seq[t] + 1, type |-> type]
           all == Append(events[t], event)
<1>1. event \in Event
  BY DEF Event
<1>2. /\ all \in Seq(Event)
      /\ Len(all) = Len(events[t]) + 1
      /\ all[Len(all)] = event
      /\ \A i \in 1..Len(events[t]) : all[i] = events[t][i]
  <2> HIDE DEF event
  <2> QED BY <1>1
<1>3. Cap \in Nat /\ Keep \in 1..Cap /\ Len(events[t]) \in Nat
  BY TaskAssumption
<1>4. CASE Len(all) > Cap
  <2> DEFINE cut == SubSeq(all, Len(all) - Keep + 1, Len(all))
  <2>1. Published(t, type) = cut
    BY <1>4 DEF Published
  <2>2. cut \in Seq(Event) /\ Len(cut) = Keep
    <3> HIDE DEF all
    <3> QED BY <1>2, <1>3, <1>4
  <2>3. \A i \in 1..Keep : cut[i] = all[i + Len(all) - Keep]
    <3> HIDE DEF all
    <3> QED BY <1>2, <1>3, <1>4
  <2>4. cut[Keep] = event
    BY <2>3, <1>2, <1>3
  <2>5. \A i \in 1..(Keep - 1) : cut[i] = events[t][i + Len(events[t]) + 1 - Keep]
    <3> SUFFICES ASSUME NEW i \in 1..(Keep - 1)
                 PROVE  cut[i] = events[t][i + Len(events[t]) + 1 - Keep]
      OBVIOUS
    <3>1. cut[i] = all[i + Len(all) - Keep]
      <4> HIDE DEF all, cut
      <4> QED BY <2>3, <1>3
    <3>2. /\ i + Len(all) - Keep = i + Len(events[t]) + 1 - Keep
          /\ i + Len(events[t]) + 1 - Keep \in 1..Len(events[t])
      <4> HIDE DEF all, cut
      <4> QED BY <1>2, <1>3, <1>4
    <3> QED BY <3>1, <3>2, <1>2
  <2> HIDE DEF all, cut
  <2> QED BY <2>1, <2>2, <2>4, <2>5, <1>2, <1>4
<1>5. CASE ~(Len(all) > Cap)
  <2>1. Published(t, type) = all
    BY <1>5 DEF Published
  <2> HIDE DEF all
  <2> QED BY <2>1, <1>2, <1>3, <1>5
<1> QED BY <1>4, <1>5
---------------------------------------------------------------------------------
(***************************************************************************)
(* The inductive invariant, one task at a time.                            *)
(***************************************************************************)

\* Where the coroutine is in the loop over the levels.
LoopInv(t) ==
  /\ pc[t] \in {"ready", "paused"} => current_level[t] < LastLevel
  /\ pc[t] \in {"requests", "draining", "saving"} => current_level[t] > 0
  /\ pc[t] = "closing" => stop_event[t] \/ current_level[t] = LastLevel

\* Only a task that has not returned can be stopped, and stop_event stays set.
StopInv(t) ==
  /\ status[t] = "idle" <=> pc[t] = "done"
  /\ asked[t] => stop_event[t]

\* The events are consecutive, and there are never more than Cap.
NumberInv(t) ==
  /\ Len(events[t]) <= Cap
  /\ Len(events[t]) <= event_seq[t]
  /\ \A i \in 1..Len(events[t]) : events[t][i].seq = event_seq[t] - Len(events[t]) + i

\* The final event is published in the step in which the task returns, and what it
\* says is true from then on.
OutcomeInv(t) ==
  /\ pc[t] # "done" => \A i \in 1..Len(events[t]) : events[t][i].type \notin FinalType
  /\ pc[t] = "done" =>
       \/ Ended(t, "bench:complete") /\ current_level[t] = LastLevel /\ ~stop_event[t]
       \/ Ended(t, "bench:stopped") \/ Ended(t, "bench:error")
       \/ /\ config.scheduled
          /\ \A i \in 1..Len(events[t]) : events[t][i].type \notin FinalType

\* Only a sustained level of a scheduled run leaves workers behind, and only by a
\* cancellation: the task is over, and has no final event they could come after.
StrayInv(t) ==
  stray[t] => /\ pc[t] = "done" /\ config.scheduled /\ config.mode = "sustained"
              /\ \A i \in 1..Len(events[t]) : events[t][i].type \notin FinalType

TaskInv(t) == LoopInv(t) /\ StopInv(t) /\ NumberInv(t) /\ OutcomeInv(t) /\ StrayInv(t)

IndInv == TypeOK /\ \A t \in Task : TaskInv(t)

LEMMA InitInv == Init => IndInv
<1> SUFFICES ASSUME Init PROVE IndInv
  OBVIOUS
<1>1. TypeOK
  BY LastLevelNat, TaskAssumption DEF Init, TypeOK, Waiting
<1>2. ASSUME NEW t \in Task PROVE TaskInv(t)
  <2>1. /\ pc[t] = "ready" /\ status[t] = "running" /\ asked[t] = FALSE /\ stray[t] = FALSE
        /\ current_level[t] = 0 /\ events[t] = <<>> /\ event_seq[t] = 0
    BY DEF Init
  <2> QED BY <2>1, LastLevelNat, TaskAssumption
      DEF TaskInv, LoopInv, StopInv, NumberInv, OutcomeInv, StrayInv
<1> QED BY <1>1, <1>2 DEF IndInv
---------------------------------------------------------------------------------
\* A step leaves the other tasks, and whatever it does not touch, alone.
Same(t) ==
  /\ pc'[t] = pc[t] /\ status'[t] = status[t] /\ stop_event'[t] = stop_event[t]
  /\ current_level'[t] = current_level[t] /\ events'[t] = events[t]
  /\ event_seq'[t] = event_seq[t] /\ asked'[t] = asked[t] /\ stray'[t] = stray[t]

LEMMA SameInv ==
  ASSUME NEW t \in Task, TaskInv(t), Same(t), config' = config
  PROVE  TaskInv(t)'
BY DEF Same, TaskInv, LoopInv, StopInv, NumberInv, OutcomeInv, StrayInv, Ended, Last

\* An event of a task that goes on, and one that a task ends with.
LEMMA PublishInv ==
  ASSUME TypeOK, NEW t \in Task, NEW type \in EventType, NumberInv(t), Publish(t, type)
  PROVE  /\ events' \in [Task -> Seq(Event)] /\ event_seq' \in [Task -> Nat]
         /\ NumberInv(t)'
         /\ Ended(t, type)'
         /\ (/\ type \notin FinalType
             /\ \A i \in 1..Len(events[t]) : events[t][i].type \notin FinalType)
            => (\A i \in 1..Len(events[t]) : events[t][i].type \notin FinalType)'
         /\ \A u \in Task \ {t} : events'[u] = events[u] /\ event_seq'[u] = event_seq[u]
<1> DEFINE old == Len(events[t])
           list == Published(t, type)
           new == Len(list)
<1>1. events \in [Task -> Seq(Event)] /\ event_seq \in [Task -> Nat]
  BY DEF TypeOK, Event
<1>2. /\ events'[t] = list /\ event_seq'[t] = event_seq[t] + 1
      /\ \A u \in Task \ {t} : events'[u] = events[u] /\ event_seq'[u] = event_seq[u]
  BY <1>1 DEF Publish
<1>3. old \in Nat /\ old <= Cap /\ old <= event_seq[t] /\ event_seq[t] \in Nat
      /\ Cap \in Nat /\ Keep \in 1..Cap
  BY <1>1, TaskAssumption DEF NumberInv
<1>4. /\ list \in Seq(Event)
      /\ new = IF old + 1 > Cap THEN Keep ELSE old + 1
      /\ list[new] = [seq |-> event_seq[t] + 1, type |-> type]
      /\ \A i \in 1..(new - 1) : list[i] = events[t][i + old + 1 - new]
  BY PublishedList, <1>1, <1>3
<1>5. events' \in [Task -> Seq(Event)] /\ event_seq' \in [Task -> Nat]
  BY <1>1, <1>4 DEF Publish
<1> HIDE DEF list
<1>6. /\ new \in Nat /\ 1 <= new /\ new <= Cap /\ new <= old + 1
      /\ \A i \in 1..(new - 1) : i + old + 1 - new \in 1..old
  <2>1. new \in Nat /\ 1 <= new /\ new <= Cap /\ new <= old + 1
    <3> HIDE DEF old, new
    <3> QED BY <1>3, <1>4
  <2> HIDE DEF old, new
  <2> QED BY <2>1, <1>3
<1>7. ASSUME NEW i \in 1..new PROVE list[i].seq = event_seq[t] + 1 - new + i
  <2>1. CASE i = new
    BY <2>1, <1>3, <1>4, <1>6
  <2>2. CASE i # new
    <3>1. i \in 1..(new - 1) /\ i + old + 1 - new \in 1..old
      BY <2>2, <1>6
    <3>2. list[i].seq = events[t][i + old + 1 - new].seq
      BY <3>1, <1>4
    <3>3. events[t][i + old + 1 - new].seq = event_seq[t] - old + (i + old + 1 - new)
      BY <3>1 DEF NumberInv
    <3> QED BY <3>1, <3>2, <3>3, <1>3, <1>6
  <2> QED BY <2>1, <2>2
<1>8. NumberInv(t)'
  BY <1>2, <1>3, <1>6, <1>7 DEF NumberInv
<1>9. Ended(t, type)'
  <2>1. list # <<>> /\ list[new].type = type
    BY <1>4, <1>6
  <2> QED BY <2>1, <1>2 DEF Ended, Last
<1>10. ASSUME type \notin FinalType,
              \A i \in 1..old : events[t][i].type \notin FinalType
       PROVE  (\A i \in 1..Len(events[t]) : events[t][i].type \notin FinalType)'
  <2>1. ASSUME NEW i \in 1..new PROVE list[i].type \notin FinalType
    <3>1. CASE i = new
      BY <3>1, <1>4, <1>10
    <3>2. CASE i # new
      <4>1. i \in 1..(new - 1) /\ i + old + 1 - new \in 1..old
        BY <3>2, <1>6
      <4> QED BY <4>1, <1>4, <1>10
    <3> QED BY <3>1, <3>2
  <2> QED BY <2>1, <1>2
<1> QED BY <1>2, <1>5, <1>8, <1>9, <1>10
---------------------------------------------------------------------------------
(***************************************************************************)
(* Every step of a task keeps its part of the invariant, and leaves the    *)
(* others alone.                                                           *)
(***************************************************************************)
Kept(t) == TypeOK' /\ TaskInv(t)' /\ \A u \in Task \ {t} : Same(u)

\* The steps between two awaits that publish nothing.
LEMMA SilentStep ==
  ASSUME TypeOK, NEW t \in Task, TaskInv(t), config' = config,
         BreakLoop(t) \/ BurstDone(t) \/ StopWorkers(t) \/ WorkersDone(t) \/ Raise(t)
  PROVE  Kept(t)
<1> USE DEF Goto, Kept, Same, TypeOK, Waiting, Ended, Last,
            TaskInv, LoopInv, StopInv, NumberInv, OutcomeInv, StrayInv
<1>1. CASE BreakLoop(t)
  BY <1>1 DEF BreakLoop
<1>2. CASE BurstDone(t)
  BY <1>2 DEF BurstDone
<1>3. CASE StopWorkers(t)
  BY <1>3 DEF StopWorkers
<1>4. CASE WorkersDone(t)
  BY <1>4 DEF WorkersDone
<1>5. CASE Raise(t)
  BY <1>5 DEF Raise
<1> QED BY <1>1, <1>2, <1>3, <1>4, <1>5

LEMMA CancelStep ==
  ASSUME TypeOK, NEW t \in Task, TaskInv(t), config' = config, Cancel(t)
  PROVE  Kept(t)
BY DEF Cancel, Return, Goto, Kept, Same, TypeOK, Waiting, Ended, Last,
       TaskInv, LoopInv, StopInv, NumberInv, OutcomeInv, StrayInv

\* The workers that were left behind have seen stop_event.
LEMMA StraysEndStep ==
  ASSUME TypeOK, NEW t \in Task, TaskInv(t), config' = config, StraysEnd(t)
  PROVE  Kept(t)
BY DEF StraysEnd, Kept, Same, TypeOK, Ended, Last,
       TaskInv, LoopInv, StopInv, NumberInv, OutcomeInv, StrayInv

LEMMA StartLevelStep ==
  ASSUME TypeOK, NEW t \in Task, TaskInv(t), config' = config, StartLevel(t)
  PROVE  Kept(t)
<1>1. /\ pc[t] \in {"ready", "paused"} /\ Publish(t, "bench:start") /\ Goto(t, "requests")
      /\ current_level' = [current_level EXCEPT ![t] = @ + 1]
      /\ progress' = [progress EXCEPT ![t] = 0]
      /\ UNCHANGED <<status, stop_event, asked, stray>>
  BY DEF StartLevel
<1>2. "bench:start" \in EventType /\ "bench:start" \notin FinalType
  BY DEF EventType, FinalType
<1>3. /\ NumberInv(t)' /\ OutcomeInv(t)'
      /\ events' \in [Task -> Seq(Event)] /\ event_seq' \in [Task -> Nat]
      /\ \A u \in Task \ {t} : events'[u] = events[u] /\ event_seq'[u] = event_seq[u]
  <2>1. pc[t] # "done" /\ pc'[t] # "done"
    BY <1>1 DEF Goto, TypeOK
  <2> QED BY <2>1, <1>1, <1>2, PublishInv DEF TaskInv, OutcomeInv
<1>4. /\ current_level' \in [Task -> 0..LastLevel] /\ current_level'[t] > 0
      /\ \A u \in Task \ {t} : current_level'[u] = current_level[u]
  BY <1>1, LastLevelNat DEF TypeOK, TaskInv, LoopInv
<1>5. /\ pc' \in [Task -> Waiting \cup {"done"}] /\ pc'[t] = "requests"
      /\ \A u \in Task \ {t} : pc'[u] = pc[u]
  BY <1>1 DEF TypeOK, Goto, Waiting
<1>6. progress' \in [Task -> 0..MaxProgress]
  BY <1>1, TaskAssumption DEF TypeOK
<1>7. TypeOK'
  BY <1>1, <1>3, <1>4, <1>5, <1>6 DEF TypeOK, Event
<1>8. LoopInv(t)' /\ StopInv(t)' /\ StrayInv(t)'
  BY <1>1, <1>4, <1>5 DEF TaskInv, LoopInv, StopInv, StrayInv
<1> QED BY <1>1, <1>3, <1>4, <1>5, <1>7, <1>8 DEF Kept, Same, TaskInv

LEMMA ProgressStep ==
  ASSUME TypeOK, NEW t \in Task, TaskInv(t), config' = config, Progress(t)
  PROVE  Kept(t)
<1>1. /\ pc[t] \in {"requests", "draining"} /\ Publish(t, "bench:progress")
      /\ progress[t] < MaxProgress /\ progress' = [progress EXCEPT ![t] = @ + 1]
      /\ UNCHANGED <<pc, status, stop_event, current_level, asked, stray>>
  BY DEF Progress
<1>2. "bench:progress" \in EventType /\ "bench:progress" \notin FinalType
  BY DEF EventType, FinalType
<1>3. /\ NumberInv(t)' /\ OutcomeInv(t)'
      /\ events' \in [Task -> Seq(Event)] /\ event_seq' \in [Task -> Nat]
      /\ \A u \in Task \ {t} : events'[u] = events[u] /\ event_seq'[u] = event_seq[u]
  <2>1. pc[t] # "done" /\ pc'[t] # "done"
    BY <1>1
  <2> QED BY <2>1, <1>1, <1>2, PublishInv DEF TaskInv, OutcomeInv
<1>4. progress' \in [Task -> 0..MaxProgress]
  BY <1>1, TaskAssumption DEF TypeOK
<1>5. TypeOK'
  BY <1>1, <1>3, <1>4 DEF TypeOK, Event
<1>6. LoopInv(t)' /\ StopInv(t)' /\ StrayInv(t)'
  BY <1>1 DEF TaskInv, LoopInv, StopInv, StrayInv
<1> QED BY <1>1, <1>3, <1>5, <1>6 DEF Kept, Same, TaskInv

\* An event that comes after the cancellation is not a final one either.
LEMMA StrayProgressStep ==
  ASSUME TypeOK, NEW t \in Task, TaskInv(t), config' = config, StrayProgress(t)
  PROVE  Kept(t)
<1>1. /\ stray[t] /\ Publish(t, "bench:progress")
      /\ progress[t] < MaxProgress /\ progress' = [progress EXCEPT ![t] = @ + 1]
      /\ UNCHANGED <<pc, status, stop_event, current_level, asked, stray>>
  BY DEF StrayProgress
<1>2. "bench:progress" \in EventType /\ "bench:progress" \notin FinalType
  BY DEF EventType, FinalType
<1>3. /\ NumberInv(t)'
      /\ (\A i \in 1..Len(events[t]) : events[t][i].type \notin FinalType)'
      /\ events' \in [Task -> Seq(Event)] /\ event_seq' \in [Task -> Nat]
      /\ \A u \in Task \ {t} : events'[u] = events[u] /\ event_seq'[u] = event_seq[u]
  BY <1>1, <1>2, PublishInv DEF TaskInv, StrayInv
<1>4. progress' \in [Task -> 0..MaxProgress]
  BY <1>1, TaskAssumption DEF TypeOK
<1>5. TypeOK'
  BY <1>1, <1>3, <1>4 DEF TypeOK, Event
<1>6. LoopInv(t)' /\ StopInv(t)' /\ StrayInv(t)' /\ OutcomeInv(t)'
  BY <1>1, <1>3 DEF TaskInv, LoopInv, StopInv, StrayInv, OutcomeInv
<1> QED BY <1>1, <1>3, <1>5, <1>6 DEF Kept, Same, TaskInv

LEMMA LevelSavedStep ==
  ASSUME TypeOK, NEW t \in Task, TaskInv(t), config' = config, LevelSaved(t)
  PROVE  Kept(t)
<1> DEFINE place == IF current_level[t] = LastLevel \/ stop_event[t] THEN "closing"
                    ELSE IF ConcurrencyLevels[current_level[t]] = ConcurrencyLevels[LastLevel]
                    THEN "ready" ELSE "paused"
<1>1. /\ pc[t] = "saving" /\ Publish(t, "bench:level_complete") /\ Goto(t, place)
      /\ UNCHANGED <<status, stop_event, current_level, progress, asked, stray>>
  BY DEF LevelSaved
<1>2. "bench:level_complete" \in EventType /\ "bench:level_complete" \notin FinalType
  BY DEF EventType, FinalType
<1>3. /\ place \in {"closing", "ready", "paused"}
      /\ place = "closing" => stop_event[t] \/ current_level[t] = LastLevel
      /\ place # "closing" => current_level[t] # LastLevel
  OBVIOUS
<1>4. current_level[t] \in 0..LastLevel /\ current_level[t] # LastLevel
      => current_level[t] < LastLevel
  BY LastLevelNat
<1> HIDE DEF place
<1>5. /\ pc' \in [Task -> Waiting \cup {"done"}] /\ pc'[t] = place
      /\ \A u \in Task \ {t} : pc'[u] = pc[u]
  BY <1>1, <1>3 DEF TypeOK, Goto, Waiting
<1>6. /\ NumberInv(t)' /\ OutcomeInv(t)'
      /\ events' \in [Task -> Seq(Event)] /\ event_seq' \in [Task -> Nat]
      /\ \A u \in Task \ {t} : events'[u] = events[u] /\ event_seq'[u] = event_seq[u]
  <2>1. pc[t] # "done" /\ pc'[t] # "done"
    BY <1>1, <1>3, <1>5
  <2> QED BY <2>1, <1>1, <1>2, PublishInv DEF TaskInv, OutcomeInv
<1>7. TypeOK'
  BY <1>1, <1>5, <1>6 DEF TypeOK, Event
<1>8. LoopInv(t)' /\ StopInv(t)' /\ StrayInv(t)'
  <2>1. current_level'[t] = current_level[t] /\ stop_event'[t] = stop_event[t]
        /\ status'[t] = status[t] /\ asked'[t] = asked[t]
    BY <1>1
  <2>2. current_level[t] \in 0..LastLevel
    BY DEF TypeOK
  <2>3. LoopInv(t)'
    BY <1>3, <1>4, <1>5, <2>1, <2>2 DEF LoopInv
  <2> QED BY <1>1, <1>3, <1>5, <2>1, <2>3 DEF TaskInv, StopInv, StrayInv
<1> QED BY <1>1, <1>5, <1>6, <1>7, <1>8 DEF Kept, Same, TaskInv

\* Close and Fail: the final event and the return are one step.
LEMMA ReturnStep ==
  ASSUME TypeOK, NEW t \in Task, TaskInv(t), config' = config, Close(t) \/ Fail(t)
  PROVE  Kept(t)
<1>1. PICK type \in FinalType :
        /\ Publish(t, type) /\ Return(t) /\ UNCHANGED stray
        /\ pc[t] # "done"
        /\ type = "bench:complete" => ~stop_event[t] /\ current_level[t] = LastLevel
  <2>1. CASE Close(t)
    BY <2>1 DEF Close, FinalType, TaskInv, LoopInv
  <2>2. CASE Fail(t)
    BY <2>2 DEF Fail, FinalType
  <2> QED BY <2>1, <2>2
<1>2. type \in EventType
  BY DEF EventType
<1>3. /\ NumberInv(t)' /\ Ended(t, type)'
      /\ events' \in [Task -> Seq(Event)] /\ event_seq' \in [Task -> Nat]
      /\ \A u \in Task \ {t} : events'[u] = events[u] /\ event_seq'[u] = event_seq[u]
  BY <1>1, <1>2, PublishInv DEF TaskInv
<1>4. /\ pc' \in [Task -> Waiting \cup {"done"}] /\ pc'[t] = "done"
      /\ status' \in [Task -> {"running", "stopping", "idle"}] /\ status'[t] = "idle"
      /\ \A u \in Task \ {t} : pc'[u] = pc[u] /\ status'[u] = status[u]
      /\ UNCHANGED <<stop_event, current_level, progress, asked, stray>>
  BY <1>1 DEF TypeOK, Return, Goto
<1>5. TypeOK'
  BY <1>3, <1>4 DEF TypeOK, Event
<1>6. OutcomeInv(t)'
  BY <1>1, <1>3, <1>4 DEF OutcomeInv, FinalType
<1>7. LoopInv(t)' /\ StopInv(t)' /\ StrayInv(t)'
  BY <1>1, <1>4 DEF TaskInv, LoopInv, StopInv, StrayInv
<1> QED BY <1>3, <1>4, <1>5, <1>6, <1>7 DEF Kept, Same, TaskInv

\* A stop request reaches every task that has not returned, in one step.
LEMMA StopStep ==
  ASSUME IndInv, config' = config, Stop
  PROVE  IndInv'
<1>1. TypeOK'
  BY DEF IndInv, TypeOK, Stop
<1>2. ASSUME NEW t \in Task PROVE TaskInv(t)'
  <2>1. TaskInv(t) /\ status[t] \in {"running", "stopping", "idle"}
    BY DEF IndInv, TypeOK
  <2>2. /\ status'[t] = IF status[t] = "running" THEN "stopping" ELSE status[t]
        /\ stop_event'[t] = (stop_event[t] \/ status[t] = "running")
        /\ asked'[t] = (asked[t] \/ status[t] = "running")
        /\ UNCHANGED <<pc, current_level, events, event_seq, stray>>
    BY DEF Stop
  <2>3. LoopInv(t)' /\ StopInv(t)'
    BY <2>1, <2>2 DEF TaskInv, LoopInv, StopInv
  <2>4. NumberInv(t)' /\ OutcomeInv(t)' /\ StrayInv(t)'
    BY <2>1, <2>2 DEF TaskInv, StopInv, NumberInv, OutcomeInv, StrayInv, Ended, Last
  <2> QED BY <2>3, <2>4 DEF TaskInv
<1> QED BY <1>1, <1>2 DEF IndInv

LEMMA TaskStep ==
  ASSUME TypeOK, NEW t \in Task, TaskInv(t), config' = config,
         Step(t) \/ Progress(t) \/ Raise(t) \/ Cancel(t)
             \/ StrayProgress(t) \/ StraysEnd(t)
  PROVE  Kept(t)
BY SilentStep, CancelStep, StartLevelStep, ProgressStep, LevelSavedStep, ReturnStep,
   StrayProgressStep, StraysEndStep DEF Step

LEMMA NextInv == IndInv /\ [Next]_vars => IndInv'
<1> SUFFICES ASSUME IndInv, [Next]_vars PROVE IndInv'
  OBVIOUS
<1>1. CASE UNCHANGED vars
  <2>1. TypeOK'
    BY <1>1 DEF IndInv, TypeOK, vars
  <2>2. ASSUME NEW t \in Task PROVE TaskInv(t)'
    BY <1>1, SameInv DEF IndInv, vars, Same
  <2> QED BY <2>1, <2>2 DEF IndInv
<1>2. ASSUME NEW t \in Task, Step(t) \/ Progress(t) \/ Raise(t) \/ Cancel(t)
             \/ StrayProgress(t) \/ StraysEnd(t),
             config' = config
      PROVE  IndInv'
  <2>1. Kept(t)
    BY <1>2, TaskStep DEF IndInv
  <2>2. ASSUME NEW u \in Task PROVE TaskInv(u)'
    <3>1. CASE u = t
      BY <3>1, <2>1 DEF Kept
    <3>2. CASE u # t
      BY <3>2, <2>1, <1>2, SameInv DEF Kept, IndInv
    <3> QED BY <3>1, <3>2
  <2> QED BY <2>1, <2>2 DEF Kept, IndInv
<1>3. CASE Stop /\ config' = config
  BY <1>3, StopStep
<1> QED BY <1>1, <1>2, <1>3 DEF Next
---------------------------------------------------------------------------------
LEMMA Invariance == Spec => []IndInv
<1>1. IndInv /\ [Next]_vars => IndInv'
  BY NextInv
<1> QED BY InitInv, <1>1, PTL DEF Spec

\* The variables of every task keep their types: in particular a task never counts
\* beyond the levels of its run, although StartLevel does not compare them.
THEOREM TypeCorrect == Spec => []TypeOK
<1>1. IndInv => TypeOK
  BY DEF IndInv
<1> QED BY <1>1, Invariance, PTL

\* The list a reader sees is consecutive and bounded: whatever _publish cut, the
\* events kept are the newest ones, and their numbers leave no gap.
EventsConsecutive ==
  \A t \in Task :
    /\ Len(events[t]) <= Cap
    /\ \A i \in 1..Len(events[t]) : events[t][i].seq = event_seq[t] - Len(events[t]) + i

THEOREM EventsAreConsecutive == Spec => []EventsConsecutive
<1>1. IndInv => EventsConsecutive
  BY DEF IndInv, TaskInv, NumberInv, EventsConsecutive
<1> QED BY <1>1, Invariance, PTL

\* A run that a user started is reported "completed" only if every task published
\* bench:complete after its last level and nobody asked it to stop.
THEOREM CompletedOnlyIfComplete == Spec => []CompletedRunIsComplete
<1>1. IndInv => CompletedRunIsComplete
  <2> SUFFICES ASSUME IndInv, run_status = "completed", ~config.scheduled, NEW t \in Task
               PROVE  Ended(t, "bench:complete") /\ current_level[t] = LastLevel /\ ~asked[t]
    BY DEF CompletedRunIsComplete
  <2> DEFINE types == UNION {{events[u][i].type : i \in DOMAIN events[u]} : u \in Task}
  <2>1. /\ status[t] # "stopping" /\ status[t] # "running"
        /\ "bench:error" \notin types /\ "bench:stopped" \notin types
    BY DEF run_status
  <2>2. TaskInv(t) /\ status[t] = "idle" /\ events[t] \in Seq([seq: Nat, type: EventType])
    BY <2>1 DEF IndInv, TypeOK
  <2>3. pc[t] = "done"
    BY <2>2 DEF TaskInv, StopInv
  <2>4. ASSUME NEW type \in {"bench:error", "bench:stopped"}, Ended(t, type) PROVE FALSE
    <3>1. Len(events[t]) \in DOMAIN events[t] /\ events[t][Len(events[t])].type = type
      BY <2>2, <2>4 DEF Ended, Last
    <3>2. type \in types
      BY <3>1
    <3> QED BY <3>2, <2>1, <2>4
  <2>5. \/ Ended(t, "bench:complete") /\ current_level[t] = LastLevel /\ ~stop_event[t]
        \/ Ended(t, "bench:stopped") \/ Ended(t, "bench:error")
    BY <2>2, <2>3 DEF TaskInv, OutcomeInv
  <2> QED BY <2>2, <2>4, <2>5 DEF TaskInv, StopInv
<1> QED BY <1>1, Invariance, PTL

\* Once a stop request has been accepted no further level of the task starts,
\* wherever its coroutine was waiting.
THEOREM StopIsHonoured == Spec => NoLevelAfterStop
<1>1. IndInv /\ [Next]_vars =>
        [\A t \in Task : asked[t] => current_level'[t] = current_level[t]]_vars
  <2> SUFFICES ASSUME IndInv, [Next]_vars, NEW t \in Task, asked[t]
               PROVE  current_level'[t] = current_level[t]
    OBVIOUS
  <2>1. stop_event[t] /\ current_level \in [Task -> 0..LastLevel]
    BY DEF IndInv, TaskInv, StopInv, TypeOK
  <2>2. CASE UNCHANGED vars
    BY <2>2 DEF vars
  <2>3. CASE Stop
    BY <2>3 DEF Stop
  <2>4. ASSUME NEW u \in Task, Step(u) \/ Progress(u) \/ Raise(u) \/ Cancel(u)
             \/ StrayProgress(u) \/ StraysEnd(u)
        PROVE  current_level'[t] = current_level[t]
    <3>1. CASE StartLevel(u)
      BY <3>1, <2>1 DEF StartLevel
    <3>2. CASE ~StartLevel(u)
      BY <3>2, <2>4 DEF Step, BreakLoop, BurstDone, StopWorkers, WorkersDone, LevelSaved,
                        Close, Fail, Progress, Raise, Cancel, StrayProgress, StraysEnd, Return
    <3> QED BY <3>1, <3>2
  <2> QED BY <2>2, <2>3, <2>4 DEF Next
<1> QED BY <1>1, Invariance, PTL DEF Spec, NoLevelAfterStop
---------------------------------------------------------------------------------
(***************************************************************************)
(* The log of a task implements EventLog.                                  *)
(***************************************************************************)

\* The oldest event kept and the end of a task, as EventLog sees them.
LoOf(t) == event_seq[t] + 1 - Len(events[t])

FinalOf(t) == IF pc[t] # "done" THEN "none"
              ELSE IF \E type \in FinalType : Ended(t, type) THEN Last(t)
              ELSE "cancelled"

lo == [t \in Task |-> LoOf(t)]
final == [t \in Task |-> FinalOf(t)]

LEMMA SameLog ==
  ASSUME NEW t \in Task, Same(t)
  PROVE  LoOf(t)' = LoOf(t) /\ FinalOf(t)' = FinalOf(t)
BY DEF Same, LoOf, FinalOf, Ended, Last

\* A list without a final event does not end with one.
LEMMA NoFinalEvent ==
  ASSUME NEW list \in Seq(Event), NEW type \in FinalType,
         \A i \in 1..Len(list) : list[i].type \notin FinalType
  PROVE  ~(list # <<>> /\ list[Len(list)].type = type)
<1>1. ASSUME list # <<>> PROVE Len(list) \in 1..Len(list)
  BY <1>1
<1> QED BY <1>1

\* Every _publish is an append to the abstract log, cut in the same way.
LEMMA AppendsToLog ==
  ASSUME TypeOK, NEW t \in Task, NEW type \in EventType, TaskInv(t), Publish(t, type),
         \A u \in Task \ {t} : Same(u)
  PROVE  Log!AppendEvent(t)
<1> DEFINE old == Len(events[t])
           newlo == IF event_seq[t] + 2 - LoOf(t) > Cap THEN event_seq[t] + 2 - Keep ELSE LoOf(t)
<1>1. events \in [Task -> Seq(Event)] /\ event_seq \in [Task -> Nat]
  BY DEF TypeOK, Event
<1>2. /\ old \in Nat /\ old <= Cap /\ event_seq[t] \in Nat /\ Cap \in Nat /\ Keep \in 1..Cap
  BY <1>1, TaskAssumption DEF TaskInv, NumberInv
<1>3. /\ events'[t] = Published(t, type) /\ event_seq'[t] = event_seq[t] + 1
      /\ event_seq' = [event_seq EXCEPT ![t] = @ + 1]
  BY <1>1 DEF Publish
<1>4. Len(Published(t, type)) = IF old + 1 > Cap THEN Keep ELSE old + 1
  BY PublishedList, <1>1, <1>2
<1>5. LoOf(t)' = newlo
  <2>1. LoOf(t) = event_seq[t] + 1 - old
    BY DEF LoOf
  <2>2. LoOf(t)' = event_seq[t] + 2 - (IF old + 1 > Cap THEN Keep ELSE old + 1)
    <3>1. LoOf(t)' = event_seq'[t] + 1 - Len(events'[t])
      BY DEF LoOf
    <3>2. LoOf(t)' = (event_seq[t] + 1) + 1 - Len(Published(t, type))
      BY <1>3, <3>1
    <3> HIDE DEF old
    <3> QED BY <1>2, <1>4, <3>2
  <2> HIDE DEF old
  <2> QED BY <2>1, <2>2, <1>2
<1>6. \A u \in Task \ {t} : LoOf(u)' = LoOf(u)
  BY SameLog
<1>7. lo' = [lo EXCEPT ![t] = newlo]
  BY <1>5, <1>6 DEF lo
<1>8. lo[t] = LoOf(t)
  BY DEF lo
<1>9. lo' = [lo EXCEPT ![t] = IF event_seq[t] + 2 - @ > Cap THEN event_seq[t] + 2 - Keep ELSE @]
  BY <1>7, <1>8
<1> QED BY <1>3, <1>9 DEF Log!AppendEvent, lo, LoOf

LEMMA PublishLog ==
  ASSUME TypeOK, NEW t \in Task, NEW type \in EventType, TaskInv(t), Publish(t, type),
         \A u \in Task \ {t} : Same(u),
         FinalOf(t)' = FinalOf(t), FinalOf(t) \in {"none", "cancelled"}
  PROVE  Log!Publish(t)
<1>1. Log!AppendEvent(t)
  BY AppendsToLog
<1>2. final[t] \in {"none", "cancelled"}
  BY DEF final
<1>3. final' = final
  <2>1. ASSUME NEW u \in Task PROVE FinalOf(u)' = FinalOf(u)
    <3>1. CASE u = t
      BY <3>1
    <3>2. CASE u # t
      BY <3>2, SameLog
    <3> QED BY <3>1, <3>2
  <2> QED BY <2>1 DEF final
<1> QED BY <1>1, <1>2, <1>3 DEF Log!Publish, final, FinalOf

LEMMA EndLog ==
  ASSUME TypeOK, NEW t \in Task, NEW type \in FinalType, TaskInv(t), Publish(t, type),
         \A u \in Task \ {t} : Same(u), pc[t] # "done", pc'[t] = "done"
  PROVE  Log!End(t, type)
<1>1. Log!AppendEvent(t)
  BY AppendsToLog DEF EventType
<1>2. final[t] = "none"
  BY DEF final, FinalOf
<1>3. FinalOf(t)' = type
  <2>1. Ended(t, type)'
    BY PublishInv DEF TaskInv, EventType
  <2> QED BY <2>1 DEF FinalOf, Ended
<1>4. final' = [final EXCEPT ![t] = type]
  BY <1>3, SameLog DEF final
<1> QED BY <1>1, <1>2, <1>4 DEF Log!End, final, FinalOf

LEMMA VanishLog ==
  ASSUME TypeOK, NEW t \in Task, TaskInv(t), UNCHANGED <<events, event_seq>>,
         \A u \in Task \ {t} : Same(u), pc[t] # "done", pc'[t] = "done"
  PROVE  Log!Vanish(t)
<1>1. final[t] = "none"
  BY DEF final, FinalOf
<1>2. FinalOf(t)' = "cancelled"
  <2>1. /\ events[t] \in Seq(Event) /\ events'[t] = events[t]
        /\ \A i \in 1..Len(events[t]) : events[t][i].type \notin FinalType
    BY DEF TypeOK, Event, TaskInv, OutcomeInv
  <2> QED BY <2>1, NoFinalEvent DEF FinalOf, Ended, Last
<1>3. final' = [final EXCEPT ![t] = "cancelled"]
  BY <1>2, SameLog DEF final
<1>4. UNCHANGED <<lo, event_seq>>
  BY DEF lo, LoOf
<1> QED BY <1>1, <1>3, <1>4 DEF Log!Vanish, final, FinalOf, lo, LoOf

\* The steps that neither publish nor return are stutters of the log.
LEMMA QuietLog ==
  ASSUME UNCHANGED <<events, event_seq>>, \A t \in Task : (pc'[t] = "done") = (pc[t] = "done")
  PROVE  UNCHANGED Log!logVars
<1>1. ASSUME NEW t \in Task PROVE LoOf(t)' = LoOf(t) /\ FinalOf(t)' = FinalOf(t)
  BY DEF LoOf, FinalOf, Ended, Last
<1>2. UNCHANGED <<lo, event_seq, final>>
  BY <1>1 DEF lo, final
<1> QED BY <1>2 DEF Log!logVars, lo, LoOf, final, FinalOf

LEMMA LogInitially == Init => Log!LogInit
<1> SUFFICES ASSUME Init PROVE Log!LogInit
  OBVIOUS
<1>1. ASSUME NEW t \in Task PROVE LoOf(t) = 1 /\ FinalOf(t) = "none"
  BY DEF Init, LoOf, FinalOf
<1>2. lo = [t \in Task |-> 1] /\ final = [t \in Task |-> "none"]
  BY <1>1 DEF lo, final
<1> QED BY <1>2 DEF Init, Log!LogInit, lo, LoOf, final, FinalOf

LEMMA LogStep == IndInv /\ [Next]_vars => [Log!LogNext]_(Log!logVars)
<1> SUFFICES ASSUME IndInv, [Next]_vars PROVE Log!LogNext \/ UNCHANGED Log!logVars
  OBVIOUS
<1>1. CASE UNCHANGED vars
  BY <1>1, QuietLog DEF vars
<1>2. CASE Stop
  BY <1>2, QuietLog DEF Stop
<1>3. ASSUME NEW t \in Task, Step(t) \/ Progress(t) \/ Raise(t) \/ Cancel(t)
             \/ StrayProgress(t) \/ StraysEnd(t),
             config' = config
      PROVE  Log!LogNext \/ UNCHANGED Log!logVars
  <2>1. TypeOK /\ TaskInv(t) /\ \A u \in Task \ {t} : Same(u)
    BY <1>3, TaskStep DEF IndInv, Kept
  <2>2. pc \in [Task -> Waiting \cup {"done"}]
    BY <2>1 DEF TypeOK
  <2>3. CASE BreakLoop(t) \/ BurstDone(t) \/ StopWorkers(t) \/ WorkersDone(t) \/ Raise(t)
    <3>1. UNCHANGED <<events, event_seq>> /\ pc[t] # "done" /\ pc'[t] # "done"
      BY <2>2, <2>3 DEF BreakLoop, BurstDone, StopWorkers, WorkersDone, Raise, Goto
    <3> QED BY <3>1, <2>1, QuietLog DEF Same
  <2>4. CASE StartLevel(t) \/ Progress(t) \/ LevelSaved(t)
    <3>1. PICK type \in EventType : Publish(t, type)
      BY <2>4 DEF StartLevel, Progress, LevelSaved, EventType
    <3>2. pc[t] # "done" /\ pc'[t] # "done"
      BY <2>2, <2>4 DEF StartLevel, Progress, LevelSaved, Goto
    <3>3. FinalOf(t) = "none" /\ FinalOf(t)' = "none"
      BY <3>2 DEF FinalOf
    <3> QED BY <3>1, <3>3, <2>1, PublishLog DEF Log!LogNext
  <2>5. CASE Close(t) \/ Fail(t)
    <3>1. PICK type \in FinalType : Publish(t, type)
      BY <2>5 DEF Close, Fail, FinalType
    <3>2. pc[t] # "done" /\ pc'[t] = "done"
      BY <2>2, <2>5 DEF Close, Fail, Return, Goto
    <3>3. Log!End(t, type)
      BY <3>1, <3>2, <2>1, EndLog
    <3> QED BY <3>3 DEF Log!LogNext
  <2>6. CASE Cancel(t)
    <3>1. UNCHANGED <<events, event_seq>> /\ pc[t] # "done" /\ pc'[t] = "done"
      BY <2>2, <2>6 DEF Cancel, Return, Goto, Waiting
    <3> QED BY <3>1, <2>1, VanishLog DEF Log!LogNext
  <2>7. CASE StrayProgress(t)
    <3>1. Publish(t, "bench:progress") /\ stray[t] /\ stray' = stray
      BY <2>7 DEF StrayProgress
    <3>2. ASSUME NEW list, list \in {events[t], events'[t]}, NEW type \in FinalType
          PROVE  ~(list # <<>> /\ list[Len(list)].type = type)
      <4>1. /\ list \in Seq(Event) /\ \A i \in 1..Len(list) : list[i].type \notin FinalType
        <5>1. TypeOK' /\ TaskInv(t)'
          BY <1>3, TaskStep DEF IndInv, Kept
        <5>2. CASE list = events[t]
          BY <2>1, <3>1, <5>2 DEF TypeOK, Event, TaskInv, StrayInv
        <5>3. CASE list = events'[t]
          <6>1. events' \in [Task -> Seq(Event)]
            BY <5>1 DEF TypeOK, Event
          <6> QED BY <3>1, <5>1, <5>3, <6>1 DEF TaskInv, StrayInv
        <5> QED BY <3>2, <5>2, <5>3
      <4> QED BY <4>1, NoFinalEvent
    <3>3. pc[t] = "done" /\ pc'[t] = "done"
      BY <2>1, <2>7, <3>1 DEF StrayProgress, TaskInv, StrayInv
    <3>4. FinalOf(t) = "cancelled" /\ FinalOf(t)' = "cancelled"
      BY <3>2, <3>3 DEF FinalOf, Ended, Last
    <3> QED BY <3>1, <3>4, <2>1, PublishLog DEF Log!LogNext, EventType
  <2>8. CASE StraysEnd(t)
    BY <2>8, QuietLog DEF StraysEnd
  <2> QED BY <1>3, <2>3, <2>4, <2>5, <2>6, <2>7, <2>8 DEF Step
<1> QED BY <1>1, <1>2, <1>3 DEF Next

\* The event lists of the tasks of a run are an EventLog: numbered without gap, cut
\* to the newest, and closed by at most one final event.
THEOREM LogIsImplemented == Spec => ImplementsEventLog
BY LogInitially, LogStep, Invariance, PTL DEF Spec, ImplementsEventLog, Log!LogSpec
=================================================================================
