--------------------------- MODULE ScheduledRunProofs ---------------------------
(***************************************************************************)
(* Theorems about ScheduledRun.  What is known of admission is reused: the *)
(* lemmas of RunAdmissionProofs speak of single actions, and every step of *)
(* this module is made of them.                                            *)
(***************************************************************************)
EXTENDS ScheduledRun, RunAdmissionProofs, SequenceTheorems, WellFoundedInduction

\* A set of numbers that is not empty has a least element, and a greatest one if
\* it is bounded: Min and Max choose them.
LEMMA LeastElement ==
  ASSUME NEW S \in SUBSET Nat, S # {}
  PROVE  Min(S) \in S /\ \A y \in S : Min(S) <= y
<1>1. PICK x \in S : \A y \in S : ~ (<<y, x>> \in OpToRel(<, Nat))
  BY NatLessThanWellFounded, WFMin
<1>2. ASSUME NEW y \in S PROVE x <= y
  <2>1. x \in Nat /\ y \in Nat /\ <<y, x>> \in Nat \X Nat
    OBVIOUS
  <2>2. ~ (y < x)
    BY <1>1, <2>1 DEF OpToRel
  <2>. QED
    BY <2>1, <2>2
<1>. QED
  BY <1>2 DEF Min

\* Products grow with their factors.
LEMMA ProductGrows ==
  ASSUME NEW a \in Nat, NEW b \in Nat, NEW c \in Nat, a <= b
  PROVE  a * c <= b * c
<1>1. PICK d \in Nat : b = a + d
  <2>1. b - a \in Nat /\ b = a + (b - a)
    OBVIOUS
  <2>. QED
    BY <2>1
<1>2. (a + d) * c = a * c + d * c /\ a * c \in Nat /\ d * c \in Nat
  OBVIOUS
<1>. QED
  BY <1>1, <1>2

LEMMA GreatestElement ==
  ASSUME NEW n \in Nat, NEW S \in SUBSET (0..n), S # {}
  PROVE  Max(S) \in S /\ \A y \in S : Max(S) >= y
<1> DEFINE Mirror == {i \in 0..n : n - i \in S}
<1>1. Mirror \in SUBSET Nat /\ Mirror # {}
  <2>1. PICK y \in S : TRUE
    OBVIOUS
  <2>2. y \in 0..n
    BY <2>1
  <2>3. n - y \in 0..n /\ n - (n - y) = y
    BY <2>2
  <2>4. n - y \in Mirror
    BY <2>1, <2>3
  <2>5. Mirror \in SUBSET Nat
    OBVIOUS
  <2>. QED
    BY <2>4, <2>5
<1>2. PICK m \in Mirror : \A i \in Mirror : m <= i
  BY <1>1, LeastElement
<1>3. n - m \in S
  BY <1>2
<1>4. ASSUME NEW y \in S PROVE n - m >= y
  <2>1. y \in 0..n
    OBVIOUS
  <2>2. n - y \in 0..n /\ n - (n - y) = y
    BY <2>1
  <2>3. n - y \in Mirror
    BY <2>2
  <2>4. m <= n - y
    BY <1>2, <2>3
  <2>5. m \in 0..n
    BY <1>2
  <2>. QED
    BY <2>1, <2>4, <2>5
<1>. QED
  BY <1>3, <1>4 DEF Max

\* The level of an execution is one of the levels of admission.
LEMMA HighestIsLevel ==
  ASSUME NEW raw
  PROVE  Highest(raw) \in Level /\ Highest(raw) \in Nat \ {0}
<1>1. Normalized(raw) \in SUBSET (0..MaxLevel) /\ Normalized(raw) # {}
      /\ Normalized(raw) \in SUBSET (1..MaxLevel)
  BY ScheduledAssumption DEF Normalized
<1>2. Max(Normalized(raw)) \in Normalized(raw)
  BY <1>1, GreatestElement, ScheduledAssumption
<1>. QED
  BY <1>1, <1>2, ScheduledAssumption DEF Highest

\* The slots of a group are finitely many.
LEMMA PlanSlotsFinite ==
  ASSUME NEW group \in Seq(Plan), NEW l \in Nat
  PROVE  IsFiniteSet(PlanSlots(group, l)) /\ GroupSlots(group, l) \in Nat
<1> DEFINE n == MaxChildren * l
<1>1. n \in Nat
  BY LimitAssumption
<1> HIDE DEF n
<1>2. IsFiniteSet(1..n) /\ IsFiniteSet(1..Len(group))
  BY <1>1, FS_Interval
<1>3. IsFiniteSet((1..Len(group)) \X (1..n))
  BY <1>2, FS_Product
<1>4. PlanSlots(group, l) \in SUBSET ((1..Len(group)) \X (1..n))
  BY DEF PlanSlots, n
<1>. QED
  BY <1>3, <1>4, FS_Subset, FS_CardinalityType DEF GroupSlots

\* The first valid profile and those behind it need no more slots than the group.
LEMMA GroupCoversRest ==
  ASSUME NEW group \in Seq(Plan), NEW l \in Level, NEW rest, rest = FromValid(group), rest # <<>>
  PROVE  /\ Head(rest) \in Plan /\ Tail(rest) \in Seq(Plan)
         /\ Head(rest).children * l + GroupSlots(Tail(rest), l) <= GroupSlots(group, l)
         /\ Head(rest).children * l \in Nat
<1> DEFINE valid == {i \in DOMAIN group : group[i].valid}
<1>1. PICK k \in 1..Len(group) : rest = SubSeq(group, k, Len(group))
  <2>1. valid # {} /\ rest = SubSeq(group, Min(valid), Len(group))
    BY DEF FromValid
  <2>2. valid \in SUBSET Nat /\ valid \in SUBSET (1..Len(group))
    OBVIOUS
  <2>3. Min(valid) \in valid
    BY <2>1, <2>2, LeastElement
  <2>. QED
    BY <2>1, <2>2, <2>3
<1>2. PICK back : back = Tail(rest)
  OBVIOUS
<1>3. Head(rest) = group[k] /\ back = SubSeq(group, k + 1, Len(group))
  BY <1>1, <1>2, HeadTailOfSubSeq
<1>4. /\ back \in Seq(Plan) /\ Len(back) = Len(group) - k
      /\ \A i \in 1..Len(back) : back[i] = group[k + i]
  <2>1. \A i \in (k + 1)..Len(group) : group[i] \in Plan
    OBVIOUS
  <2>2. /\ back \in Seq(Plan)
        /\ Len(back) = IF k + 1 <= Len(group) THEN Len(group) - (k + 1) + 1 ELSE 0
        /\ \A i \in 1..(Len(group) - (k + 1) + 1) : back[i] = group[(k + 1) + i - 1]
    BY <1>3, <2>1, SubSeqProperties
  <2>. QED
    BY <2>2
<1>5. PICK n \in Nat : n = group[k].children * l
  <2>1. group[k] \in Plan
    OBVIOUS
  <2>. QED
    BY <2>1, LimitAssumption DEF Plan, Child
<1> DEFINE First == {k} \X (1..n)
           Behind == {s \in PlanSlots(group, l) : s[1] > k}
<1>6. n <= MaxChildren * l
  <2>0. group[k] \in Plan
    OBVIOUS
  <2>1. group[k].children \in Nat /\ group[k].children <= MaxChildren /\ l \in Nat
    BY <2>0, LimitAssumption DEF Plan, Child
  <2>. QED
    BY <1>5, <2>1, ProductGrows, LimitAssumption
<1>7. First \in SUBSET PlanSlots(group, l) /\ First \cap Behind = {}
      /\ Behind \in SUBSET PlanSlots(group, l)
  <2>1. ASSUME NEW s \in First PROVE s \in PlanSlots(group, l)
    <3>1. s = <<k, s[2]>> /\ s[1] = k /\ s[2] \in 1..n
      OBVIOUS
    <3>2. MaxChildren * l \in Int
      BY LimitAssumption
    <3>3. s[2] \in 1..(MaxChildren * l) /\ k \in DOMAIN group
      BY <1>6, <3>1, <3>2
    <3>. QED
      BY <1>5, <3>1, <3>3 DEF PlanSlots
  <2>. QED
    BY <2>1
<1>8. IsFiniteSet(PlanSlots(group, l)) /\ GroupSlots(group, l) \in Nat /\ GroupSlots(back, l) \in Nat
  BY <1>4, PlanSlotsFinite, LimitAssumption
<1>9. IsFiniteSet(Behind) /\ Cardinality(Behind) \in Nat
  BY <1>7, <1>8, FS_Subset, FS_CardinalityType
<1>10. GroupSlots(back, l) <= Cardinality(Behind)
  <2> DEFINE f == [s \in PlanSlots(back, l) |-> <<s[1] + k, s[2]>>]
  <2>1. ASSUME NEW s \in PlanSlots(back, l) PROVE f[s] \in Behind
    <3>1. /\ s[1] \in 1..Len(back) /\ s[2] \in 1..(MaxChildren * l)
          /\ s[2] <= back[s[1]].children * l
      BY <1>4 DEF PlanSlots
    <3>2. s[1] \in Int /\ 1 <= s[1] /\ s[1] <= Len(group) - k /\ k \in 1..Len(group) /\ Len(group) \in Nat
      BY <1>4, <3>1
    <3>3. s[1] + k \in 1..Len(group) /\ s[1] + k > k /\ s[1] + k = k + s[1]
      BY <3>2
    <3>4. s[1] + k \in DOMAIN group /\ back[s[1]] = group[s[1] + k]
      BY <1>4, <3>1, <3>3
    <3>. QED
      BY <3>1, <3>3, <3>4 DEF PlanSlots
  <2>2. ASSUME NEW s \in PlanSlots(back, l), NEW t \in PlanSlots(back, l), f[s] = f[t]
        PROVE  s = t
    <3>1. /\ s[1] \in 1..Len(back) /\ t[1] \in 1..Len(back)
          /\ s = <<s[1], s[2]>> /\ t = <<t[1], t[2]>>
      BY <1>4 DEF PlanSlots
    <3>2. s[1] + k = t[1] + k /\ s[2] = t[2]
      BY <2>2
    <3>3. s[1] = t[1]
      BY <3>1, <3>2
    <3>. QED
      BY <3>1, <3>2, <3>3
  <2>3. f \in Injection(PlanSlots(back, l), Behind)
    BY <2>1, <2>2 DEF Injection, IsInjective
  <2>. QED
    BY <1>9, <2>3, FS_Injection DEF GroupSlots
<1> HIDE DEF First, Behind
<1>11. IsFiniteSet(First) /\ Cardinality(First) = n
  BY Block DEF First
<1>12. /\ IsFiniteSet(First \cup Behind)
       /\ Cardinality(First \cup Behind)
            = Cardinality(First) + Cardinality(Behind) - Cardinality(First \cap Behind)
  BY <1>9, <1>11, FS_Union
<1>13. Cardinality(First \cap Behind) = 0
  BY <1>7, FS_EmptySet
<1>14. Cardinality(First \cup Behind) <= GroupSlots(group, l)
  BY <1>7, <1>8, FS_Subset DEF GroupSlots
<1>15. n + GroupSlots(back, l) <= GroupSlots(group, l)
  BY <1>8, <1>9, <1>10, <1>11, <1>12, <1>13, <1>14
<1>16. Head(rest) \in Plan
  BY <1>3
<1>. QED
  BY <1>2, <1>3, <1>4, <1>5, <1>15, <1>16
-------------------------------------------------------------------------------
\* What the execution of a handler relies on between its awaits.
Started ==
  /\ \A h \in Handler : state[h] = "starting" => request[h] # Null
  /\ PartialOnlyIfOvertaken

\* The slots of a scope of users leave room for all that an execution is still to
\* start: the run it has requested and the group behind it.
Room(h, U, M) ==
  request[h].slots + GroupSlots(plans[h], level[h]) + Cardinality(Held(U)) <= M

\* An execution nobody has overtaken gets its whole group in.
GroupFits ==
  \A h \in Handler : state[h] = "starting" /\ ~overtaken[h] =>
    Room(h, User, GlobalMax) /\ Room(h, {request[h].owner}, UserMax)

ScheduledInv == ScheduledTypeOK /\ Structure /\ SlotInv /\ Started /\ GroupFits

\* The slots of both scopes, after a step.
LEMMA ScopesAfter ==
  ASSUME run' \in [RunId -> BenchRun \cup {Null}]
  PROVE  /\ Cardinality(Held(User)') = get_running_slots'
         /\ \A u \in User : Cardinality(Held({u})') = UserRunningSlots(u)'
<1>1. RunsIn(User)' = get_running_runs'
  BY DEF RunsIn, get_running_runs, BenchRun
<1>2. \A u \in User : RunsIn({u})' = RunningRunsOf(u)'
  BY DEF RunsIn, RunningRunsOf
<1>. QED
  BY <1>1, <1>2 DEF Held, get_running_slots, UserRunningSlots

\* A request as the loop makes it for its next profile: if it fits what runs now
\* it is a request as admission makes them.
LEMMA FittingRequest ==
  ASSUME NEW u \in User, NEW p \in Plan, NEW l \in Level, Fits(u, p.children * l)',
         run' \in [RunId -> BenchRun \cup {Null}],
         Cardinality(Held(User)') \in Nat, Cardinality(Held({u})') \in Nat,
         NEW new, new = Requested(u, p, l)
  PROVE  /\ new \in BenchRun /\ new.owner = u
         /\ new.slots + Cardinality(Held(User)') <= GlobalMax
         /\ new.slots + Cardinality(Held({u})') <= UserMax
<1>1. PICK n : n = p.children * l
  OBVIOUS
<1>2. n \in Nat /\ 1 <= n
  <2>1. p.children \in Nat /\ 1 <= p.children /\ l \in Nat /\ 1 <= l
    BY LimitAssumption DEF Plan, Child
  <2>2. 1 * l <= p.children * l
    BY <2>1, ProductGrows
  <2>. QED
    BY <1>1, <2>1, <2>2
<1>3. PICK g \in Nat, o \in Nat : g = get_running_slots' /\ o = UserRunningSlots(u)'
  BY ScopesAfter
<1>4. n <= UserMax - o /\ n <= GlobalMax - g
  BY <1>1, <1>3 DEF Fits
<1>5. n \in Slot /\ n + g <= GlobalMax /\ n + o <= UserMax
  <2>1. UserMax \in Nat /\ GlobalMax \in Nat
    BY LimitAssumption
  <2>2. g \in Nat /\ o \in Nat
    BY <1>3
  <2>3. n <= GlobalMax /\ n + g <= GlobalMax /\ n + o <= UserMax
    BY <1>2, <1>4, <2>1, <2>2
  <2>. QED
    BY <1>2, <2>1, <2>3 DEF Slot
<1>6. p.children \in Child
  BY DEF Plan
<1>7. new \in BenchRun /\ new.owner = u /\ new.slots = n
  BY <1>1, <1>5, <1>6 DEF Requested, BenchRun
<1>. QED
  BY <1>3, <1>5, <1>7, ScopesAfter

\* The run of h is registered and the loop goes on with a request that fits.
GoesOn(h, r, new) ==
  /\ Register(r, request[h])
  /\ request' = [request EXCEPT ![h] = new]
  /\ new.owner = request[h].owner
  /\ new.slots + Cardinality(Held(User)') <= GlobalMax
  /\ new.slots + Cardinality(Held({new.owner})') <= UserMax

\* For admission, a turn of the loop is the end of one start, and maybe the
\* beginning of another.
LEMMA StartNextStep ==
  ASSUME ScheduledTypeOK, Structure, Started, NEW h \in Handler, NEW r \in RunId, StartNext(h, r),
         NEW rest, rest = FromValid(plans[h])
  PROVE  \/ /\ Start(h, r) /\ Forget(h)
            /\ \E s \in {"waiting", "short"} : state' = [state EXCEPT ![h] = s]
         \/ \E new \in BenchRun :
              /\ GoesOn(h, r, new)
              /\ UNCHANGED <<state, level>>
              /\ rest # <<>> /\ plans' = [plans EXCEPT ![h] = Tail(rest)]
              /\ new.slots = Head(rest).children * level[h]
<1>1. /\ request[h] \in BenchRun /\ request[h] # Null /\ Register(r, request[h])
      /\ plans[h] \in Seq(Plan) /\ level[h] \in Level
  BY DEF StartNext, Started, ScheduledTypeOK, TypeOK
<1>2. PICK u, l : u = request[h].owner /\ l = level[h]
  OBVIOUS
<1>3. CASE rest = <<>> \/ ~ Fits(u, Head(rest).children * l)'
  <2>1. request' = [request EXCEPT ![h] = Null] /\ Forget(h)
    BY <1>2, <1>3 DEF StartNext
  <2>2. \E s \in {"waiting", "short"} : state' = [state EXCEPT ![h] = s]
    BY <1>2, <1>3 DEF StartNext
  <2>. QED
    BY <1>1, <2>1, <2>2 DEF Start
<1>4. CASE rest # <<>> /\ Fits(u, Head(rest).children * l)'
  <2>1. /\ request' = [request EXCEPT ![h] = Requested(u, Head(rest), l)]
        /\ plans' = [plans EXCEPT ![h] = Tail(rest)]
        /\ UNCHANGED <<state, level>>
    BY <1>2, <1>4 DEF StartNext
  <2>2. Head(rest) \in Plan /\ l \in Level /\ u \in User
    BY <1>1, <1>2, <1>4, GroupCoversRest DEF BenchRun
  <2>3. run' \in [RunId -> BenchRun \cup {Null}]
    BY <1>1 DEF Register, ScheduledTypeOK, TypeOK
  <2>4. IndInv
    BY DEF IndInv, ScheduledTypeOK
  <2>5. \A U : Cardinality(Held(U)') \in Nat
    BY <1>1, <2>4, RegisterHolds
  <2>6. PICK new : new = Requested(u, Head(rest), l)
    OBVIOUS
  <2>7. /\ new \in BenchRun /\ new.owner = u
        /\ new.slots + Cardinality(Held(User)') <= GlobalMax
        /\ new.slots + Cardinality(Held({u})') <= UserMax
    BY <1>4, <2>2, <2>3, <2>5, <2>6, FittingRequest
  <2>8. new.slots = Head(rest).children * l
    BY <2>6 DEF Requested
  <2>9. GoesOn(h, r, new)
    BY <1>1, <1>2, <2>1, <2>6, <2>7 DEF GoesOn
  <2>. QED
    BY <1>2, <1>4, <2>1, <2>7, <2>8, <2>9
<1>. QED
  BY <1>3, <1>4

\* For admission, every step is one of its own or a stutter, but for the loop that
\* goes on and the timeout that ends several benchmarks at once.
LEMMA AdmissionSteps ==
  ASSUME ScheduledTypeOK, Structure, Started, [ScheduledNext]_allVars
  PROVE  \/ [Next]_vars
         \/ \E h \in Handler, r \in RunId, new \in BenchRun : GoesOn(h, r, new) /\ request[h] # Null
         \/ \E h \in Handler : TimeoutCancels(h)
<1>1. ASSUME NEW h \in Handler, NEW u \in User, NEW c \in Child, NEW raw, RequestRun(h, u, c, raw)
      PROVE  Next
  <2>1. Highest(raw) \in Level
    BY HighestIsLevel
  <2>. QED
    BY <1>1, <2>1 DEF RequestRun, Next
<1>2. ASSUME NEW h \in Handler, NEW u \in User, NEW group \in Groups, NEW raw,
             BeginExecution(h, u, group, raw)
      PROVE  Next
  <2>1. PICK rest, l : rest = FromValid(group) /\ l = Highest(raw)
    OBVIOUS
  <2>2. group \in Seq(Plan) /\ l \in Level
    BY <2>1, HighestIsLevel, ScheduledAssumption DEF Groups
  <2>3. rest # <<>> /\ Admit(h, u, Head(rest).children, l)
    BY <1>2, <2>1 DEF BeginExecution
  <2>4. Head(rest).children \in Child
    BY <2>1, <2>2, <2>3, GroupCoversRest DEF Plan
  <2>. QED
    BY <2>2, <2>3, <2>4 DEF Next
<1>3. ASSUME NEW h \in Handler, RequestFails(h) PROVE Next
  BY <1>3 DEF RequestFails, Next
<1>4. ASSUME NEW h \in Handler, StartingFails(h) PROVE Next
  <2>1. SettingsFail(h)
    BY <1>4 DEF StartingFails, SettingsFail, Started
  <2>. QED
    BY <2>1 DEF Next
<1>5. ASSUME NEW h \in Handler, AllEnded(h) PROVE UNCHANGED vars
  BY <1>5 DEF AllEnded
<1>6. ASSUME NEW h \in Handler, NEW r \in RunId, RequestStarts(h, r) PROVE Next
  BY <1>6 DEF RequestStarts, Next
<1>7. ASSUME NEW h \in Handler, NEW r \in RunId, StartNext(h, r)
      PROVE  Next \/ \E new \in BenchRun : GoesOn(h, r, new) /\ request[h] # Null
  <2>1. request[h] # Null
    BY <1>7 DEF StartNext, Started
  <2>. QED
    BY <1>7, <2>1, StartNextStep DEF Next
<1>8. ASSUME Manage PROVE Next
  BY <1>8 DEF Manage, Next
<1>9. ASSUME UNCHANGED allVars PROVE UNCHANGED vars
  BY <1>9 DEF allVars
<1>. QED
  BY <1>1, <1>2, <1>3, <1>4, <1>5, <1>6, <1>7, <1>8, <1>9 DEF ScheduledNext

\* The tasks of an execution that times out end together: none becomes busy, and
\* those that still execute are the busy ones.
LEMMA TimeoutQuiet ==
  ASSUME IndInv, NEW h \in Handler, TimeoutCancels(h)
  PROVE  /\ UNCHANGED <<request, run>>
         /\ IndInv'
         /\ \A x \in TaskId : Busy(x)' => Busy(x)
<1> USE NullAssumption DEF IndInv, TypeOK
<1>1. /\ UNCHANGED <<request, run>> /\ executing' = executing \ Own(h)
      /\ task' = [x \in TaskId |-> IF x \in Own(h) /\ task[x] # Null
                                   THEN [task[x] EXCEPT !.status = "idle"] ELSE task[x]]
  BY DEF TimeoutCancels
<1>2. ASSUME NEW x \in TaskId
      PROVE  /\ task'[x] \in BenchTask \cup {Null}
             /\ task'[x] = Null <=> task[x] = Null
             /\ Busy(x)' <=> Busy(x) /\ x \notin Own(h)
  <2>1. CASE x \in Own(h) /\ task[x] # Null
    <3>1. task[x] \in BenchTask /\ task'[x] = [task[x] EXCEPT !.status = "idle"]
      BY <1>1, <2>1
    <3>2. task'[x] \in BenchTask /\ task'[x].status = "idle"
      BY <3>1 DEF BenchTask
    <3>. QED
      BY <2>1, <3>1, <3>2 DEF Busy
  <2>2. CASE ~(x \in Own(h) /\ task[x] # Null)
    <3>1. task'[x] = task[x]
      BY <1>1, <2>2
    <3>2. x \in Own(h) => ~Busy(x)
      BY <2>2 DEF Busy
    <3>. QED
      BY <3>1, <3>2 DEF Busy
  <2>. QED
    BY <2>1, <2>2
<1>3. TypeOK'
  BY <1>1, <1>2
<1>4. Structure'
  <2>1. \A r \in RunId : ChildrenOf(r)' = ChildrenOf(r)
    BY <1>1 DEF ChildrenOf
  <2>2. \A x \in TaskId : x \in executing' <=> Busy(x)'
    BY <1>1, <1>2 DEF Structure
  <2>3. \A x \in TaskId : task'[x] # Null => run'[x[1]] # Null /\ x[2] <= run'[x[1]].children
    BY <1>1, <1>2 DEF Structure
  <2>4. ASSUME NEW r \in RunId, run'[r] # Null PROVE \E x \in ChildrenOf(r)' : task'[x] # Null
    <3>1. PICK x \in ChildrenOf(r) : task[x] # Null
      BY <1>1, <2>4 DEF Structure
    <3>2. x \in TaskId
      BY DEF ChildrenOf
    <3>. QED
      BY <1>2, <2>1, <3>1, <3>2
  <2>. QED
    BY <2>2, <2>3, <2>4 DEF Structure
<1>. QED
  BY <1>1, <1>2, <1>3, <1>4

\* The loop goes on: the new run is registered and the next request is typed.
LEMMA GoesOnStep ==
  ASSUME IndInv, SlotInv, NEW h \in Handler, NEW r \in RunId, NEW new \in BenchRun,
         GoesOn(h, r, new), request[h] # Null
  PROVE  IndInv' /\ SlotInv'
<1> USE DEF IndInv, TypeOK
<1>1. /\ request[h] \in BenchRun /\ Register(r, request[h])
      /\ request' = [request EXCEPT ![h] = new]
  BY DEF GoesOn
<1>2. TypeOK'
  BY <1>1 DEF Register, BenchTask
<1>3. Structure'
  BY <1>1, RegisterKeepsStructure
<1>4. ASSUME NEW U \in SUBSET User, NEW M \in Nat, Bound(U, M),
             new.owner \in U => new.slots + Cardinality(Held(U)') <= M
      PROVE  Bound(U, M)'
  <2>1. /\ request[h].owner \notin U => Held(U)' \in SUBSET Held(U)
        /\ Cardinality(Held(U)') \in Nat
    BY <1>1, RegisterHolds
  <2>2. CASE new.owner \in U
    <3>1. \A g \in InFlight(U) : request[g].slots <= M
      BY <1>4 DEF Bound
    <3>. QED
      BY <1>1, <1>4, <2>1, <2>2, <3>1, NewRequestKeepsBound
  <2>3. CASE new.owner \notin U
    <3>1. request[h].owner \notin U /\ new.owner = request[h].owner
      BY <2>3 DEF GoesOn
    <3>2. request'[h] = new /\ \A g \in Handler \ {h} : request'[g] = request[g]
      BY <1>1
    <3>3. /\ InFlight(U)' = InFlight(U) /\ h \notin InFlight(U)
          /\ \A g \in InFlight(U) : request'[g] = request[g]
      BY <2>3, <3>1, <3>2 DEF InFlight
    <3>4. Pending(U)' = Pending(U)
      BY <3>3 DEF Pending
    <3>5. \A g \in InFlight(U)' : request'[g].slots <= M
      BY <1>4, <3>3 DEF Bound
    <3>. QED
      BY <1>4, <2>1, <3>1, <3>4, <3>5, ShrinkKeepsBound
  <2>. QED
    BY <2>2, <2>3
<1>5. Bound(User, GlobalMax)'
  <2>1. new.slots + Cardinality(Held(User)') <= GlobalMax /\ GlobalMax \in Nat
    BY LimitAssumption DEF GoesOn
  <2>. QED
    BY <1>4, <2>1 DEF SlotInv
<1>6. ASSUME NEW v \in User PROVE Bound({v}, UserMax)'
  <2>1. new.owner \in {v} => new.slots + Cardinality(Held({v})') <= UserMax
    <3>1. new.slots + Cardinality(Held({new.owner})') <= UserMax
      BY DEF GoesOn
    <3>2. new.owner \in {v} => Held({v})' = Held({new.owner})'
      OBVIOUS
    <3>. QED
      BY <3>1, <3>2
  <2>2. UserMax \in Nat /\ {v} \in SUBSET User
    BY LimitAssumption
  <2>. QED
    BY <1>4, <2>1, <2>2 DEF SlotInv
<1>. QED
  BY <1>2, <1>3, <1>5, <1>6 DEF SlotInv

\* Whatever a step of the executions does to the runs, admission's own invariants
\* hold after it.
LEMMA AdmissionKept ==
  ASSUME ScheduledTypeOK, Structure, SlotInv, Started, [ScheduledNext]_allVars
  PROVE  IndInv' /\ SlotInv'
<1>1. IndInv
  BY DEF IndInv, ScheduledTypeOK
<1>2. ASSUME [Next]_vars PROVE IndInv' /\ SlotInv'
  BY <1>1, <1>2, TypeInvariance, StructureStep, SlotInvStep DEF IndInv
<1>3. ASSUME NEW h \in Handler, NEW r \in RunId, NEW new \in BenchRun, GoesOn(h, r, new), request[h] # Null
      PROVE  IndInv' /\ SlotInv'
  BY <1>1, <1>3, GoesOnStep
<1>4. ASSUME NEW h \in Handler, TimeoutCancels(h) PROVE IndInv' /\ SlotInv'
  <2>1. UNCHANGED <<request, run>> /\ IndInv' /\ \A x \in TaskId : Busy(x)' => Busy(x)
    BY <1>1, <1>4, TimeoutQuiet
  <2>2. \A U, M : M \in Nat /\ Bound(U, M) => Bound(U, M)'
    BY <2>1, QuietKeepsBound
  <2>. QED
    BY <2>1, <2>2, LimitAssumption DEF SlotInv
<1>. QED
  BY <1>2, <1>3, <1>4, AdmissionSteps

\* What an execution keeps of its own is well formed.
LEMMA ExecutionsTyped ==
  ASSUME ScheduledTypeOK, Structure, Started, [ScheduledNext]_allVars
  PROVE  /\ state' \in [Handler -> Working \cup {"none", "short", "failed", "over", "timeout"}]
         /\ plans' \in [Handler -> Seq(Plan)]
         /\ level' \in [Handler -> Level]
         /\ mine' \in [Handler -> SUBSET RunId]
         /\ overtaken' \in [Handler -> BOOLEAN]
<1> USE DEF ScheduledTypeOK, Working
<1>1. ASSUME NEW h \in Handler, Forget(h)
      PROVE  plans' \in [Handler -> Seq(Plan)] /\ level' \in [Handler -> Level]
  <2>1. <<>> \in Seq(Plan) /\ 1 \in Level
    BY ScheduledAssumption
  <2>. QED
    BY <1>1, <2>1 DEF Forget
<1>2. \A h \in Handler : Overtake(h) \in [Handler -> BOOLEAN]
  BY DEF Overtake
<1>3. ASSUME NEW h \in Handler, NEW u \in User, NEW group \in Groups, NEW raw,
             BeginExecution(h, u, group, raw)
      PROVE  /\ state' \in [Handler -> Working \cup {"none", "short", "failed", "over", "timeout"}]
             /\ plans' \in [Handler -> Seq(Plan)]
             /\ level' \in [Handler -> Level]
             /\ mine' \in [Handler -> SUBSET RunId]
             /\ overtaken' \in [Handler -> BOOLEAN]
  <2>1. PICK rest, l : rest = FromValid(group) /\ l = Highest(raw)
    OBVIOUS
  <2>2. group \in Seq(Plan) /\ l \in Level
    BY <2>1, HighestIsLevel, ScheduledAssumption DEF Groups
  <2>3. /\ rest # <<>>
        /\ state' = [state EXCEPT ![h] = "starting"]
        /\ plans' = [plans EXCEPT ![h] = Tail(rest)]
        /\ level' = [level EXCEPT ![h] = l]
        /\ mine' = [mine EXCEPT ![h] = {}]
        /\ overtaken' = [overtaken EXCEPT ![h] = FALSE]
    BY <1>3, <2>1 DEF BeginExecution
  <2>4. Tail(rest) \in Seq(Plan)
    BY <2>1, <2>2, <2>3, GroupCoversRest
  <2>. QED
    BY <2>2, <2>3, <2>4
<1>4. ASSUME NEW h \in Handler, NEW r \in RunId, StartNext(h, r)
      PROVE  /\ state' \in [Handler -> Working \cup {"none", "short", "failed", "over", "timeout"}]
             /\ plans' \in [Handler -> Seq(Plan)]
             /\ level' \in [Handler -> Level]
             /\ mine' \in [Handler -> SUBSET RunId]
             /\ overtaken' \in [Handler -> BOOLEAN]
  <2>1. PICK rest : rest = FromValid(plans[h])
    OBVIOUS
  <2>2. rest # <<>> => Tail(rest) \in Seq(Plan)
    BY <2>1, GroupCoversRest
  <2>3. /\ \/ mine' = [mine EXCEPT ![h] = @ \cup {r}]
           \/ mine' = [mine EXCEPT ![h] = {}]
        /\ overtaken' = Overtake(h)
    BY <1>4 DEF StartNext
  <2>4. mine' \in [Handler -> SUBSET RunId] /\ overtaken' \in [Handler -> BOOLEAN]
    BY <1>2, <2>3
  <2>5. /\ state' \in [Handler -> Working \cup {"none", "short", "failed", "over", "timeout"}]
        /\ plans' \in [Handler -> Seq(Plan)]
        /\ level' \in [Handler -> Level]
    <3>1. CASE Forget(h) /\ \E s \in {"waiting", "short"} : state' = [state EXCEPT ![h] = s]
      BY <1>1, <3>1
    <3>2. CASE UNCHANGED <<state, level>> /\ rest # <<>> /\ plans' = [plans EXCEPT ![h] = Tail(rest)]
      BY <2>2, <3>2
    <3>. QED
      BY <1>4, <2>1, <3>1, <3>2, StartNextStep
  <2>. QED
    BY <2>4, <2>5
<1>5. CASE \E h \in Handler, u \in User, c \in Child, raw \in RawLevels : RequestRun(h, u, c, raw)
  BY <1>5 DEF RequestRun, execVars
<1>6. CASE \E h \in Handler : RequestFails(h) \/ AllEnded(h) \/ TimeoutCancels(h)
  BY <1>6 DEF RequestFails, AllEnded, TimeoutCancels, execVars
<1>7. CASE \E h \in Handler : StartingFails(h)
  BY <1>1, <1>7 DEF StartingFails
<1>8. CASE \E h \in Handler, r \in RunId : RequestStarts(h, r)
  BY <1>2, <1>8 DEF RequestStarts
<1>9. CASE Manage
  BY <1>9 DEF Manage
<1>10. CASE UNCHANGED allVars
  BY <1>10 DEF allVars, execVars
<1>. QED
  BY <1>3, <1>4, <1>5, <1>6, <1>7, <1>8, <1>9, <1>10 DEF ScheduledNext

\* The workers that are left behind belong to tasks.
LEMMA StraysTyped ==
  ASSUME ScheduledTypeOK, [ScheduledNext]_allVars
  PROVE  stray' \subseteq TaskId
<1> USE DEF ScheduledTypeOK, TypeOK, Own, LeftBy
<1>1. ASSUME NEW h \in Handler, TimeoutCancels(h) PROVE stray' \subseteq TaskId
  BY <1>1 DEF TimeoutCancels
<1>2. CASE Manage
  BY <1>2 DEF Manage
<1>3. ASSUME NEW h \in Handler, NEW u, NEW group, NEW raw, BeginExecution(h, u, group, raw)
      PROVE  stray' \subseteq TaskId
  BY <1>3 DEF BeginExecution
<1>4. ASSUME NEW h \in Handler, NEW r \in RunId, RequestStarts(h, r) \/ StartNext(h, r)
      PROVE  stray' = stray
  BY <1>4 DEF RequestStarts, StartNext
<1>5. CASE stray' = stray
  BY <1>5
<1>. QED
  BY <1>1, <1>2, <1>3, <1>4, <1>5
     DEF ScheduledNext, RequestRun, RequestFails, StartingFails, AllEnded, execVars, allVars

\* What an execution is still to start fits if less is held and nobody touches it.
LEMMA RoomKept ==
  ASSUME ScheduledTypeOK, Started, GroupFits, NEW g \in Handler,
         state[g] = "starting", ~ overtaken[g],
         request'[g] = request[g], plans'[g] = plans[g], level'[g] = level[g],
         \A U : Held(U)' \in SUBSET Held(U)
  PROVE  Room(g, User, GlobalMax)' /\ Room(g, {request[g].owner}, UserMax)'
<1>1. /\ request[g].slots \in Nat /\ GroupSlots(plans[g], level[g]) \in Nat
  <2>1. request[g] \in BenchRun /\ plans[g] \in Seq(Plan) /\ level[g] \in Nat
    BY LimitAssumption DEF Started, ScheduledTypeOK, TypeOK
  <2>2. request[g].slots \in Nat
    BY <2>1 DEF BenchRun, Slot
  <2>. QED
    BY <2>1, <2>2, PlanSlotsFinite
<1>2. /\ \A U : Cardinality(Held(U)') <= Cardinality(Held(U))
      /\ \A U : Cardinality(Held(U)) \in Nat /\ Cardinality(Held(U)') \in Nat
  <2>1. \A U : IsFiniteSet(Held(U)) /\ Held(U)' \in SUBSET Held(U)
    BY HeldFinite
  <2>. QED
    BY <2>1, FS_Subset, FS_CardinalityType
<1>3. Room(g, User, GlobalMax) /\ Room(g, {request[g].owner}, UserMax)
  BY DEF GroupFits
<1>4. PICK a \in Nat : a = request[g].slots + GroupSlots(plans[g], level[g])
  BY <1>1
<1>5. a = request'[g].slots + GroupSlots(plans[g], level[g])'
  BY <1>4 DEF GroupSlots, PlanSlots
<1>6. ASSUME NEW U, NEW M \in Nat, Room(g, U, M)
      PROVE  request'[g].slots + GroupSlots(plans[g], level[g])' + Cardinality(Held(U)') <= M
  <2>1. a + Cardinality(Held(U)) <= M
    BY <1>4, <1>6 DEF Room
  <2>. QED
    BY <1>2, <1>5, <2>1
<1>. QED
  BY <1>3, <1>6, LimitAssumption DEF Room

\* A group that fits leaves room for everything behind its first run.
LEMMA BeginFits ==
  ASSUME ScheduledTypeOK, NEW h \in Handler, NEW u \in User, NEW group \in Groups, NEW raw,
         BeginExecution(h, u, group, raw)
  PROVE  Room(h, User, GlobalMax)' /\ Room(h, {request[h].owner}, UserMax)'
<1>1. PICK rest, l : rest = FromValid(group) /\ l = Highest(raw)
  OBVIOUS
<1>2. group \in Seq(Plan) /\ l \in Level /\ l \in Nat
  BY <1>1, HighestIsLevel, ScheduledAssumption DEF Groups
<1>3. PICK n, back : n = Head(rest).children * l /\ back = Tail(rest)
  OBVIOUS
<1>4. /\ rest # <<>> /\ Fits(u, GroupSlots(group, l)) /\ UNCHANGED <<run, task>>
      /\ request' = [request EXCEPT ![h] =
                       [owner |-> u, children |-> Head(rest).children, slots |-> n]]
      /\ plans' = [plans EXCEPT ![h] = back]
      /\ level' = [level EXCEPT ![h] = l]
  BY <1>1, <1>3 DEF BeginExecution, Admit
<1>5. /\ back \in Seq(Plan) /\ n \in Nat
      /\ n + GroupSlots(back, l) <= GroupSlots(group, l)
      /\ GroupSlots(back, l) \in Nat /\ GroupSlots(group, l) \in Nat
  BY <1>1, <1>2, <1>3, <1>4, GroupCoversRest, PlanSlotsFinite
<1>6. /\ request'[h].slots = n /\ request'[h].owner = u
      /\ plans'[h] = back /\ level'[h] = l
  BY <1>4 DEF ScheduledTypeOK, TypeOK
<1>7. \A U : Held(U)' = Held(U)
  BY <1>4 DEF Held, SlotsOf, RunsIn, get_running_runs, ChildrenOf, Busy
<1>8. PICK k \in Nat, m \in Nat : k = GroupSlots(back, l) /\ m = GroupSlots(group, l)
  BY <1>5
<1>9. GroupSlots(plans[h], level[h])' = k
  BY <1>6, <1>8 DEF GroupSlots, PlanSlots
<1>10. /\ Cardinality(Held(User)) = get_running_slots
       /\ Cardinality(Held({u})) = UserRunningSlots(u)
       /\ Cardinality(Held(User)) \in Nat /\ Cardinality(Held({u})) \in Nat
  BY Scopes, HeldFinite DEF ScheduledTypeOK
<1>11. m <= UserMax - Cardinality(Held({u})) /\ m <= GlobalMax - Cardinality(Held(User))
  BY <1>4, <1>8, <1>10 DEF Fits
<1>12. UserMax \in Nat /\ GlobalMax \in Nat
  BY LimitAssumption
<1>13. n + k <= m
  BY <1>5, <1>8
<1>14. n + k + Cardinality(Held(User)) <= GlobalMax /\ n + k + Cardinality(Held({u})) <= UserMax
  BY <1>5, <1>8, <1>10, <1>11, <1>12, <1>13
<1>. QED
  BY <1>6, <1>7, <1>9, <1>14 DEF Room

\* A turn of the loop takes one run out of the group: what it was to start is what
\* its run now holds, what it asks for next and what is left.
LEMMA TurnFits ==
  ASSUME ScheduledTypeOK, Structure, Started, NEW h \in Handler, NEW r \in RunId,
         NEW U, NEW M \in Nat, Room(h, U, M), Register(r, request[h]), request[h] # Null,
         NEW rest, rest = FromValid(plans[h]), rest # <<>>
  PROVE  /\ Head(rest).children * level[h] + GroupSlots(Tail(rest), level[h]) + Cardinality(Held(U)') <= M
         /\ Head(rest).children * level[h] \in Nat /\ GroupSlots(Tail(rest), level[h]) \in Nat
         /\ Cardinality(Held(U)') \in Nat
<1>1. request[h] \in BenchRun /\ plans[h] \in Seq(Plan) /\ level[h] \in Level /\ level[h] \in Nat
  BY LimitAssumption DEF ScheduledTypeOK, TypeOK
<1>2. /\ Cardinality(Held(U)') <= Cardinality(Held(U)) + request[h].slots
      /\ Cardinality(Held(U)) \in Nat /\ Cardinality(Held(U)') \in Nat /\ request[h].slots \in Nat
  BY <1>1, RegisterHolds DEF IndInv, ScheduledTypeOK
<1>3. /\ Tail(rest) \in Seq(Plan) /\ Head(rest).children * level[h] \in Nat
      /\ Head(rest).children * level[h] + GroupSlots(Tail(rest), level[h]) <= GroupSlots(plans[h], level[h])
  BY <1>1, GroupCoversRest
<1>4. GroupSlots(Tail(rest), level[h]) \in Nat /\ GroupSlots(plans[h], level[h]) \in Nat
  BY <1>1, <1>3, PlanSlotsFinite
<1>5. PICK n \in Nat, k \in Nat, m \in Nat :
        /\ n = Head(rest).children * level[h] /\ k = GroupSlots(Tail(rest), level[h])
        /\ m = GroupSlots(plans[h], level[h])
  BY <1>3, <1>4
<1>6. n + k <= m
  BY <1>3, <1>5
<1>7. request[h].slots + m + Cardinality(Held(U)) <= M
  BY <1>5 DEF Room
<1>8. n + k + Cardinality(Held(U)') <= M
  BY <1>2, <1>6, <1>7
<1>. QED
  BY <1>2, <1>5, <1>8

\* The steps that register no run leave every scope with what it holds, or less.
LEMMA OnlyStartsHoldMore ==
  ASSUME ScheduledTypeOK, Structure, Started, [ScheduledNext]_allVars,
         ~ \E h \in Handler, r \in RunId : RequestStarts(h, r) \/ StartNext(h, r)
  PROVE  \A U : Held(U)' \in SUBSET Held(U)
<1>1. ASSUME UNCHANGED <<run, task>> PROVE \A U : Held(U)' = Held(U)
  BY <1>1 DEF Held, SlotsOf, RunsIn, get_running_runs, ChildrenOf, Busy
<1>2. CASE \E h \in Handler, u \in User, c \in Child, raw \in RawLevels : RequestRun(h, u, c, raw)
  BY <1>1, <1>2 DEF RequestRun, Admit
<1>3. CASE \E h \in Handler, u \in User, group \in Groups, raw \in RawLevels : BeginExecution(h, u, group, raw)
  BY <1>1, <1>3 DEF BeginExecution, Admit
<1>4. CASE \E h \in Handler : RequestFails(h) \/ StartingFails(h) \/ AllEnded(h)
  BY <1>1, <1>4 DEF RequestFails, SettingsFail, StartingFails, AllEnded, vars
<1>5. ASSUME NEW h \in Handler, TimeoutCancels(h) PROVE \A U : Held(U)' \in SUBSET Held(U)
  <2>1. IndInv
    BY DEF IndInv, ScheduledTypeOK
  <2>2. UNCHANGED run /\ \A x \in TaskId : Busy(x)' => Busy(x)
    BY <1>5, <2>1, TimeoutQuiet
  <2>. QED
    BY <2>2, QuietHolds
<1>6. ASSUME Manage PROVE \A U : Held(U)' \in SUBSET Held(U)
  <2>1. /\ \A r \in RunId : run'[r] # Null => run'[r] = run[r]
        /\ \A x \in TaskId : Busy(x)' => Busy(x)
    BY <1>6, QuietSteps DEF Manage, ScheduledTypeOK
  <2>. QED
    BY <2>1, QuietHolds
<1>7. CASE UNCHANGED allVars
  BY <1>1, <1>7 DEF allVars, vars
<1>. QED
  BY <1>2, <1>3, <1>4, <1>5, <1>6, <1>7 DEF ScheduledNext

\* A run that is started overtakes everybody else between its check and its end.
LEMMA StartsOvertake ==
  ASSUME NEW g \in Handler, state[g] = "starting", NEW h \in Handler, NEW r \in RunId,
         RequestStarts(h, r) \/ (StartNext(h, r) /\ h # g)
  PROVE  overtaken'[g]
<1>1. h # g /\ overtaken' = Overtake(h)
  BY DEF RequestStarts, StartNext, Working
<1>. QED
  BY <1>1 DEF Overtake

\* What an execution carries over its await is as it was.
LeftAlone(g) ==
  /\ state[g] = "starting" /\ request'[g] = request[g]
  /\ plans'[g] = plans[g] /\ level'[g] = level[g]
  /\ ~ overtaken'[g] => ~ overtaken[g]

\* The steps of somebody else leave it alone.
LEMMA OthersLeaveAlone ==
  ASSUME ScheduledTypeOK, Structure, Started, [ScheduledNext]_allVars, NEW g \in Handler,
         state'[g] = "starting",
         ~ \E u \in User, group \in Groups, raw \in RawLevels : BeginExecution(g, u, group, raw),
         ~ \E r \in RunId : StartNext(g, r)
  PROVE  LeftAlone(g)
<1> USE DEF ScheduledTypeOK, TypeOK, Working, LeftAlone
<1>1. ASSUME NEW h \in Handler, state[h] \notin Working, UNCHANGED <<state, plans, level>>,
             overtaken' = overtaken \/ overtaken' = Overtake(h),
             \A f \in Handler \ {h} : request'[f] = request[f]
      PROVE  LeftAlone(g)
  <2>1. state[g] = "starting" /\ h # g
    BY <1>1
  <2>2. overtaken' = Overtake(h) => overtaken'[g]
    BY <2>1 DEF Overtake
  <2>. QED
    BY <1>1, <2>1, <2>2
<1>2. ASSUME NEW h \in Handler, NEW u \in User, NEW c \in Child, NEW raw, RequestRun(h, u, c, raw)
      PROVE  LeftAlone(g)
  <2>1. /\ state[h] \notin Working /\ UNCHANGED <<state, plans, level, overtaken>>
        /\ \A f \in Handler \ {h} : request'[f] = request[f]
    BY <1>2 DEF RequestRun, Admit, execVars
  <2>. QED
    BY <1>1, <2>1
<1>3. ASSUME NEW h \in Handler, RequestFails(h)
      PROVE  LeftAlone(g)
  <2>1. /\ state[h] \notin Working /\ UNCHANGED <<state, plans, level, overtaken>>
        /\ \A f \in Handler \ {h} : request'[f] = request[f]
    BY <1>3 DEF RequestFails, SettingsFail, execVars
  <2>. QED
    BY <1>1, <2>1
<1>4. ASSUME NEW h \in Handler, NEW r \in RunId, RequestStarts(h, r)
      PROVE  LeftAlone(g)
  <2>1. /\ state[h] \notin Working /\ UNCHANGED <<state, plans, level>> /\ overtaken' = Overtake(h)
        /\ \A f \in Handler \ {h} : request'[f] = request[f]
    BY <1>4 DEF RequestStarts, Start
  <2>. QED
    BY <1>1, <2>1
<1>5. ASSUME NEW h \in Handler, NEW u \in User, NEW group \in Groups, NEW raw \in RawLevels,
             BeginExecution(h, u, group, raw)
      PROVE  LeftAlone(g)
  <2>1. h # g
    BY <1>5
  <2>2. /\ state'[g] = state[g] /\ plans'[g] = plans[g] /\ level'[g] = level[g]
        /\ overtaken'[g] = overtaken[g] /\ request'[g] = request[g]
    BY <1>5, <2>1 DEF BeginExecution, Admit
  <2>. QED
    BY <2>2
<1>6. ASSUME NEW h \in Handler, NEW r \in RunId, StartNext(h, r)
      PROVE  LeftAlone(g)
  <2>1. h # g
    BY <1>6
  <2>2. /\ state'[g] = state[g] /\ plans'[g] = plans[g] /\ level'[g] = level[g]
        /\ request'[g] = request[g]
    <3>1. PICK rest : rest = FromValid(plans[h])
      OBVIOUS
    <3>2. CASE /\ Start(h, r) /\ Forget(h)
               /\ \E s \in {"waiting", "short"} : state' = [state EXCEPT ![h] = s]
      BY <2>1, <3>2 DEF Start, Forget
    <3>3. ASSUME NEW new, GoesOn(h, r, new), UNCHANGED <<state, level>>,
                 plans' = [plans EXCEPT ![h] = Tail(rest)]
          PROVE  /\ state'[g] = state[g] /\ plans'[g] = plans[g] /\ level'[g] = level[g]
                 /\ request'[g] = request[g]
      BY <2>1, <3>3 DEF GoesOn
    <3>. QED
      BY <1>6, <3>1, <3>2, <3>3, StartNextStep
  <2>3. overtaken'[g]
    BY <1>6, <2>1, <2>2, StartsOvertake
  <2>. QED
    BY <2>2, <2>3
<1>7. ASSUME NEW h \in Handler, StartingFails(h)
      PROVE  LeftAlone(g)
  <2>1. h # g
    BY <1>7 DEF StartingFails
  <2>. QED
    BY <1>7, <2>1 DEF StartingFails, Forget
<1>8. ASSUME NEW h \in Handler, AllEnded(h) \/ TimeoutCancels(h)
      PROVE  LeftAlone(g)
  <2>1. /\ \E s \in {"over", "timeout"} : state' = [state EXCEPT ![h] = s]
        /\ UNCHANGED <<request, plans, level, overtaken>>
    BY <1>8 DEF AllEnded, TimeoutCancels, vars
  <2>2. h # g
    BY <2>1
  <2>. QED
    BY <2>1, <2>2
<1>9. ASSUME Manage \/ UNCHANGED allVars
      PROVE  LeftAlone(g)
  BY <1>9 DEF Manage, Stop, Finish, Age, Cleanup, allVars, execVars, vars
<1>. QED
  BY <1>2, <1>3, <1>4, <1>5, <1>6, <1>7, <1>8, <1>9 DEF ScheduledNext

\* An execution that starts runs always carries a request.
LEMMA RequestsKept ==
  ASSUME ScheduledTypeOK, Structure, Started, [ScheduledNext]_allVars, NEW g \in Handler,
         state'[g] = "starting"
  PROVE  request'[g] # Null
<1> USE NullAssumption DEF ScheduledTypeOK, TypeOK
<1>1. ASSUME NEW u \in User, NEW group \in Groups, NEW raw, BeginExecution(g, u, group, raw)
      PROVE  request'[g] # Null
  <2>1. PICK rest, l : rest = FromValid(group) /\ l = Highest(raw)
    OBVIOUS
  <2>2. group \in Seq(Plan) /\ l \in Level
    BY <2>1, HighestIsLevel, ScheduledAssumption DEF Groups
  <2>3. rest # <<>> /\ Admit(g, u, Head(rest).children, l)
    BY <1>1, <2>1 DEF BeginExecution
  <2>4. Head(rest).children \in Child
    BY <2>1, <2>2, <2>3, GroupCoversRest DEF Plan
  <2>5. PICK c, n : c = Head(rest).children /\ n = c * l
    OBVIOUS
  <2>6. n \in Slot
    BY <2>2, <2>3, <2>4, <2>5, AdmittedSlots DEF Admit
  <2>7. request'[g] = [owner |-> u, children |-> c, slots |-> n]
    BY <2>3, <2>5 DEF Admit
  <2>8. [owner |-> u, children |-> c, slots |-> n] \in BenchRun
    BY <2>4, <2>5, <2>6 DEF BenchRun
  <2>. QED
    BY <2>7, <2>8
<1>2. ASSUME NEW r \in RunId, StartNext(g, r) PROVE request'[g] # Null
  <2>1. PICK rest : rest = FromValid(plans[g])
    OBVIOUS
  <2>2. CASE \E s \in {"waiting", "short"} : state' = [state EXCEPT ![g] = s]
    BY <2>2
  <2>3. ASSUME NEW new \in BenchRun, GoesOn(g, r, new) PROVE request'[g] # Null
    BY <2>3 DEF GoesOn
  <2>. QED
    BY <1>2, <2>1, <2>2, <2>3, StartNextStep
<1>3. CASE LeftAlone(g)
  BY <1>3 DEF LeftAlone, Started
<1>. QED
  BY <1>1, <1>2, <1>3, OthersLeaveAlone

\* A whole group that fits goes on fitting until somebody else starts a run.
LEMMA GroupFitsStep ==
  ASSUME ScheduledInv, [ScheduledNext]_allVars
  PROVE  GroupFits'
<1> USE DEF ScheduledInv
<1> SUFFICES ASSUME NEW g \in Handler, state'[g] = "starting", ~ overtaken'[g]
             PROVE  Room(g, User, GlobalMax)' /\ Room(g, {request[g].owner}, UserMax)'
  BY DEF GroupFits
<1>1. CASE \E u \in User, group \in Groups, raw \in RawLevels : BeginExecution(g, u, group, raw)
  BY <1>1, BeginFits
<1>2. ASSUME NEW r \in RunId, StartNext(g, r)
      PROVE  Room(g, User, GlobalMax)' /\ Room(g, {request[g].owner}, UserMax)'
  <2>1. PICK rest : rest = FromValid(plans[g])
    OBVIOUS
  <2>2. PICK new \in BenchRun :
          /\ GoesOn(g, r, new) /\ level' = level
          /\ rest # <<>> /\ plans' = [plans EXCEPT ![g] = Tail(rest)]
          /\ new.slots = Head(rest).children * level[g]
    <3>1. ~ \E s \in {"waiting", "short"} : state' = [state EXCEPT ![g] = s]
      BY DEF ScheduledTypeOK
    <3>. QED
      BY <1>2, <2>1, <3>1, StartNextStep
  <2>3. /\ request'[g] = new /\ plans'[g] = Tail(rest) /\ level'[g] = level[g]
        /\ new.owner = request[g].owner /\ Register(r, request[g]) /\ request[g] # Null
    BY <1>2, <2>2 DEF GoesOn, StartNext, Started, ScheduledTypeOK, TypeOK
  <2>4. Room(g, User, GlobalMax) /\ Room(g, {request[g].owner}, UserMax)
    <3>1. state[g] = "starting" /\ overtaken' = Overtake(g)
      BY <1>2 DEF StartNext
    <3>2. ~ overtaken[g]
      BY <3>1 DEF Overtake
    <3>. QED
      BY <3>1, <3>2 DEF GroupFits
  <2>5. PICK n, k : n = Head(rest).children * level[g] /\ k = GroupSlots(Tail(rest), level[g])
    OBVIOUS
  <2>6. /\ n + k + Cardinality(Held(User)') <= GlobalMax
        /\ n + k + Cardinality(Held({request[g].owner})') <= UserMax
    BY <2>1, <2>2, <2>3, <2>4, <2>5, TurnFits, LimitAssumption
  <2>7. GroupSlots(plans[g], level[g])' = k
    BY <2>3, <2>5 DEF GroupSlots, PlanSlots
  <2>8. new.slots = n /\ request'[g].owner = request[g].owner
    BY <2>2, <2>3, <2>5
  <2>. QED
    BY <2>3, <2>6, <2>7, <2>8 DEF Room
<1>3. ASSUME ~ \E u \in User, group \in Groups, raw \in RawLevels : BeginExecution(g, u, group, raw),
             ~ \E r \in RunId : StartNext(g, r)
      PROVE  Room(g, User, GlobalMax)' /\ Room(g, {request[g].owner}, UserMax)'
  <2>1. LeftAlone(g)
    BY <1>3, OthersLeaveAlone
  <2>2. ~ \E h \in Handler, r \in RunId : RequestStarts(h, r) \/ StartNext(h, r)
    BY <1>3, <2>1, StartsOvertake DEF LeftAlone
  <2>3. \A U : Held(U)' \in SUBSET Held(U)
    BY <2>2, OnlyStartsHoldMore
  <2>. QED
    BY <2>1, <2>3, RoomKept DEF LeftAlone
<1>. QED
  BY <1>1, <1>2, <1>3

\* Only an execution somebody has overtaken finds that its next run does not fit.
LEMMA ShortStep ==
  ASSUME ScheduledInv, [ScheduledNext]_allVars
  PROVE  PartialOnlyIfOvertaken'
<1> USE DEF ScheduledInv, ScheduledTypeOK
<1> SUFFICES ASSUME NEW g \in Handler, state'[g] = "short" PROVE overtaken'[g]
  BY DEF PartialOnlyIfOvertaken
<1>1. CASE state[g] = "short"
  <2>1. overtaken[g]
    BY <1>1 DEF Started, PartialOnlyIfOvertaken
  <2>2. ASSUME overtaken' = overtaken \/ \E h \in Handler : overtaken' = Overtake(h) PROVE overtaken'[g]
    BY <1>1, <2>1, <2>2 DEF Overtake
  <2>3. ASSUME NEW h \in Handler, NEW u \in User, NEW group, NEW raw, BeginExecution(h, u, group, raw)
        PROVE  overtaken'[g]
    <3>1. state' = [state EXCEPT ![h] = "starting"] /\ overtaken' = [overtaken EXCEPT ![h] = FALSE]
      BY <2>3 DEF BeginExecution
    <3>2. h # g
      BY <3>1
    <3>. QED
      BY <2>1, <3>1, <3>2
  <2>4. CASE \E h \in Handler, r \in RunId : RequestStarts(h, r) \/ StartNext(h, r)
    BY <2>2, <2>4 DEF RequestStarts, StartNext
  <2>5. ASSUME ~ \E h \in Handler, r \in RunId : RequestStarts(h, r) \/ StartNext(h, r),
               ~ \E h \in Handler, u \in User, group \in Groups, raw \in RawLevels :
                   BeginExecution(h, u, group, raw)
        PROVE  overtaken' = overtaken
    BY <2>5 DEF ScheduledNext, RequestRun, RequestFails, StartingFails, AllEnded, TimeoutCancels,
                Manage, execVars, allVars
  <2>. QED
    BY <2>2, <2>3, <2>4, <2>5
<1>2. CASE state[g] # "short"
  <2>1. PICK r \in RunId : StartNext(g, r)
    <3>1. state' # state /\ ~ \E h \in Handler, s \in {"starting", "failed", "over", "timeout"} :
                                state' = [state EXCEPT ![h] = s]
      BY <1>2
    <3>2. PICK h \in Handler, r \in RunId : StartNext(h, r)
      BY <3>1 DEF ScheduledNext, RequestRun, BeginExecution, RequestFails, StartingFails, AllEnded,
                  TimeoutCancels, RequestStarts, Manage, execVars, allVars
    <3>3. \E s : state' = [state EXCEPT ![h] = s]
      <4>1. state' = state => state' = [state EXCEPT ![h] = state[h]]
        OBVIOUS
      <4>. QED
        BY <3>2, <4>1 DEF StartNext
    <3>4. h = g
      BY <1>2, <3>3
    <3>. QED
      BY <3>2, <3>4
  <2>2. PICK rest, u, l : rest = FromValid(plans[g]) /\ u = request[g].owner /\ l = level[g]
    OBVIOUS
  <2>3. /\ rest # <<>> /\ ~ Fits(u, Head(rest).children * l)'
        /\ state[g] = "starting" /\ overtaken' = Overtake(g)
        /\ Register(r, request[g]) /\ request[g] # Null
    BY <1>2, <2>1, <2>2 DEF StartNext, Started
  <2>4. ASSUME ~ overtaken[g] PROVE FALSE
    <3>1. Room(g, User, GlobalMax) /\ Room(g, {u}, UserMax)
      BY <2>2, <2>3, <2>4 DEF GroupFits
    <3>2. PICK n, k, a, b :
            /\ n = Head(rest).children * l /\ k = GroupSlots(Tail(rest), l)
            /\ a = Cardinality(Held(User)') /\ b = Cardinality(Held({u})')
      OBVIOUS
    <3>3. /\ n + k + a <= GlobalMax /\ n + k + b <= UserMax
          /\ n \in Nat /\ k \in Nat /\ a \in Nat /\ b \in Nat
      BY <2>2, <2>3, <3>1, <3>2, TurnFits, LimitAssumption
    <3>4. n <= UserMax - b /\ n <= GlobalMax - a
      <4>1. UserMax \in Nat /\ GlobalMax \in Nat
        BY LimitAssumption
      <4>. QED
        BY <3>3, <4>1
    <3>5. u \in User /\ run' \in [RunId -> BenchRun \cup {Null}]
      BY <2>2, <2>3 DEF TypeOK, BenchRun, Register
    <3>6. a = get_running_slots' /\ b = UserRunningSlots(u)'
      BY <3>2, <3>5, ScopesAfter
    <3>. QED
      BY <2>3, <3>2, <3>4, <3>6 DEF Fits
  <2>. QED
    BY <2>3, <2>4 DEF Overtake
<1>. QED
  BY <1>1, <1>2

LEMMA ScheduledInvInit == ScheduledInit => ScheduledInv
<1> SUFFICES ASSUME ScheduledInit PROVE ScheduledInv
  OBVIOUS
<1>1. IndInv /\ SlotInv
  BY SlotInvInit, NullAssumption DEF ScheduledInit, Init, IndInv, TypeOK, Structure, Busy
<1>2. ScheduledTypeOK
  <2>1. <<>> \in Seq(Plan) /\ 1 \in Level
    BY ScheduledAssumption
  <2>. QED
    BY <1>1, <2>1 DEF ScheduledInit, ScheduledTypeOK, IndInv
<1>3. \A h \in Handler : state[h] = "none"
  BY DEF ScheduledInit
<1>. QED
  BY <1>1, <1>2, <1>3 DEF ScheduledInv, IndInv, Started, GroupFits, PartialOnlyIfOvertaken

LEMMA ScheduledInvInvariant == ScheduledSpec => []ScheduledInv
<1>1. ASSUME ScheduledInv, [ScheduledNext]_allVars PROVE ScheduledInv'
  <2>1. IndInv' /\ SlotInv'
    BY <1>1, AdmissionKept DEF ScheduledInv
  <2>2. ScheduledTypeOK'
    BY <1>1, <2>1, ExecutionsTyped, StraysTyped DEF ScheduledInv, IndInv, ScheduledTypeOK
  <2>3. Started'
    BY <1>1, RequestsKept, ShortStep DEF ScheduledInv, Started
  <2>. QED
    BY <1>1, <2>1, <2>2, <2>3, GroupFitsStep DEF ScheduledInv, IndInv
<1>. QED
  BY <1>1, ScheduledInvInit, PTL DEF ScheduledSpec

\* The runs, the requests and the executions of every reachable state are well
\* formed.
THEOREM ScheduledTypeCorrect == ScheduledSpec => []ScheduledTypeOK
<1>1. ScheduledInv => ScheduledTypeOK
  BY DEF ScheduledInv
<1>. QED
  BY <1>1, ScheduledInvInvariant, PTL

\* A scheduled task whose profiles fit together is run as a whole, unless somebody
\* else starts a run after it was checked.
THEOREM PartOnlyIfOvertaken == ScheduledSpec => []PartialOnlyIfOvertaken
<1>1. ScheduledInv => PartialOnlyIfOvertaken
  BY DEF ScheduledInv, Started
<1>. QED
  BY <1>1, ScheduledInvInvariant, PTL

\* Scheduled executions, which start one run behind the other, add nothing to what
\* concurrent starts can overcommit.
THEOREM ScheduledOvercommitIsBounded == ScheduledSpec => []OvercommitBound
<1>1. ASSUME ScheduledInv PROVE OvercommitBound
  <2>1. TypeOK /\ SlotInv
    BY <1>1 DEF ScheduledInv, ScheduledTypeOK
  <2>. QED
    BY <2>1, BoundLimits, Scopes, LimitAssumption DEF SlotInv, OvercommitBound
<1>. QED
  BY <1>1, ScheduledInvInvariant, PTL

-------------------------------------------------------------------------------
(***************************************************************************)
(* What an execution stands for.  A run keeps its id for as long as it is  *)
(* listed, so that no other run can pass for one an execution has started. *)
(***************************************************************************)
KnowsItsRuns == \A h \in Handler : \A r \in mine[h] : run[r] # Null

\* The executing tasks only grow by those of a run whose id was free.
LEMMA NewWork ==
  ASSUME ScheduledTypeOK, Structure, Started, [ScheduledNext]_allVars
  PROVE  \/ executing' \in SUBSET executing
         \/ \E h \in Handler, r \in RunId :
              /\ RequestStarts(h, r) \/ StartNext(h, r)
              /\ run[r] = Null
              /\ \A x \in executing' : x \in executing \/ x[1] = r
<1>1. CASE \E h \in Handler, r \in RunId : RequestStarts(h, r) \/ StartNext(h, r)
  BY <1>1 DEF RequestStarts, StartNext, Start, Register
<1>2. ASSUME ~ \E h \in Handler, r \in RunId : RequestStarts(h, r) \/ StartNext(h, r)
      PROVE  executing' \in SUBSET executing
  <2>1. CASE Manage
    BY <2>1 DEF Manage, Stop, Finish, Age, Cleanup
  <2>2. CASE ~ Manage
    BY <1>2, <2>2 DEF ScheduledNext, RequestRun, Admit, RequestFails, SettingsFail, BeginExecution,
                      StartingFails, AllEnded, TimeoutCancels, allVars, vars
  <2>. QED
    BY <2>1, <2>2
<1>. QED
  BY <1>1, <1>2

\* Only an execution that goes on adds to its runs, and what it adds was not listed.
LEMMA MineGrows ==
  ASSUME ScheduledTypeOK, [ScheduledNext]_allVars
  PROVE  \/ \A g \in Handler : mine'[g] \in SUBSET mine[g]
         \/ \E h \in Handler, r \in RunId :
              /\ StartNext(h, r) /\ run[r] = Null
              /\ mine'[h] \in SUBSET (mine[h] \cup {r})
              /\ \A g \in Handler \ {h} : mine'[g] = mine[g]
<1> USE DEF ScheduledTypeOK
<1>1. ASSUME NEW h \in Handler, NEW r \in RunId, StartNext(h, r)
      PROVE  /\ run[r] = Null /\ mine'[h] \in SUBSET (mine[h] \cup {r})
             /\ \A g \in Handler \ {h} : mine'[g] = mine[g]
  <2>1. \/ mine' = [mine EXCEPT ![h] = @ \cup {r}]
        \/ mine' = [mine EXCEPT ![h] = {}]
    BY <1>1 DEF StartNext
  <2>. QED
    BY <1>1, <2>1 DEF StartNext, Register
<1>2. CASE Manage
  BY <1>2 DEF Manage
<1>3. CASE mine' = mine
  BY <1>3
<1>4. ASSUME NEW h \in Handler, mine' = [mine EXCEPT ![h] = {}]
      PROVE  \A g \in Handler : mine'[g] \in SUBSET mine[g]
  BY <1>4
<1>5. CASE \E h \in Handler, u \in User, group \in Groups, raw \in RawLevels :
             BeginExecution(h, u, group, raw)
  BY <1>4, <1>5 DEF BeginExecution
<1>6. CASE \E h \in Handler : StartingFails(h)
  BY <1>4, <1>6 DEF StartingFails
<1>7. CASE \E h \in Handler, r \in RunId : StartNext(h, r)
  BY <1>1, <1>7
<1>. QED
  BY <1>2, <1>3, <1>5, <1>6, <1>7
     DEF ScheduledNext, RequestRun, RequestFails, RequestStarts, AllEnded, TimeoutCancels, execVars,
         allVars

\* A run that an execution keeps stays listed: when it is dropped from the registry
\* the execution's bookkeeping drops it, too.
LEMMA KnowsItsRunsStep ==
  ASSUME ScheduledInv, KnowsItsRuns, [ScheduledNext]_allVars
  PROVE  KnowsItsRuns'
<1> USE NullAssumption DEF ScheduledInv, ScheduledTypeOK, TypeOK
<1> SUFFICES ASSUME NEW g \in Handler, NEW q \in mine'[g] PROVE run'[q] # Null
  BY DEF KnowsItsRuns
<1>1. CASE Manage
  BY <1>1 DEF Manage
<1>2. ASSUME ~ Manage PROVE run'[q] # Null
  <2>1. \/ run' = run
        \/ \E h \in Handler, r \in RunId : /\ RequestStarts(h, r) \/ StartNext(h, r)
                                           /\ run' = [run EXCEPT ![r] = request[h]]
                                           /\ request[h] # Null
    <3>1. ASSUME NEW h \in Handler, NEW r \in RunId, RequestStarts(h, r) \/ StartNext(h, r)
          PROVE  run' = [run EXCEPT ![r] = request[h]] /\ request[h] # Null
      BY <3>1 DEF RequestStarts, StartNext, Start, Register, Started
    <3>. QED
      BY <1>2, <3>1 DEF ScheduledNext, RequestRun, Admit, RequestFails, SettingsFail, BeginExecution,
                        StartingFails, AllEnded, TimeoutCancels, allVars, vars
  <2>2. CASE q \in mine[g]
    <3>1. q \in RunId /\ run[q] # Null
      BY <2>2 DEF KnowsItsRuns
    <3>. QED
      BY <2>1, <3>1
  <2>3. CASE q \notin mine[g]
    <3>1. PICK h \in Handler, r \in RunId :
            /\ StartNext(h, r) /\ mine'[h] \in SUBSET (mine[h] \cup {r})
            /\ \A f \in Handler \ {h} : mine'[f] = mine[f]
      BY <2>3, MineGrows
    <3>2. StartNext(g, q) /\ q \in RunId
      <4>1. h = g
        BY <2>3, <3>1
      <4>. QED
        BY <2>3, <3>1, <4>1
    <3>3. run' = [run EXCEPT ![q] = request[g]] /\ request[g] # Null
      BY <3>2 DEF StartNext, Register, Started
    <3>. QED
      BY <3>2, <3>3
  <2>. QED
    BY <2>2, <2>3
<1>. QED
  BY <1>1, <1>2

\* No run belongs to two executions.
OwnRuns == \A g, h \in Handler : g # h => mine[g] \cap mine[h] = {}

LEMMA OwnRunsStep ==
  ASSUME ScheduledInv, KnowsItsRuns, OwnRuns, [ScheduledNext]_allVars
  PROVE  OwnRuns'
<1> USE DEF ScheduledInv
<1>1. CASE \A g \in Handler : mine'[g] \in SUBSET mine[g]
  BY <1>1 DEF OwnRuns
<1>2. ASSUME NEW h \in Handler, NEW r \in RunId, run[r] = Null,
             mine'[h] \in SUBSET (mine[h] \cup {r}),
             \A g \in Handler \ {h} : mine'[g] = mine[g]
      PROVE  OwnRuns'
  <2>1. \A g \in Handler : r \notin mine[g]
    BY <1>2 DEF KnowsItsRuns
  <2>2. \A g \in Handler : mine'[g] \in SUBSET (mine[g] \cup (IF g = h THEN {r} ELSE {}))
    BY <1>2
  <2>. QED
    BY <2>1, <2>2 DEF OwnRuns
<1>. QED
  BY <1>1, <1>2, MineGrows

\* No benchmark of an execution that is over executes.
CoroutinesEnd == \A h \in Handler : state[h] \in {"over", "timeout"} => Own(h) = {}

\* What goes on without being counted was cut off by the timeout of an execution.
StraysAreCutOff ==
  \A x \in stray :
    /\ ~Busy(x)
    /\ \E h \in Handler : state[h] = "timeout" /\ x[1] \in mine[h]

\* The steps that bring a handler into a state other than over.
LEMMA StaysOver ==
  ASSUME ScheduledInv, [ScheduledNext]_allVars, NEW g \in Handler,
         ~ AllEnded(g), ~ TimeoutCancels(g), state'[g] \in {"over", "timeout"}
  PROVE  state[g] = state'[g] /\ mine'[g] \in SUBSET mine[g]
<1> USE DEF ScheduledInv, ScheduledTypeOK
<1>1. ASSUME NEW h \in Handler, NEW r \in RunId, StartNext(h, r)
      PROVE  state[g] = state'[g] /\ mine'[g] \in SUBSET mine[g]
  <2>1. /\ state[h] = "starting"
        /\ \/ mine' = [mine EXCEPT ![h] = @ \cup {r}]
           \/ mine' = [mine EXCEPT ![h] = {}]
        /\ \/ state' = state
           \/ \E s \in {"waiting", "short"} : state' = [state EXCEPT ![h] = s]
    BY <1>1 DEF StartNext
  <2>2. h # g
    BY <2>1
  <2>. QED
    BY <2>1, <2>2
<1>2. ASSUME NEW h \in Handler, h # g, AllEnded(h) \/ TimeoutCancels(h)
      PROVE  state[g] = state'[g] /\ mine'[g] \in SUBSET mine[g]
  BY <1>2 DEF AllEnded, TimeoutCancels
<1>3. ASSUME NEW h \in Handler, StartingFails(h)
      PROVE  state[g] = state'[g] /\ mine'[g] \in SUBSET mine[g]
  BY <1>3 DEF StartingFails
<1>4. ASSUME NEW h \in Handler, NEW u, NEW group, NEW raw, BeginExecution(h, u, group, raw)
      PROVE  state[g] = state'[g] /\ mine'[g] \in SUBSET mine[g]
  <2>1. state' = [state EXCEPT ![h] = "starting"] /\ mine' = [mine EXCEPT ![h] = {}]
    BY <1>4 DEF BeginExecution
  <2>. QED
    BY <2>1
<1>5. CASE Manage
  BY <1>5 DEF Manage
<1>6. CASE state' = state /\ mine' = mine
  BY <1>6
<1>. QED
  BY <1>1, <1>2, <1>3, <1>4, <1>5, <1>6
     DEF ScheduledNext, RequestRun, RequestFails, RequestStarts, execVars, allVars

LEMMA CoroutinesEndStep ==
  ASSUME ScheduledInv, KnowsItsRuns, CoroutinesEnd, [ScheduledNext]_allVars
  PROVE  CoroutinesEnd'
<1> USE DEF ScheduledInv, ScheduledTypeOK
<1> SUFFICES ASSUME NEW g \in Handler, state'[g] \in {"over", "timeout"},
                    NEW x \in executing', x[1] \in mine'[g]
             PROVE  FALSE
  BY DEF CoroutinesEnd, Own
<1>1. CASE AllEnded(g)
  BY <1>1 DEF AllEnded, Own, vars
<1>2. CASE TimeoutCancels(g)
  BY <1>2 DEF TimeoutCancels, Own
<1>3. ASSUME ~ AllEnded(g), ~ TimeoutCancels(g) PROVE FALSE
  <2>1. state[g] \in {"over", "timeout"} /\ mine'[g] \in SUBSET mine[g]
    BY <1>3, StaysOver
  <2>2. x \notin executing
    BY <2>1 DEF CoroutinesEnd, Own
  <2>3. PICK r \in RunId : run[r] = Null /\ x[1] = r
    BY <2>2, NewWork
  <2>. QED
    BY <2>1, <2>3 DEF KnowsItsRuns
<1>. QED
  BY <1>1, <1>2, <1>3

\* A task that is not busy does not become so: only a new run has busy tasks, and its
\* id was free.
LEMMA NotBusyAgain ==
  ASSUME ScheduledInv, [ScheduledNext]_allVars, NEW x \in TaskId, run[x[1]] # Null, ~Busy(x)
  PROVE  ~Busy(x)'
<1> USE NullAssumption DEF ScheduledInv, ScheduledTypeOK, TypeOK, Busy
<1>1. ASSUME NEW h \in Handler, NEW r \in RunId, RequestStarts(h, r) \/ StartNext(h, r)
      PROVE  task'[x] = task[x]
  <2>1. Register(r, request[h])
    BY <1>1 DEF RequestStarts, StartNext, Start
  <2>2. x[1] # r
    BY <2>1 DEF Register
  <2>. QED
    BY <2>1, <2>2 DEF Register
<1>2. ASSUME NEW h \in Handler, TimeoutCancels(h) PROVE ~Busy(x)'
  BY <1>2, TimeoutQuiet DEF IndInv
<1>3. CASE Manage
  <2>1. ASSUME NEW r \in RunId, Stop(r) PROVE ~Busy(x)'
    BY <2>1 DEF Stop
  <2>2. ASSUME NEW y \in TaskId, Finish(y) PROVE ~Busy(x)'
    BY <2>2 DEF Finish, BenchTask
  <2>3. ASSUME NEW y \in TaskId, Age(y) PROVE ~Busy(x)'
    BY <2>3 DEF Age, BenchTask
  <2>4. CASE Cleanup
    BY <2>4 DEF Cleanup
  <2>. QED
    BY <1>3, <2>1, <2>2, <2>3, <2>4 DEF Manage
<1>4. CASE task' = task
  BY <1>4
<1>. QED
  BY <1>1, <1>2, <1>3, <1>4
     DEF ScheduledNext, RequestRun, Admit, RequestFails, SettingsFail, BeginExecution, StartingFails,
         AllEnded, allVars, vars

\* Workers are followed together with the execution that has left them behind.
LEMMA StraysStep ==
  ASSUME ScheduledInv, KnowsItsRuns, OwnRuns, StraysAreCutOff, [ScheduledNext]_allVars
  PROVE  StraysAreCutOff'
<1> USE DEF ScheduledInv, ScheduledTypeOK
<1> SUFFICES ASSUME NEW x \in stray'
             PROVE  /\ ~Busy(x)'
                    /\ \E h \in Handler : state'[h] = "timeout" /\ x[1] \in mine'[h]
  BY DEF StraysAreCutOff
<1>1. CASE x \notin stray
  <2>1. PICK h \in Handler : TimeoutCancels(h)
    <3>1. ASSUME NEW h \in Handler, NEW r \in RunId, StartNext(h, r) PROVE stray' = stray
      BY <3>1 DEF StartNext
    <3>2. Manage => stray' \in SUBSET stray
      BY DEF Manage
    <3>. QED
      BY <1>1, <3>1, <3>2
         DEF ScheduledNext, RequestRun, RequestFails, RequestStarts, BeginExecution, StartingFails,
             AllEnded, execVars, allVars
  <2>2. /\ x \in Own(h) /\ state'[h] = "timeout" /\ mine' = mine
        /\ executing' = executing \ Own(h)
    BY <1>1, <2>1 DEF TimeoutCancels
  <2>3. IndInv' /\ x \in TaskId
    BY <2>1, <2>2, TimeoutQuiet DEF IndInv, Own, TypeOK
  <2>4. ~Busy(x)'
    BY <2>2, <2>3 DEF IndInv, Structure
  <2>. QED
    BY <2>2, <2>4 DEF Own
<1>2. CASE x \in stray
  <2>1. PICK h \in Handler : state[h] = "timeout" /\ x[1] \in mine[h]
    BY <1>2 DEF StraysAreCutOff
  <2>2. x \in TaskId /\ x[1] \in RunId /\ run[x[1]] # Null /\ ~Busy(x)
    BY <1>2, <2>1 DEF KnowsItsRuns, StraysAreCutOff, TaskId
  <2>3. ~Busy(x)'
    BY <2>2, NotBusyAgain
  <2>4. state'[h] = "timeout" /\ x[1] \in mine'[h]
    <3>1. ASSUME NEW f \in Handler, NEW u, NEW group, NEW raw, BeginExecution(f, u, group, raw)
          PROVE  state'[h] = "timeout" /\ x[1] \in mine'[h]
      <4>1. /\ state' = [state EXCEPT ![f] = "starting"] /\ mine' = [mine EXCEPT ![f] = {}]
            /\ stray' = stray \ LeftBy(f)
        BY <3>1 DEF BeginExecution
      <4>2. f # h
        BY <1>2, <2>1, <4>1 DEF LeftBy
      <4>. QED
        BY <2>1, <4>1, <4>2
    <3>2. ASSUME NEW f \in Handler, NEW r \in RunId, StartNext(f, r)
          PROVE  state'[h] = "timeout" /\ x[1] \in mine'[h]
      <4>1. /\ state[f] = "starting"
            /\ \/ mine' = [mine EXCEPT ![f] = @ \cup {r}]
               \/ mine' = [mine EXCEPT ![f] = {}]
            /\ \/ state' = state
               \/ \E s \in {"waiting", "short"} : state' = [state EXCEPT ![f] = s]
        BY <3>2 DEF StartNext
      <4>2. f # h
        BY <2>1, <4>1
      <4>. QED
        BY <2>1, <4>1, <4>2
    <3>3. ASSUME NEW f \in Handler, AllEnded(f) \/ TimeoutCancels(f)
          PROVE  state'[h] = "timeout" /\ x[1] \in mine'[h]
      BY <2>1, <3>3 DEF AllEnded, TimeoutCancels
    <3>4. ASSUME NEW f \in Handler, StartingFails(f)
          PROVE  state'[h] = "timeout" /\ x[1] \in mine'[h]
      BY <2>1, <3>4 DEF StartingFails
    <3>5. CASE Manage
      BY <2>1, <2>2, <3>5 DEF Manage
    <3>6. CASE UNCHANGED <<state, mine>>
      BY <2>1, <3>6
    <3>. QED
      BY <3>1, <3>2, <3>3, <3>4, <3>5, <3>6
         DEF ScheduledNext, RequestRun, RequestFails, RequestStarts, execVars, allVars
  <2>. QED
    BY <2>3, <2>4
<1>. QED
  BY <1>1, <1>2

\* What an execution stands for, and what its timeout leaves behind.
OwnershipInv == KnowsItsRuns /\ OwnRuns /\ CoroutinesEnd /\ StraysAreCutOff

LEMMA OwnershipInvariant == ScheduledSpec => []OwnershipInv
<1>1. ScheduledInit => OwnershipInv
  BY DEF ScheduledInit, Init, OwnershipInv, KnowsItsRuns, OwnRuns, CoroutinesEnd, StraysAreCutOff, Own
<1>2. ScheduledInv /\ OwnershipInv /\ [ScheduledNext]_allVars => OwnershipInv'
  BY KnowsItsRunsStep, OwnRunsStep, CoroutinesEndStep, StraysStep DEF OwnershipInv
<1>. QED
  BY <1>1, <1>2, ScheduledInvInvariant, PTL DEF ScheduledSpec

\* Every benchmark that executes is counted, whatever executions and their timeouts
\* do; what goes on uncounted are only workers of tasks that a timeout has cut off.
CountedUnlessCutOff == AllWorkCounted /\ StraysAreCutOff

THEOREM ScheduledWorkIsCounted == ScheduledSpec => []CountedUnlessCutOff
<1>1. ScheduledInv => AllWorkCounted
  BY DEF ScheduledInv, ScheduledTypeOK, TypeOK, Structure, AllWorkCounted, get_running_runs,
         ChildrenOf, Busy, TaskId
<1>. QED
  BY <1>1, ScheduledInvInvariant, OwnershipInvariant, PTL DEF OwnershipInv, CountedUnlessCutOff

\* When the execution of a scheduled task is over none of the benchmarks it has
\* started is executing, and if it has not timed out no worker of theirs goes on.
THEOREM ExecutionsEndWithTheirRuns == ScheduledSpec => []EndsWithItsRuns
<1>1. ASSUME ScheduledInv, OwnershipInv PROVE EndsWithItsRuns
  <2>1. ASSUME NEW h \in Handler, state[h] = "over", NEW x \in LeftBy(h) PROVE FALSE
    <3>1. PICK g \in Handler : state[g] = "timeout" /\ x[1] \in mine[g]
      BY <1>1, <2>1 DEF LeftBy, OwnershipInv, StraysAreCutOff
    <3>2. g # h
      BY <2>1, <3>1
    <3>. QED
      BY <1>1, <2>1, <3>1, <3>2 DEF LeftBy, OwnershipInv, OwnRuns
  <2>. QED
    BY <1>1, <2>1 DEF OwnershipInv, CoroutinesEnd, EndsWithItsRuns
<1>. QED
  BY <1>1, ScheduledInvInvariant, OwnershipInvariant, PTL
=================================================================================
