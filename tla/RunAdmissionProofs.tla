-------------------------- MODULE RunAdmissionProofs --------------------------
(***************************************************************************)
(* Theorems about RunAdmission.                                            *)
(***************************************************************************)
EXTENDS RunAdmission, FiniteSetTheorems, TLAPS

\* What the registries have in common; the inductive part of AllWorkCounted and
\* RegistriesAgree.
Structure ==
  /\ \A x \in TaskId : task[x] # Null => run[x[1]] # Null /\ x[2] <= run[x[1]].children
  /\ \A r \in RunId : run[r] # Null => \E x \in ChildrenOf(r) : task[x] # Null
  /\ \A x \in TaskId : x \in executing <=> Busy(x)

IndInv == TypeOK /\ Structure

\* The slots of any set of runs are finitely many.
LEMMA SlotsFinite ==
  ASSUME NEW R \in SUBSET RunId
  PROVE  IsFiniteSet(SlotsOf(R)) /\ Cardinality(SlotsOf(R)) \in Nat
<1>1. IsFiniteSet(R)
  BY FS_Subset, FiniteAssumption
<1>2. IsFiniteSet(Slot)
  BY FS_Interval, LimitAssumption DEF Slot
<1>3. IsFiniteSet(R \X Slot)
  BY <1>1, <1>2, FS_Product
<1>4. SlotsOf(R) \in SUBSET (R \X Slot)
  BY DEF SlotsOf
<1>. QED
  BY <1>3, <1>4, FS_Subset, FS_CardinalityType

\* A request that fits asks for at least one slot and for no more than there are.
LEMMA AdmittedSlots ==
  ASSUME TypeOK, NEW u \in User, NEW c \in Child, NEW l \in Level, Fits(u, c * l)
  PROVE  /\ c * l \in Slot
         /\ c * l + get_running_slots <= GlobalMax
         /\ c * l + UserRunningSlots(u) <= UserMax
<1>1. c * l \in Nat /\ c * l >= 1
  BY LimitAssumption DEF Child
<1>2. get_running_slots \in Nat
  BY SlotsFinite DEF get_running_slots, get_running_runs
<1>3. UserRunningSlots(u) \in Nat
  BY SlotsFinite DEF UserRunningSlots, RunningRunsOf, get_running_runs
<1>. QED
  BY <1>1, <1>2, <1>3, LimitAssumption DEF Fits, Slot

\* TypeOK: every handler carries a well-formed request, every registry entry is
\* a well-formed run or task.
LEMMA TypeInvariance == TypeOK /\ [Next]_vars => TypeOK'
<1> SUFFICES ASSUME TypeOK, [Next]_vars PROVE TypeOK'
  OBVIOUS
<1> USE NullAssumption DEF TypeOK
<1>1. ASSUME NEW h \in Handler, NEW u \in User, NEW c \in Child, NEW l \in Level,
             Admit(h, u, c, l)
      PROVE  TypeOK'
  <2> DEFINE n == c * l
  <2>1. n \in Slot
    BY <1>1, AdmittedSlots DEF Admit
  <2> HIDE DEF n
  <2>2. [owner |-> u, children |-> c, slots |-> n] \in BenchRun
    BY <2>1 DEF BenchRun
  <2>. QED
    BY <1>1, <2>2 DEF Admit, n
<1>2. CASE \E h \in Handler : SettingsFail(h)
  BY <1>2 DEF SettingsFail
<1>3. ASSUME NEW h \in Handler, NEW r \in RunId, Start(h, r)
      PROVE  TypeOK'
  BY <1>3 DEF Start, Register, BenchTask
<1>4. ASSUME NEW r \in RunId, Stop(r) PROVE TypeOK'
  BY <1>4 DEF Stop, BenchTask
<1>5. ASSUME NEW x \in TaskId, Finish(x) PROVE TypeOK'
  BY <1>5 DEF Finish, BenchTask
<1>6. ASSUME NEW x \in TaskId, Age(x) PROVE TypeOK'
  BY <1>6 DEF Age, BenchTask
<1>7. CASE Cleanup
  BY <1>7 DEF Cleanup
<1>8. CASE UNCHANGED vars
  BY <1>8 DEF vars
<1>. QED
  BY <1>1, <1>2, <1>3, <1>4, <1>5, <1>6, <1>7, <1>8 DEF Next

\* The handlers, runs and tasks of every reachable state are well formed.
THEOREM TypeCorrect == Spec => []TypeOK
<1>1. Init => TypeOK
  BY NullAssumption DEF Init, TypeOK
<1>. QED
  BY <1>1, TypeInvariance, PTL DEF Spec

-------------------------------------------------------------------------------
\* A run is registered together with its tasks, which are busy and executing.
LEMMA RegisterKeepsStructure ==
  ASSUME IndInv, NEW r \in RunId, NEW requested \in BenchRun, Register(r, requested)
  PROVE  Structure'
<1> USE NullAssumption DEF IndInv, TypeOK, Structure, ChildrenOf, Busy, TaskId
<1>1. requested \in BenchRun /\ run'[r] = requested /\ run'[r] # Null
  BY DEF Register
<1>2. \A q \in RunId : q # r => run'[q] = run[q]
  BY DEF Register
<1>3. run'[r].children \in Child
  BY <1>1 DEF BenchRun
<1> DEFINE New == {x \in TaskId : x[1] = r /\ x[2] <= requested.children}
<1>4. /\ task' = [x \in TaskId |-> IF x \in New THEN [status |-> "running", aged |-> FALSE]
                                              ELSE task[x]]
      /\ executing' = executing \cup New
  BY DEF Register
<1>5. \A x \in TaskId : x \in New <=> (x[1] = r /\ x[2] <= run'[r].children)
  BY <1>1
<1> HIDE DEF New
<1>6. \A c \in Child : task[<<r, c>>] = Null
  BY DEF Register
<1>7. \A x \in TaskId : x[1] = r => task[x] = Null
  BY <1>6
<1>8. [status |-> "running", aged |-> FALSE] # Null
  <2>1. [status |-> "running", aged |-> FALSE] \in BenchTask
    BY DEF BenchTask
  <2>. QED
    BY <2>1
<1>9. ASSUME NEW x \in TaskId, task'[x] # Null
      PROVE  run'[x[1]] # Null /\ x[2] <= run'[x[1]].children
  <2>1. CASE x \in New
    BY <2>1, <1>1, <1>5
  <2>2. CASE x \notin New
    <3>1. task'[x] = task[x]
      BY <2>2, <1>4
    <3>2. x[1] # r
      BY <3>1, <1>7, <1>9
    <3>. QED
      BY <3>1, <3>2, <1>2, <1>9
  <2>. QED
    BY <2>1, <2>2
<1>10. ASSUME NEW q \in RunId, run'[q] # Null
       PROVE  \E x \in ChildrenOf(q)' : task'[x] # Null
  <2>1. CASE q = r
    <3>1. 1 \in Child /\ 1 <= run'[r].children
      BY <1>3, LimitAssumption DEF Child
    <3>2. task'[<<r, 1>>] # Null
      BY <3>1, <1>4, <1>5, <1>8
    <3>. QED
      BY <2>1, <3>1, <3>2
  <2>2. CASE q # r
    <3>1. PICK x \in ChildrenOf(q) : task[x] # Null
      BY <2>2, <1>2, <1>10
    <3>2. task'[x] = task[x] /\ x \in ChildrenOf(q)'
      BY <2>2, <3>1, <1>2, <1>4, <1>5
    <3>. QED
      BY <3>1, <3>2
  <2>. QED
    BY <2>1, <2>2
<1>11. ASSUME NEW x \in TaskId
       PROVE  x \in executing' <=> Busy(x)'
  <2>1. CASE x \in New
    BY <2>1, <1>4, <1>8
  <2>2. CASE x \notin New
    BY <2>2, <1>4
  <2>. QED
    BY <2>1, <2>2
<1>. QED
  BY <1>9, <1>10, <1>11

\* Every step keeps the registries and the executing tasks consistent.
LEMMA StructureStep == IndInv /\ [Next]_vars => Structure'
<1> SUFFICES ASSUME IndInv, [Next]_vars PROVE Structure'
  OBVIOUS
<1> USE NullAssumption DEF IndInv, TypeOK, Structure, ChildrenOf, Busy, TaskId
<1>1. CASE \E h \in Handler, u \in User, c \in Child, l \in Level : Admit(h, u, c, l)
  BY <1>1 DEF Admit
<1>2. CASE \E h \in Handler : SettingsFail(h)
  BY <1>2 DEF SettingsFail
<1>3. ASSUME NEW h \in Handler, NEW r \in RunId, Start(h, r)
      PROVE  Structure'
  <2>1. request[h] \in BenchRun /\ Register(r, request[h])
    BY <1>3 DEF Start
  <2>. QED
    BY <2>1, RegisterKeepsStructure
<1>4. ASSUME NEW r \in RunId, Stop(r) PROVE Structure'
  <2>1. \A x \in TaskId : /\ task'[x] = Null <=> task[x] = Null
                          /\ Busy(x)' <=> Busy(x)
    BY <1>4 DEF Stop, BenchTask
  <2>2. run' = run /\ executing' = executing
    BY <1>4 DEF Stop
  <2>. QED
    BY <2>1, <2>2
<1>5. ASSUME NEW x \in TaskId, Finish(x) PROVE Structure'
  <2>1. ASSUME NEW y \in TaskId
        PROVE  /\ task'[y] = Null <=> task[y] = Null
               /\ Busy(y)' <=> Busy(y) /\ y # x
    <3>1. CASE y = x
      <4>1. task[x] \in BenchTask /\ task'[x] = [task[x] EXCEPT !.status = "idle"]
        BY <1>5 DEF Finish
      <4>2. task'[x] \in BenchTask /\ task'[x].status = "idle"
        BY <4>1 DEF BenchTask
      <4>. QED
        BY <3>1, <4>1, <4>2
    <3>2. CASE y # x
      BY <3>2, <1>5 DEF Finish
    <3>. QED
      BY <3>1, <3>2
  <2>2. run' = run /\ executing' = executing \ {x}
    BY <1>5 DEF Finish
  <2>. QED
    BY <2>1, <2>2
<1>6. ASSUME NEW x \in TaskId, Age(x) PROVE Structure'
  <2>1. ASSUME NEW y \in TaskId
        PROVE  /\ task'[y] = Null <=> task[y] = Null
               /\ Busy(y)' <=> Busy(y)
    <3>1. CASE y = x
      <4>1. task[x] \in BenchTask /\ task'[x] = [task[x] EXCEPT !.aged = TRUE]
        BY <1>6 DEF Age
      <4>2. task'[x] \in BenchTask /\ task'[x].status = task[x].status
        BY <4>1 DEF BenchTask
      <4>. QED
        BY <3>1, <4>1, <4>2
    <3>2. CASE y # x
      BY <3>2, <1>6 DEF Age
    <3>. QED
      BY <3>1, <3>2
  <2>2. run' = run /\ executing' = executing
    BY <1>6 DEF Age
  <2>. QED
    BY <2>1, <2>2
<1>7. CASE Cleanup
  <2>1. \A x \in TaskId : task'[x] = IF Expired(x) THEN Null ELSE task[x]
    BY <1>7 DEF Cleanup
  <2>2. \A r \in RunId :
          run'[r] = IF run[r] # Null /\ \A x \in ChildrenOf(r) : task'[x] = Null
                    THEN Null ELSE run[r]
    BY <1>7 DEF Cleanup
  <2>3. executing' = executing
    BY <1>7 DEF Cleanup
  <2>4. ASSUME NEW x \in TaskId, task'[x] # Null
        PROVE  run'[x[1]] # Null /\ x[2] <= run'[x[1]].children
    <3>1. run[x[1]] # Null /\ x \in ChildrenOf(x[1])
      BY <2>1, <2>4
    <3>2. run'[x[1]] = run[x[1]]
      BY <2>2, <2>4, <3>1
    <3>. QED
      BY <3>1, <3>2
  <2>5. ASSUME NEW r \in RunId, run'[r] # Null
        PROVE  \E x \in ChildrenOf(r)' : task'[x] # Null
    <3>1. run'[r] = run[r] /\ \E x \in ChildrenOf(r) : task'[x] # Null
      BY <2>2, <2>5
    <3>. QED
      BY <3>1
  <2>6. \A x \in TaskId : Busy(x)' <=> Busy(x)
    BY <2>1 DEF Expired
  <2>. QED
    BY <2>3, <2>4, <2>5, <2>6
<1>8. CASE UNCHANGED vars
  BY <1>8 DEF vars
<1>. QED
  BY <1>1, <1>2, <1>3, <1>4, <1>5, <1>6, <1>7, <1>8 DEF Next

LEMMA IndInvInvariant == Spec => []IndInv
<1>1. Init => IndInv
  BY NullAssumption DEF Init, IndInv, TypeOK, Structure, Busy
<1>2. IndInv /\ [Next]_vars => IndInv'
  BY TypeInvariance, StructureStep DEF IndInv
<1>. QED
  BY <1>1, <1>2, PTL DEF Spec

\* Admission counts all the work: the run of every benchmark that still
\* executes is registered and counted among the running runs.
THEOREM AllWorkIsCounted == Spec => []AllWorkCounted
<1>1. IndInv => AllWorkCounted
  BY DEF IndInv, TypeOK, Structure, AllWorkCounted, get_running_runs, ChildrenOf,
         Busy, TaskId
<1>. QED
  BY <1>1, IndInvInvariant, PTL

\* A run is listed exactly as long as one of its tasks is.
THEOREM RegistriesAlwaysAgree == Spec => []RegistriesAgree
<1>1. ASSUME IndInv, NEW r \in RunId
      PROVE  (run[r] # Null) <=> \E c \in Child : task[<<r, c>>] # Null
  <2>1. ASSUME run[r] # Null
        PROVE  \E c \in Child : task[<<r, c>>] # Null
    <3>1. PICK x \in ChildrenOf(r) : task[x] # Null
      BY <1>1, <2>1 DEF IndInv, Structure
    <3>2. x[2] \in Child /\ x = <<r, x[2]>>
      BY DEF ChildrenOf, TaskId
    <3>. QED
      BY <3>1, <3>2
  <2>2. ASSUME NEW c \in Child, task[<<r, c>>] # Null
        PROVE  run[r] # Null
    BY <1>1, <2>2 DEF IndInv, Structure, TaskId
  <2>. QED
    BY <2>1, <2>2
<1>2. IndInv => RegistriesAgree
  BY <1>1 DEF RegistriesAgree
<1>. QED
  BY <1>2, IndInvInvariant, PTL
-------------------------------------------------------------------------------
(***************************************************************************)
(* Slots.  The starts in flight and the running runs together claim at     *)
(* most n * M slots, for n starts in flight and a limit of M.  It is       *)
(* stated for a set of users U, to serve the limit of one user and the     *)
(* global one.                                                             *)
(***************************************************************************)
RunsIn(U) == {r \in get_running_runs : run[r].owner \in U}

Held(U) == SlotsOf(RunsIn(U))

InFlight(U) == {h \in Handler : request[h] # Null /\ request[h].owner \in U}

Pending(U) == {s \in InFlight(U) \X Slot : s[2] <= request[s[1]].slots}

Bound(U, M) ==
  /\ \A h \in InFlight(U) : request[h].slots <= M
  /\ Cardinality(Held(U)) + Cardinality(Pending(U)) <= Cardinality(Handler) * M

\* n slots of one run or of one start.
LEMMA Block ==
  ASSUME NEW r, NEW n \in Nat
  PROVE  IsFiniteSet({r} \X (1..n)) /\ Cardinality({r} \X (1..n)) = n
<1>1. IsFiniteSet({r}) /\ Cardinality({r}) = 1
  BY FS_Singleton
<1>2. IsFiniteSet(1..n) /\ Cardinality(1..n) = n
  BY FS_Interval
<1>3. /\ IsFiniteSet({r} \X (1..n))
      /\ Cardinality({r} \X (1..n)) = Cardinality({r}) * Cardinality(1..n)
  BY <1>1, <1>2, FS_Product
<1>. QED
  BY <1>1, <1>2, <1>3

LEMMA HeldFinite ==
  ASSUME NEW U
  PROVE  IsFiniteSet(Held(U)) /\ Cardinality(Held(U)) \in Nat
BY SlotsFinite DEF Held, RunsIn, get_running_runs

LEMMA PendingFinite ==
  ASSUME NEW U
  PROVE  IsFiniteSet(Pending(U)) /\ Cardinality(Pending(U)) \in Nat
<1>1. IsFiniteSet(InFlight(U))
  BY FS_Subset, FiniteAssumption DEF InFlight
<1>2. IsFiniteSet(Slot)
  BY FS_Interval, LimitAssumption DEF Slot
<1>3. IsFiniteSet(InFlight(U) \X Slot)
  BY <1>1, <1>2, FS_Product
<1>4. Pending(U) \in SUBSET (InFlight(U) \X Slot)
  BY DEF Pending
<1>. QED
  BY <1>3, <1>4, FS_Subset, FS_CardinalityType

\* A request takes the place of what a handler carried: with what the other
\* starts may ask for, it stays within the bound.
LEMMA NewRequestKeepsBound ==
  ASSUME TypeOK, NEW U \in SUBSET User, NEW M \in Nat, \A g \in InFlight(U) : request[g].slots <= M,
         NEW h \in Handler, NEW new \in BenchRun, request' = [request EXCEPT ![h] = new],
         new.owner \in U, new.slots + Cardinality(Held(U)') <= M, Cardinality(Held(U)') \in Nat
  PROVE  Bound(U, M)'
<1> DEFINE n == new.slots
           Mine == {h} \X (1..n)
           Others == (Handler \ {h}) \X (1..M)
<1>1. n \in Slot /\ n \in Nat /\ n + Cardinality(Held(U)') <= M
  BY DEF BenchRun, Slot
<1>2. /\ request'[h] = new /\ request'[h] # Null
      /\ \A g \in Handler \ {h} : request'[g] = request[g]
  BY NullAssumption DEF TypeOK
<1>3. InFlight(U)' \ {h} = InFlight(U) \ {h} /\ h \in InFlight(U)'
  BY <1>2 DEF InFlight
<1>4. \A g \in InFlight(U)' : request'[g].slots <= M
  <2>1. n <= M
    BY <1>1
  <2>. QED
    BY <1>2, <1>3, <2>1 DEF InFlight
<1> HIDE DEF n
<1>5. Pending(U)' \in SUBSET (Mine \cup Others)
  <2>1. SUFFICES ASSUME NEW s \in Pending(U)' PROVE s \in Mine \cup Others
    OBVIOUS
  <2>2. s = <<s[1], s[2]>> /\ s[1] \in InFlight(U)' /\ s[2] \in Slot /\ s[2] <= request'[s[1]].slots
    BY DEF Pending
  <2>3. CASE s[1] = h
    BY <2>2, <2>3, <1>1, <1>2 DEF Slot, n
  <2>4. CASE s[1] # h
    <3>1. request'[s[1]] \in BenchRun
      BY <2>2, <2>4, <1>2 DEF InFlight, TypeOK
    <3>2. request'[s[1]].slots \in Nat /\ request'[s[1]].slots <= M
      BY <3>1, <2>2, <1>4 DEF BenchRun, Slot
    <3>3. s[2] \in 1..M
      BY <3>2, <2>2 DEF Slot
    <3>4. s[1] \in Handler \ {h}
      BY <2>2, <2>4 DEF InFlight
    <3>. QED
      BY <2>2, <3>3, <3>4
  <2>. QED
    BY <2>3, <2>4
<1>6. IsFiniteSet(Mine) /\ Cardinality(Mine) = n
  BY Block, <1>1
<1>7. Cardinality(Handler) \in Nat
  BY FS_CardinalityType, FiniteAssumption
<1>8. /\ IsFiniteSet(Handler \ {h})
      /\ Cardinality(Handler \ {h}) = Cardinality(Handler) - 1
  BY FS_RemoveElement, FiniteAssumption
<1>9. IsFiniteSet(1..M) /\ Cardinality(1..M) = M
  BY FS_Interval
<1>10. IsFiniteSet(Others) /\ Cardinality(Others) = (Cardinality(Handler) - 1) * M
  BY <1>8, <1>9, FS_Product
<1>11. \A k, m \in Int : (k - 1) * m = k * m - m /\ k * m \in Int
  OBVIOUS
<1>12. Cardinality(Others) = Cardinality(Handler) * M - M
  BY <1>7, <1>10, <1>11
<1> HIDE DEF Mine, Others
<1>13. /\ IsFiniteSet(Mine \cup Others)
       /\ Cardinality(Mine \cup Others)
            = Cardinality(Mine) + Cardinality(Others) - Cardinality(Mine \cap Others)
  BY <1>6, <1>10, FS_Union
<1>14. IsFiniteSet(Mine \cap Others)
  BY <1>6, FS_Subset
<1>15. Cardinality(Mine \cap Others) \in Nat /\ Cardinality(Others) \in Nat
  BY <1>10, <1>14, FS_CardinalityType
<1>16. Cardinality(Pending(U)') <= Cardinality(Mine \cup Others) /\ Cardinality(Pending(U)') \in Nat
  BY <1>5, <1>13, FS_Subset, FS_CardinalityType
<1>17. Cardinality(Handler) * M \in Int
  BY <1>7, <1>11
<1>18. Cardinality(Pending(U)') <= n + Cardinality(Handler) * M - M
  BY <1>6, <1>12, <1>13, <1>15, <1>16, <1>17, <1>1
<1>19. Cardinality(Held(U)') + Cardinality(Pending(U)') <= Cardinality(Handler) * M
  BY <1>16, <1>17, <1>18, <1>1
<1>. QED
  BY <1>4, <1>19 DEF Bound

\* A start is admitted.
LEMMA AdmitKeepsBound ==
  ASSUME TypeOK, NEW U \in SUBSET User, NEW M \in Nat, Bound(U, M),
         NEW h \in Handler, NEW u \in User, NEW c \in Child, NEW l \in Level,
         Admit(h, u, c, l),
         u \in U => c * l + Cardinality(Held(U)) <= M
  PROVE  Bound(U, M)'
<1> DEFINE n == c * l
           new == [owner |-> u, children |-> c, slots |-> n]
<1>1. n \in Slot
  BY AdmittedSlots DEF Admit
<1>2. /\ request[h] = Null /\ request' = [request EXCEPT ![h] = new]
      /\ run' = run /\ task' = task
  BY DEF Admit
<1>3. u \in U => n + Cardinality(Held(U)) <= M
  OBVIOUS
<1> HIDE DEF n
<1>4. new \in BenchRun /\ new.owner = u /\ new.slots = n
  BY <1>1 DEF BenchRun
<1> HIDE DEF new
<1>5. Held(U)' = Held(U) /\ Cardinality(Held(U)) \in Nat
  BY <1>2, HeldFinite DEF Held, SlotsOf, RunsIn, get_running_runs, ChildrenOf, Busy
<1>6. CASE u \in U
  <2>1. \A g \in InFlight(U) : request[g].slots <= M
    BY DEF Bound
  <2>. QED
    BY <1>2, <1>3, <1>4, <1>5, <1>6, <2>1, NewRequestKeepsBound
<1>7. CASE u \notin U
  <2>1. request'[h] = new /\ new.owner \notin U /\ \A g \in Handler \ {h} : request'[g] = request[g]
    BY <1>2, <1>4, <1>7 DEF TypeOK
  <2>2. InFlight(U)' = InFlight(U) /\ h \notin InFlight(U)
    BY <1>2, <2>1 DEF InFlight
  <2>3. \A g \in InFlight(U) : request'[g] = request[g]
    BY <2>1, <2>2 DEF InFlight
  <2>4. Pending(U)' = Pending(U)
    BY <2>2, <2>3 DEF Pending
  <2>. QED
    BY <1>5, <2>2, <2>3, <2>4 DEF Bound
<1>. QED
  BY <1>6, <1>7

\* Fewer held slots and the same requests, or fewer, keep the bound.
LEMMA ShrinkKeepsBound ==
  ASSUME NEW U, NEW M \in Nat, Bound(U, M),
         \A h \in InFlight(U)' : request'[h].slots <= M,
         Held(U)' \in SUBSET Held(U), Pending(U)' \in SUBSET Pending(U)
  PROVE  Bound(U, M)'
<1>1. /\ Cardinality(Held(U)') <= Cardinality(Held(U))
      /\ Cardinality(Held(U)) \in Nat /\ Cardinality(Held(U)') \in Nat
  BY HeldFinite, FS_Subset, FS_CardinalityType
<1>2. /\ Cardinality(Pending(U)') <= Cardinality(Pending(U))
      /\ Cardinality(Pending(U)) \in Nat /\ Cardinality(Pending(U)') \in Nat
  BY PendingFinite, FS_Subset, FS_CardinalityType
<1>3. Cardinality(Handler) * M \in Int
  <2>1. Cardinality(Handler) \in Nat
    BY FS_CardinalityType, FiniteAssumption
  <2>. QED
    BY <2>1
<1>4. Cardinality(Held(U)') + Cardinality(Pending(U)') <= Cardinality(Handler) * M
  BY <1>1, <1>2, <1>3 DEF Bound
<1>. QED
  BY <1>4 DEF Bound

\* Registering a run adds it to the running runs and no other.
LEMMA RegisterRuns ==
  ASSUME IndInv, NEW r \in RunId, NEW requested \in BenchRun, Register(r, requested)
  PROVE  get_running_runs' \in SUBSET (get_running_runs \cup {r})
<1>1. SUFFICES ASSUME NEW q \in RunId, q # r, q \in get_running_runs'
               PROVE  q \in get_running_runs
  BY DEF get_running_runs
<1>2. run'[q] = run[q]
  BY <1>1 DEF Register, IndInv, TypeOK
<1>3. \A x \in TaskId : x[1] = q => task'[x] = task[x]
  BY <1>1 DEF Register, IndInv, TypeOK
<1>4. PICK x \in ChildrenOf(q)' : Busy(x)'
  BY <1>1 DEF get_running_runs
<1>5. x \in ChildrenOf(q) /\ Busy(x)
  BY <1>2, <1>3, <1>4 DEF ChildrenOf, Busy
<1>. QED
  BY <1>1, <1>2, <1>5 DEF get_running_runs

\* What a scope of users holds grows by the slots of the new run, if it is theirs.
LEMMA RegisterHolds ==
  ASSUME IndInv, NEW U, NEW r \in RunId, NEW requested \in BenchRun, Register(r, requested)
  PROVE  /\ Cardinality(Held(U)') <= Cardinality(Held(U)) + requested.slots
         /\ requested.owner \notin U => Held(U)' \in SUBSET Held(U)
         /\ Cardinality(Held(U)) \in Nat /\ Cardinality(Held(U)') \in Nat
         /\ requested.slots \in Nat
<1> DEFINE n == requested.slots
           Got == {r} \X (1..n)
<1>1. run' = [run EXCEPT ![r] = requested] /\ run[r] = Null /\ run \in [RunId -> BenchRun \cup {Null}]
  BY DEF Register, IndInv, TypeOK
<1>2. RunsIn(U)' \in SUBSET (RunsIn(U) \cup {r})
  BY <1>1, RegisterRuns DEF RunsIn, get_running_runs
<1>3. n \in Nat /\ n \in Slot
  BY DEF BenchRun, Slot
<1>4. Held(U)' \in SUBSET (Held(U) \cup Got)
  <2>1. SUFFICES ASSUME NEW s \in Held(U)' PROVE s \in Held(U) \cup Got
    OBVIOUS
  <2>2. s \in (RunsIn(U)' \X Slot) /\ s[2] <= run'[s[1]].slots
    BY DEF Held, SlotsOf
  <2>3. CASE s[1] = r
    BY <1>1, <1>3, <2>2, <2>3 DEF Slot
  <2>4. CASE s[1] # r
    <3>1. s[1] \in RunsIn(U) /\ run'[s[1]] = run[s[1]]
      BY <1>1, <1>2, <2>2, <2>4 DEF RunsIn, get_running_runs
    <3>. QED
      BY <2>2, <3>1 DEF Held, SlotsOf
  <2>. QED
    BY <2>3, <2>4
<1>5. requested.owner \notin U => Held(U)' \in SUBSET Held(U)
  <2>1. SUFFICES ASSUME requested.owner \notin U PROVE Held(U)' \in SUBSET Held(U)
    OBVIOUS
  <2>2. r \notin RunsIn(U)'
    BY <1>1, <2>1 DEF RunsIn
  <2>. QED
    BY <1>1, <1>2, <2>2 DEF Held, SlotsOf, RunsIn, get_running_runs
<1> HIDE DEF Got
<1>6. IsFiniteSet(Got) /\ Cardinality(Got) = n
  BY <1>3, Block DEF Got
<1>7. IsFiniteSet(Held(U)) /\ Cardinality(Held(U)) \in Nat
  BY HeldFinite
<1>8. Cardinality(Held(U)') <= Cardinality(Held(U)) + n /\ Cardinality(Held(U)') \in Nat
  <2>1. /\ IsFiniteSet(Held(U) \cup Got)
        /\ Cardinality(Held(U) \cup Got)
             = Cardinality(Held(U)) + Cardinality(Got) - Cardinality(Held(U) \cap Got)
    BY <1>6, <1>7, FS_Union
  <2>2. Cardinality(Held(U) \cap Got) \in Nat
    BY <1>7, FS_Subset, FS_CardinalityType
  <2>3. Cardinality(Held(U)') <= Cardinality(Held(U) \cup Got) /\ Cardinality(Held(U)') \in Nat
    BY <1>4, <2>1, FS_Subset, FS_CardinalityType
  <2>. QED
    BY <1>3, <1>6, <1>7, <2>1, <2>2, <2>3
<1>. QED
  BY <1>3, <1>5, <1>7, <1>8

\* A start goes on: what it had pending is what its run now holds.
LEMMA StartKeepsBound ==
  ASSUME IndInv, NEW U \in SUBSET User, NEW M \in Nat, Bound(U, M),
         NEW h \in Handler, NEW r \in RunId, Register(r, request[h]),
         request[h] # Null, request' = [request EXCEPT ![h] = Null]
  PROVE  Bound(U, M)'
<1> USE DEF IndInv, TypeOK
<1> DEFINE n == request[h].slots
<1>1. /\ request[h] \in BenchRun
      /\ Cardinality(Held(U)') <= Cardinality(Held(U)) + n
      /\ request[h].owner \notin U => Held(U)' \in SUBSET Held(U)
      /\ Cardinality(Held(U)) \in Nat /\ Cardinality(Held(U)') \in Nat
  BY RegisterHolds
<1>2. /\ InFlight(U)' = InFlight(U) \ {h}
      /\ \A g \in InFlight(U)' : request'[g] = request[g]
  BY DEF InFlight
<1>3. \A g \in InFlight(U)' : request'[g].slots <= M
  BY <1>2 DEF Bound
<1>4. CASE request[h].owner \in U
  <2> DEFINE Mine == {h} \X (1..n)
  <2>1. n \in Nat /\ n \in Slot
    BY <1>1 DEF BenchRun, Slot
  <2>2. Pending(U)' \in SUBSET Pending(U) /\ Pending(U)' \cap Mine = {} /\ Mine \in SUBSET Pending(U)
    <3>1. h \in InFlight(U)
      BY <1>1, <1>4 DEF InFlight
    <3>2. Pending(U)' \in SUBSET Pending(U)
      BY <1>2 DEF Pending
    <3>3. Pending(U)' \cap Mine = {}
      BY <1>2 DEF Pending
    <3>4. Mine \in SUBSET Pending(U)
      <4>1. ASSUME NEW s \in Mine PROVE s \in Pending(U)
        <5>1. s = <<h, s[2]>> /\ s[1] = h /\ s[2] \in 1..n
          OBVIOUS
        <5>2. s[2] \in Slot /\ s[2] <= request[h].slots
          BY <2>1, <5>1, LimitAssumption DEF Slot
        <5>. QED
          BY <3>1, <5>1, <5>2 DEF Pending
      <4>. QED
        BY <4>1
    <3>. QED
      BY <3>2, <3>3, <3>4
  <2> HIDE DEF Mine
  <2>3. IsFiniteSet(Mine) /\ Cardinality(Mine) = n
    BY <2>1, Block DEF Mine
  <2>4. IsFiniteSet(Pending(U)) /\ Cardinality(Pending(U)) \in Nat
    BY PendingFinite
  <2>5. IsFiniteSet(Pending(U)') /\ Cardinality(Pending(U)') \in Nat
    BY <2>2, <2>4, FS_Subset, FS_CardinalityType
  <2>6. Cardinality(Pending(U)') + n <= Cardinality(Pending(U))
    <3>1. IsFiniteSet(Pending(U)' \cup Mine)
          /\ Cardinality(Pending(U)' \cup Mine)
               = Cardinality(Pending(U)') + Cardinality(Mine) - Cardinality(Pending(U)' \cap Mine)
      BY <2>3, <2>5, FS_Union
    <3>2. Cardinality(Pending(U)' \cap Mine) = 0
      BY <2>2, FS_EmptySet
    <3>3. Cardinality(Pending(U)' \cup Mine) <= Cardinality(Pending(U))
      BY <2>2, <2>4, FS_Subset
    <3>. QED
      BY <2>1, <2>3, <2>4, <2>5, <3>1, <3>2, <3>3
  <2>7. Cardinality(Handler) * M \in Int
    <3>1. Cardinality(Handler) \in Nat
      BY FS_CardinalityType, FiniteAssumption
    <3>. QED
      BY <3>1
  <2>8. Cardinality(Held(U)') + Cardinality(Pending(U)') <= Cardinality(Handler) * M
    BY <1>1, <2>1, <2>4, <2>5, <2>6, <2>7 DEF Bound
  <2>. QED
    BY <1>3, <2>8 DEF Bound
<1>5. CASE request[h].owner \notin U
  <2>1. InFlight(U)' = InFlight(U) /\ \A g \in InFlight(U) : request'[g] = request[g]
    BY <1>1, <1>2, <1>5 DEF InFlight
  <2>2. Pending(U)' = Pending(U)
    BY <2>1 DEF Pending
  <2>3. Held(U)' \in SUBSET Held(U)
    BY <1>1, <1>5
  <2>. QED
    BY <1>3, <2>2, <2>3, ShrinkKeepsBound
<1>. QED
  BY <1>4, <1>5

\* Stop requests, benchmarks that end, time and cleanup register no run and make no
\* task busy.
LEMMA QuietSteps ==
  ASSUME TypeOK,
         \/ \E r \in RunId : Stop(r)
         \/ \E x \in TaskId : Finish(x) \/ Age(x)
         \/ Cleanup \/ UNCHANGED vars
  PROVE  /\ UNCHANGED request
         /\ \A r \in RunId : run'[r] # Null => run'[r] = run[r]
         /\ \A x \in TaskId : Busy(x)' => Busy(x)
<1> USE NullAssumption DEF TypeOK
<1>1. ASSUME NEW r \in RunId, Stop(r) PROVE UNCHANGED <<request, run>> /\ \A x \in TaskId : Busy(x)' => Busy(x)
  BY <1>1 DEF Stop, Busy, BenchTask
<1>2. ASSUME NEW x \in TaskId, Finish(x) PROVE UNCHANGED <<request, run>> /\ \A y \in TaskId : Busy(y)' => Busy(y)
  <2>1. task'[x] = Null \/ task'[x].status = "idle"
    <3>1. task'[x] = IF task[x] = Null THEN Null ELSE [task[x] EXCEPT !.status = "idle"]
      BY <1>2 DEF Finish
    <3>2. task[x] # Null => task[x] \in BenchTask
      OBVIOUS
    <3>. QED
      BY <3>1, <3>2 DEF BenchTask
  <2>2. \A y \in TaskId : y # x => task'[y] = task[y]
    BY <1>2 DEF Finish
  <2>. QED
    BY <1>2, <2>1, <2>2 DEF Busy, Finish
<1>3. ASSUME NEW x \in TaskId, Age(x) PROVE UNCHANGED <<request, run>> /\ \A y \in TaskId : Busy(y)' => Busy(y)
  <2>1. task'[x].status = "idle"
    <3>1. task'[x] = [task[x] EXCEPT !.aged = TRUE] /\ task[x] \in BenchTask /\ task[x].status = "idle"
      BY <1>3 DEF Age
    <3>. QED
      BY <3>1 DEF BenchTask
  <2>2. \A y \in TaskId : y # x => task'[y] = task[y]
    BY <1>3 DEF Age
  <2>. QED
    BY <1>3, <2>1, <2>2 DEF Busy, Age
<1>4. ASSUME Cleanup
      PROVE  /\ UNCHANGED request
             /\ \A r \in RunId : run'[r] # Null => run'[r] = run[r]
             /\ \A x \in TaskId : Busy(x)' => Busy(x)
  BY <1>4 DEF Cleanup, Busy
<1>5. ASSUME UNCHANGED vars PROVE UNCHANGED <<request, run>> /\ \A x \in TaskId : Busy(x)' => Busy(x)
  BY <1>5 DEF vars, Busy
<1>. QED
  BY <1>1, <1>2, <1>3, <1>4, <1>5

\* They leave every scope with the slots it has, or fewer.
LEMMA QuietHolds ==
  ASSUME NEW U,
         \A r \in RunId : run'[r] # Null => run'[r] = run[r],
         \A x \in TaskId : Busy(x)' => Busy(x)
  PROVE  Held(U)' \in SUBSET Held(U)
<1>1. ASSUME NEW r \in get_running_runs'
      PROVE  r \in get_running_runs /\ run'[r] = run[r]
  BY <1>1 DEF get_running_runs, ChildrenOf
<1>. QED
  BY <1>1 DEF Held, SlotsOf, RunsIn

LEMMA QuietKeepsBound ==
  ASSUME NEW U, NEW M \in Nat, Bound(U, M), UNCHANGED request,
         \A r \in RunId : run'[r] # Null => run'[r] = run[r],
         \A x \in TaskId : Busy(x)' => Busy(x)
  PROVE  Bound(U, M)'
<1>1. InFlight(U)' = InFlight(U) /\ Pending(U)' = Pending(U)
  BY DEF InFlight, Pending
<1>2. Held(U)' \in SUBSET Held(U)
  BY QuietHolds
<1>3. \A h \in InFlight(U)' : request'[h].slots <= M
  BY <1>1 DEF Bound
<1>. QED
  BY <1>1, <1>2, <1>3, ShrinkKeepsBound

LEMMA BoundStep ==
  ASSUME IndInv, [Next]_vars, NEW U \in SUBSET User, NEW M \in Nat, Bound(U, M),
         \A h \in Handler, u \in U, c \in Child, l \in Level :
           Admit(h, u, c, l) => c * l + Cardinality(Held(U)) <= M
  PROVE  Bound(U, M)'
<1> USE NullAssumption DEF IndInv, TypeOK
<1>1. ASSUME NEW h \in Handler, NEW u \in User, NEW c \in Child, NEW l \in Level,
             Admit(h, u, c, l)
      PROVE  Bound(U, M)'
  BY <1>1, AdmitKeepsBound
<1>2. ASSUME NEW h \in Handler, SettingsFail(h) PROVE Bound(U, M)'
  <2>1. /\ request' = [request EXCEPT ![h] = Null]
        /\ UNCHANGED <<run, task, executing>>
    BY <1>2 DEF SettingsFail
  <2>2. InFlight(U)' \in SUBSET InFlight(U) /\ \A g \in InFlight(U)' : request'[g] = request[g]
    BY <2>1 DEF InFlight
  <2>3. Pending(U)' \in SUBSET Pending(U)
    BY <2>2 DEF Pending
  <2>4. Held(U)' = Held(U)
    BY <2>1 DEF Held, SlotsOf, RunsIn, get_running_runs, ChildrenOf, Busy
  <2>5. \A g \in InFlight(U)' : request'[g].slots <= M
    BY <2>2 DEF Bound
  <2>. QED
    BY <2>3, <2>4, <2>5, ShrinkKeepsBound
<1>3. ASSUME NEW h \in Handler, NEW r \in RunId, Start(h, r) PROVE Bound(U, M)'
  BY <1>3, StartKeepsBound DEF Start
<1>4. ASSUME \/ \E r \in RunId : Stop(r)
             \/ \E x \in TaskId : Finish(x) \/ Age(x)
             \/ Cleanup \/ UNCHANGED vars
      PROVE  Bound(U, M)'
  <2>1. /\ UNCHANGED request
        /\ \A r \in RunId : run'[r] # Null => run'[r] = run[r]
        /\ \A x \in TaskId : Busy(x)' => Busy(x)
    BY <1>4, QuietSteps
  <2>. QED
    BY <2>1, QuietKeepsBound
<1>. QED
  BY <1>1, <1>2, <1>3, <1>4 DEF Next

\* The two limits as instances of the bound.
LEMMA Scopes ==
  ASSUME TypeOK
  PROVE  /\ Cardinality(Held(User)) = get_running_slots
         /\ \A u \in User : Cardinality(Held({u})) = UserRunningSlots(u)
<1>1. RunsIn(User) = get_running_runs
  BY DEF RunsIn, get_running_runs, TypeOK, BenchRun
<1>2. \A u \in User : RunsIn({u}) = RunningRunsOf(u)
  BY DEF RunsIn, RunningRunsOf
<1>. QED
  BY <1>1, <1>2 DEF Held, get_running_slots, UserRunningSlots

SlotInv == Bound(User, GlobalMax) /\ \A u \in User : Bound({u}, UserMax)

LEMMA SlotInvInit == Init => SlotInv
<1> SUFFICES ASSUME Init, NEW U, NEW M \in Nat PROVE Bound(U, M)
  BY LimitAssumption DEF SlotInv
<1>1. InFlight(U) = {} /\ get_running_runs = {}
  BY DEF Init, InFlight, get_running_runs
<1>2. Held(U) = {} /\ Pending(U) = {}
  BY <1>1 DEF Held, SlotsOf, RunsIn, Pending
<1>3. Cardinality(Held(U)) = 0 /\ Cardinality(Pending(U)) = 0
  BY <1>2, FS_EmptySet
<1>4. 0 <= Cardinality(Handler) * M
  <2>1. Cardinality(Handler) \in Nat
    BY FS_CardinalityType, FiniteAssumption
  <2>. QED
    BY <2>1
<1>. QED
  BY <1>1, <1>3, <1>4 DEF Bound

\* Every step keeps what the starts in flight and the running runs claim.
LEMMA SlotInvStep == IndInv /\ SlotInv /\ [Next]_vars => SlotInv'
<1> SUFFICES ASSUME IndInv, SlotInv, [Next]_vars PROVE SlotInv'
  OBVIOUS
<1>1. Bound(User, GlobalMax)'
  <2>1. \A h \in Handler, u \in User, c \in Child, l \in Level :
          Admit(h, u, c, l) => c * l + Cardinality(Held(User)) <= GlobalMax
    BY AdmittedSlots, Scopes DEF Admit, IndInv
  <2>2. User \in SUBSET User /\ GlobalMax \in Nat
    BY LimitAssumption
  <2>. QED
    BY <2>1, <2>2, BoundStep DEF SlotInv
<1>2. ASSUME NEW v \in User PROVE Bound({v}, UserMax)'
  <2>1. \A h \in Handler, u \in {v}, c \in Child, l \in Level :
          Admit(h, u, c, l) => c * l + Cardinality(Held({v})) <= UserMax
    BY AdmittedSlots, Scopes DEF Admit, IndInv
  <2>2. {v} \in SUBSET User /\ UserMax \in Nat
    BY LimitAssumption
  <2>. QED
    BY <2>1, <2>2, BoundStep DEF SlotInv
<1>. QED
  BY <1>1, <1>2 DEF SlotInv

LEMMA SlotInvInvariant == Spec => [](IndInv /\ SlotInv)
BY SlotInvInit, SlotInvStep, IndInvInvariant, PTL DEF Spec

\* The slots of a scope stay within its bound.
LEMMA BoundLimits ==
  ASSUME NEW U, NEW M \in Nat, Bound(U, M)
  PROVE  Cardinality(Held(U)) <= Cardinality(Handler) * M
<1>1. Cardinality(Held(U)) \in Nat /\ Cardinality(Pending(U)) \in Nat
  BY HeldFinite, PendingFinite
<1>2. Cardinality(Handler) \in Nat
  BY FS_CardinalityType, FiniteAssumption
<1>3. Cardinality(Handler) * M \in Int
  BY <1>2
<1>. QED
  BY <1>1, <1>3 DEF Bound

\* However many starts interleave over the await in _start_run_for_profile, n of
\* them in flight exceed each limit at most n-fold.
THEOREM OvercommitIsBounded == Spec => []OvercommitBound
<1>1. IndInv /\ SlotInv => OvercommitBound
  BY BoundLimits, Scopes, LimitAssumption DEF IndInv, SlotInv, OvercommitBound
<1>. QED
  BY <1>1, SlotInvInvariant, PTL

\* With one start in flight at a time the documented limits hold.
THEOREM SingleStartKeepsLimits ==
  ASSUME Cardinality(Handler) = 1
  PROVE  Spec => []SlotLimits
<1>1. IndInv /\ SlotInv => SlotLimits
  <2>1. Cardinality(Handler) * GlobalMax = GlobalMax /\ Cardinality(Handler) * UserMax = UserMax
    BY LimitAssumption
  <2>. QED
    BY <2>1, BoundLimits, Scopes, LimitAssumption DEF IndInv, SlotInv, SlotLimits
<1>. QED
  BY <1>1, SlotInvInvariant, PTL
-------------------------------------------------------------------------------
(***************************************************************************)
(* Refinement: with one start in flight, the capacity check still holds    *)
(* when the run is registered, so the two halves are one atomic Acquire.   *)
(***************************************************************************)
\* SlotPool counts with the Cardinality of its own copy of FiniteSets.
LEMMA SameCardinality == \A S : Pool!Cardinality(S) = Cardinality(S)
BY DEF Pool!Cardinality, Cardinality, Pool!IsFiniteSet, IsFiniteSet

LEMMA PoolSlots ==
  ASSUME TypeOK
  PROVE  /\ Pool!Taken(Pool!Holders) = SlotsOf(get_running_runs)
         /\ \A u \in User : Pool!Taken(Pool!HoldersOf(u)) = SlotsOf(RunningRunsOf(u))
         /\ Pool!Holders = get_running_runs
<1>1. \A r \in get_running_runs : /\ pool[r].owner = run[r].owner
                                  /\ pool[r].slots = run[r].slots
                                  /\ pool[r] # Null
  <2> SUFFICES ASSUME NEW r \in get_running_runs
               PROVE  /\ pool[r].owner = run[r].owner
                      /\ pool[r].slots = run[r].slots
                      /\ pool[r] # Null
    OBVIOUS
  <2>1. run[r] \in BenchRun
    BY DEF get_running_runs, TypeOK
  <2>2. pool[r] = [owner |-> run[r].owner, slots |-> run[r].slots]
    BY DEF pool, get_running_runs
  <2>. QED
    BY <2>1, <2>2, NullAssumption DEF BenchRun
<1>2. Pool!Holders = get_running_runs
  BY <1>1 DEF Pool!Holders, pool, get_running_runs
<1>3. \A u \in User : Pool!HoldersOf(u) = RunningRunsOf(u)
  BY <1>1, <1>2 DEF Pool!HoldersOf, RunningRunsOf
<1>. QED
  BY <1>1, <1>2, <1>3 DEF Pool!Taken, SlotsOf, Slot, RunningRunsOf

\* What one start in flight guarantees at the time it registers its run.
LEMMA StartFits ==
  ASSUME IndInv, SlotInv, Cardinality(Handler) = 1, NEW h \in Handler, request[h] # Null
  PROVE  /\ request[h].slots + get_running_slots <= GlobalMax
         /\ request[h].slots + UserRunningSlots(request[h].owner) <= UserMax
<1> DEFINE n == request[h].slots
           u == request[h].owner
<1>1. request[h] \in BenchRun /\ n \in Slot /\ n \in Nat /\ u \in User
  BY DEF IndInv, TypeOK, BenchRun, Slot
<1>2. ASSUME NEW U, u \in U, NEW M \in Nat, Bound(U, M)
      PROVE  n + Cardinality(Held(U)) <= M
  <2>1. ({h} \X (1..n)) \in SUBSET Pending(U)
    <3>1. h \in InFlight(U)
      BY <1>2 DEF InFlight
    <3>2. ASSUME NEW s \in {h} \X (1..n) PROVE s \in Pending(U)
      <4>1. s = <<h, s[2]>> /\ s[1] = h /\ s[2] \in 1..n
        OBVIOUS
      <4>2. s[2] \in Slot /\ s[2] <= request[h].slots
        BY <1>1, <4>1, LimitAssumption DEF Slot
      <4>. QED
        BY <3>1, <4>1, <4>2 DEF Pending
    <3>. QED
      BY <3>2
  <2>2. Cardinality({h} \X (1..n)) = n
    BY <1>1, Block
  <2>3. n <= Cardinality(Pending(U))
    BY <2>1, <2>2, PendingFinite, FS_Subset
  <2>4. Cardinality(Handler) * M = M
    OBVIOUS
  <2>. QED
    BY <1>1, <1>2, <2>3, <2>4, HeldFinite, PendingFinite DEF Bound
<1>3. n + Cardinality(Held(User)) <= GlobalMax
  BY <1>1, <1>2, LimitAssumption DEF SlotInv
<1>4. n + Cardinality(Held({u})) <= UserMax
  BY <1>1, <1>2, LimitAssumption DEF SlotInv
<1>. QED
  BY <1>1, <1>3, <1>4, Scopes DEF IndInv

\* A step that adds no busy task frees or keeps whole leases: if only the tasks of
\* one run change, it is a Release or a stutter of the pool.
LEMMA QuietPool ==
  ASSUME \A r \in get_running_runs' : r \in get_running_runs /\ run'[r] = run[r],
         get_running_runs \in SUBSET get_running_runs'
  PROVE  pool' = pool
BY DEF pool

\* With a single start in flight, admission implements the atomic slot pool.
THEOREM SingleStartImplementsPool ==
  ASSUME Cardinality(Handler) = 1
  PROVE  Spec => ImplementsPool
<1>1. Init => Pool!PoolInit
  BY DEF Init, Pool!PoolInit, pool, get_running_runs
<1>2. IndInv /\ IndInv' /\ SlotInv /\ [Next]_vars => [Pool!PoolNext]_pool
  <2> SUFFICES ASSUME IndInv, IndInv', SlotInv, [Next]_vars
               PROVE  [Pool!PoolNext]_pool
    OBVIOUS
  <2> USE NullAssumption DEF IndInv, TypeOK
  <2>1. ASSUME UNCHANGED <<run, task>> PROVE pool' = pool
    BY <2>1 DEF pool, get_running_runs, ChildrenOf, Busy
  <2>2. ASSUME NEW h \in Handler, NEW r \in RunId, Start(h, r)
        PROVE  Pool!PoolNext
    <3>0. PICK lease : lease = [owner |-> request[h].owner, slots |-> request[h].slots]
      OBVIOUS
    <3>1. /\ request[h] \in BenchRun /\ request[h] # Null /\ run[r] = Null
          /\ run' = [run EXCEPT ![r] = request[h]]
      BY <2>2 DEF Start, Register
    <3>2. lease \in Pool!Lease
      BY <3>0, <3>1 DEF Pool!Lease, BenchRun, Slot
    <3>3. pool[r] = Null
      BY <3>1 DEF pool, get_running_runs
    <3>4. /\ lease.slots + Cardinality(Pool!Taken(Pool!HoldersOf(lease.owner))) <= UserMax
          /\ lease.slots + Cardinality(Pool!Taken(Pool!Holders)) <= GlobalMax
      <4>1. request[h].owner \in User
        BY <3>1 DEF BenchRun
      <4>. QED
        BY <3>0, <3>1, <4>1, StartFits, PoolSlots DEF get_running_slots, UserRunningSlots
    <3>5. get_running_runs' = get_running_runs \cup {r}
      <4>1. get_running_runs' \in SUBSET (get_running_runs \cup {r})
        BY <2>2, <3>1, RegisterRuns DEF Start
      <4>2. r \in get_running_runs'
        <5>1. 1 \in Child /\ 1 <= request[h].children
          BY <3>1, LimitAssumption DEF BenchRun, Child
        <5>2. <<r, 1>> \in TaskId /\ <<r, 1>> \in ChildrenOf(r)' /\ run'[r] # Null
          BY <3>1, <5>1 DEF TaskId, ChildrenOf
        <5>3. task'[<<r, 1>>] = [status |-> "running", aged |-> FALSE]
          BY <2>2, <5>1, <5>2 DEF Start, Register, TaskId
        <5>4. task'[<<r, 1>>] # Null
          <6>1. [status |-> "running", aged |-> FALSE] \in BenchTask
            BY DEF BenchTask
          <6>. QED
            BY <5>3, <6>1
        <5>5. Busy(<<r, 1>>)'
          BY <5>3, <5>4 DEF Busy
        <5>. QED
          BY <5>2, <5>5 DEF get_running_runs
      <4>3. ASSUME NEW q \in get_running_runs PROVE q \in get_running_runs'
        <5>1. q \in RunId /\ run[q] # Null /\ q # r /\ run'[q] = run[q]
          BY <3>1 DEF get_running_runs
        <5>2. PICK x \in ChildrenOf(q) : Busy(x)
          BY DEF get_running_runs
        <5>3. task'[x] = task[x] /\ x \in ChildrenOf(q)'
          BY <2>2, <5>1, <5>2 DEF Start, Register, ChildrenOf
        <5>. QED
          BY <5>1, <5>2, <5>3 DEF get_running_runs, Busy
      <4>. QED
        BY <4>1, <4>2, <4>3
    <3>6. pool' = [pool EXCEPT ![r] = lease]
      BY <3>0, <3>1, <3>5 DEF pool, get_running_runs
    <3>7. Pool!Acquire(r, lease)
      BY <3>3, <3>4, <3>6, SameCardinality DEF Pool!Acquire
    <3>. QED
      BY <3>2, <3>7 DEF Pool!PoolNext
  <2>3. ASSUME NEW r \in RunId, Stop(r) PROVE pool' = pool
    <3>1. \A x \in TaskId : Busy(x)' <=> Busy(x)
      BY <2>3 DEF Stop, Busy, BenchTask
    <3>2. run' = run
      BY <2>3 DEF Stop
    <3>. QED
      BY <3>1, <3>2 DEF pool, get_running_runs, ChildrenOf
  <2>4. ASSUME NEW x \in TaskId, Finish(x) PROVE [Pool!PoolNext]_pool
    <3>1. run' = run /\ \A y \in TaskId : y # x => task'[y] = task[y]
      BY <2>4 DEF Finish
    <3>2. ~Busy(x)'
      <4>1. task[x] \in BenchTask /\ task'[x] = [task[x] EXCEPT !.status = "idle"]
        BY <2>4 DEF Finish, Structure, Busy
      <4>. QED
        BY <4>1 DEF Busy, BenchTask
    <3>3. x[1] \in RunId
      BY DEF TaskId
    <3>4. ASSUME NEW r \in RunId, r # x[1]
          PROVE  r \in get_running_runs' <=> r \in get_running_runs
      BY <3>1, <3>4 DEF get_running_runs, ChildrenOf, Busy
    <3>5. x[1] \in get_running_runs' => x[1] \in get_running_runs
      BY <3>1, <3>2 DEF get_running_runs, ChildrenOf, Busy
    <3>6. CASE x[1] \in get_running_runs' \/ x[1] \notin get_running_runs
      <4>1. \A r \in RunId : r \in get_running_runs' <=> r \in get_running_runs
        BY <3>4, <3>5, <3>6
      <4>. QED
        BY <3>1, <4>1 DEF pool
    <3>7. CASE x[1] \notin get_running_runs' /\ x[1] \in get_running_runs
      <4>1. pool' = [pool EXCEPT ![x[1]] = Null]
        BY <3>1, <3>3, <3>4, <3>7 DEF pool
      <4>2. pool[x[1]] # Null
        <5>1. x[1] \in Pool!Holders
          BY <3>7, PoolSlots
        <5>. QED
          BY <5>1 DEF Pool!Holders
      <4>3. Pool!Release(x[1])
        BY <4>1, <4>2 DEF Pool!Release
      <4>. QED
        BY <3>3, <4>3 DEF Pool!PoolNext
    <3>. QED
      BY <3>6, <3>7
  <2>5. ASSUME NEW x \in TaskId, Age(x) PROVE pool' = pool
    <3>1. \A y \in TaskId : Busy(y)' <=> Busy(y)
      <4>1. task[x] \in BenchTask /\ task'[x] = [task[x] EXCEPT !.aged = TRUE]
        BY <2>5 DEF Age
      <4>2. task'[x] \in BenchTask /\ task'[x].status = task[x].status
        BY <4>1 DEF BenchTask
      <4>3. \A y \in TaskId : y # x => task'[y] = task[y]
        BY <2>5 DEF Age
      <4>. QED
        BY <4>1, <4>2, <4>3 DEF Busy
    <3>2. run' = run
      BY <2>5 DEF Age
    <3>. QED
      BY <3>1, <3>2 DEF pool, get_running_runs, ChildrenOf
  <2>6. ASSUME Cleanup PROVE pool' = pool
    <3>1. \A x \in TaskId : Busy(x)' <=> Busy(x)
      BY <2>6 DEF Cleanup, Busy, Expired
    <3>2. \A r \in RunId : run'[r] # Null => run'[r] = run[r]
      BY <2>6 DEF Cleanup
    <3>3. \A r \in get_running_runs' : r \in get_running_runs /\ run'[r] = run[r]
      BY <3>1, <3>2 DEF get_running_runs, ChildrenOf
    <3>4. ASSUME NEW r \in get_running_runs PROVE r \in get_running_runs'
      <4>1. PICK x \in ChildrenOf(r) : Busy(x)
        BY DEF get_running_runs
      <4>2. task'[x] # Null /\ x \in TaskId
        BY <3>1, <4>1 DEF Busy, ChildrenOf
      <4>3. run'[r] = run[r] /\ run[r] # Null /\ r \in RunId
        BY <2>6, <4>1, <4>2 DEF Cleanup, get_running_runs
      <4>. QED
        BY <3>1, <4>1, <4>3 DEF get_running_runs, ChildrenOf
    <3>. QED
      BY <3>3, <3>4, QuietPool
  <2>. QED
    <3>1. ASSUME NEW h \in Handler, NEW u \in User, NEW c \in Child, NEW l \in Level,
                 Admit(h, u, c, l)
          PROVE  pool' = pool
      BY <2>1, <3>1 DEF Admit
    <3>2. ASSUME NEW h \in Handler, SettingsFail(h) PROVE pool' = pool
      BY <2>1, <3>2 DEF SettingsFail
    <3>3. ASSUME UNCHANGED vars PROVE pool' = pool
      BY <2>1, <3>3 DEF vars
    <3>. QED
      BY <2>2, <2>3, <2>4, <2>5, <2>6, <3>1, <3>2, <3>3 DEF Next
<1>. QED
  BY <1>1, <1>2, SlotInvInvariant, PTL DEF Spec, ImplementsPool, Pool!PoolSpec
===============================================================================
