----------------------------- MODULE AlertingProofs -----------------------------
(***************************************************************************)
(* Theorems about Alerting: its types under any edits, and, for edits that *)
(* do not overlap with an execution, that no deleted site is left alerting,*)
(* that the overview shows what the chat was told, and that alarms and     *)
(* their acknowledgements are an AlarmPanel.                               *)
(***************************************************************************)
EXTENDS Alerting, SequenceTheorems, TLAPS

\* The rounds of a name, once one is added.
LEMMA BoundedRounds ==
  ASSUME NEW s
  PROVE  s \in BoundedSeq(BOOLEAN, Window) <=> s \in Seq(BOOLEAN) /\ Len(s) <= Window
<1>1. Window \in Nat
  BY RulesAssumption
<1>2. ASSUME s \in BoundedSeq(BOOLEAN, Window) PROVE s \in Seq(BOOLEAN) /\ Len(s) <= Window
  <2>1. PICK m \in 0..Window : s \in [1..m -> BOOLEAN]
    BY <1>2 DEF BoundedSeq, SeqOf
  <2>2. s \in Seq(BOOLEAN) /\ Len(s) = m
    BY <2>1
  <2>. QED
    BY <1>1, <2>1, <2>2
<1>3. ASSUME s \in Seq(BOOLEAN), Len(s) <= Window PROVE s \in BoundedSeq(BOOLEAN, Window)
  <2>1. Len(s) \in 0..Window /\ s \in [1..Len(s) -> BOOLEAN]
    BY <1>1, <1>3
  <2>. QED
    BY <2>1 DEF BoundedSeq, SeqOf
<1>. QED
  BY <1>2, <1>3

LEMMA RoundType ==
  ASSUME TypeOK, NEW n \in Name, NEW bad \in BOOLEAN
  PROVE  Round(n, bad) \in BoundedSeq(BOOLEAN, Window)
<1>1. results[n] \in Seq(BOOLEAN) /\ Len(results[n]) <= Window
  BY BoundedRounds DEF TypeOK
<1>2. PICK all : all = Append(results[n], bad)
  OBVIOUS
<1>3. all \in Seq(BOOLEAN) /\ Len(all) <= Window + 1 /\ all # <<>>
  BY <1>1, <1>2, RulesAssumption
<1>4. Tail(all) \in Seq(BOOLEAN) /\ Len(Tail(all)) = Len(all) - 1
  BY <1>3
<1>5. (IF Len(all) > Window THEN Tail(all) ELSE all) \in BoundedSeq(BOOLEAN, Window)
  <2>1. Window \in Nat /\ Len(all) \in Nat
    BY <1>3, RulesAssumption
  <2>2. Len(Tail(all)) <= Window
    BY <1>3, <1>4, <2>1
  <2>3. Tail(all) \in BoundedSeq(BOOLEAN, Window)
    BY <1>4, <2>2, BoundedRounds
  <2>4. CASE Len(all) > Window
    BY <2>3, <2>4
  <2>5. CASE ~(Len(all) > Window)
    <3>1. Len(all) <= Window
      BY <2>1, <2>5
    <3>. QED
      BY <1>3, <2>5, <3>1, BoundedRounds
  <2>. QED
    BY <2>4, <2>5
<1>. QED
  BY <1>2, <1>5 DEF Round

LEMMA TailType ==
  ASSUME TypeOK, NEW n \in Name, Len(results[n]) > MinRounds
  PROVE  Tail(results[n]) \in BoundedSeq(BOOLEAN, Window)
<1>1. PICK rounds : rounds = results[n]
  OBVIOUS
<1>2. rounds \in Seq(BOOLEAN) /\ Len(rounds) <= Window /\ Len(rounds) \in Nat
  BY <1>1, BoundedRounds DEF TypeOK
<1>3. Window \in Nat /\ MinRounds \in Nat
  BY RulesAssumption
<1>4. Len(rounds) # 0
  BY <1>1, <1>2, <1>3
<1>5. rounds # <<>>
  BY <1>4
<1>6. Tail(rounds) \in Seq(BOOLEAN) /\ Len(Tail(rounds)) = Len(rounds) - 1
  BY <1>2, <1>5, HeadTailProperties
<1>7. Len(Tail(rounds)) <= Window
  BY <1>2, <1>3, <1>6
<1>8. Tail(rounds) \in BoundedSeq(BOOLEAN, Window)
  BY <1>6, <1>7, BoundedRounds
<1>. QED
  BY <1>1, <1>8

\* The verdict on a cell that had none counts as one on a cell that was ok.
LEMMA Verdict ==
  ASSUME NEW rounds, NEW states \in [Name -> State], NEW n \in Name
  PROVE  evaluate_window(rounds, CellState(states, n)) \in {"ok", "alerting"}
BY DEF evaluate_window, CellState, State

\* What Judge finds: sites that go down, sites that come up again, and the state of
\* every name.
Ups == {n \in Name : exec.prev[n] # "alerting" /\ exec.new[n] = "alerting"}
Downs == {n \in Name : exec.prev[n] = "alerting" /\ exec.new[n] # "alerting"}

LEMMA JudgeFinds ==
  ASSUME exec \in Execution, Judge
  PROVE  /\ exec'.pc = After(exec)' /\ exec'.new \in [Name -> State]
         /\ exec'.pc \in {"alerting", "recovering", "saving"}
         /\ exec'.prev = exec.prev /\ exec'.ids = exec.ids /\ exec'.todo = exec.todo
         /\ exec'.fresh = exec.fresh /\ exec'.cells = exec.cells
         /\ exec' \in Execution
         /\ exec'.alerts = Ups' /\ exec'.recovers = Downs'
         /\ \A n \in Name : exec'.new[n] = "alerting" => exec.prev[n] = "alerting" \/ n \in exec.cells
<1> DEFINE Judged(n) == evaluate_window(results[n], CellState(exec.prev, n))
           new == [n \in Name |->
                     IF n \in exec.cells THEN Judged(n)
                     ELSE IF exec.prev[n] = "alerting" THEN "alerting" ELSE "none"]
           alerts == {n \in exec.cells : CellState(exec.prev, n) = "ok" /\ new[n] = "alerting"}
           recovers == {n \in exec.cells : exec.prev[n] = "alerting" /\ new[n] = "ok"}
           judged == [exec EXCEPT !.new = new, !.alerts = alerts, !.recovers = recovers]
<1>1. exec' = [judged EXCEPT !.pc = After(judged)]
  BY DEF Judge
<1>2. exec.prev \in [Name -> State] /\ exec.cells \in SUBSET Name
  BY DEF Execution
<1>3. /\ new \in [Name -> State]
      /\ \A n \in exec.cells : new[n] \in {"ok", "alerting"}
      /\ \A n \in Name \ exec.cells : new[n] = IF exec.prev[n] = "alerting" THEN "alerting" ELSE "none"
  <2>1. \A n \in Name : Judged(n) \in {"ok", "alerting"}
    BY <1>2, Verdict
  <2> HIDE DEF Judged
  <2>. QED
    BY <1>2, <2>1 DEF State
<1> HIDE DEF new
<1>4. /\ alerts = {n \in Name : exec.prev[n] # "alerting" /\ new[n] = "alerting"}
      /\ recovers = {n \in Name : exec.prev[n] = "alerting" /\ new[n] # "alerting"}
      /\ alerts \in SUBSET Name /\ recovers \in SUBSET Name
  BY <1>2, <1>3 DEF CellState, State
<1> HIDE DEF alerts, recovers
<1>5. /\ judged.new = new /\ judged.alerts = alerts /\ judged.recovers = recovers
      /\ judged.prev = exec.prev /\ judged.ids = exec.ids /\ judged.todo = exec.todo
      /\ judged.fresh = exec.fresh /\ judged.cells = exec.cells
      /\ judged \in Execution
  BY <1>3, <1>4 DEF Execution
<1>6. After(judged) \in {"alerting", "recovering", "saving"}
  BY DEF After
<1> HIDE DEF judged
<1>7. /\ exec'.pc = After(judged)
      /\ exec'.new = new /\ exec'.alerts = alerts /\ exec'.recovers = recovers
      /\ exec'.prev = exec.prev /\ exec'.ids = exec.ids /\ exec'.todo = exec.todo
      /\ exec'.fresh = exec.fresh /\ exec'.cells = exec.cells
      /\ exec' \in Execution
  BY <1>1, <1>5, <1>6 DEF Execution
<1>8. After(exec)' = After(judged)
  BY <1>5, <1>7 DEF After
<1>. QED
  BY <1>3, <1>4, <1>6, <1>7, <1>8 DEF Ups, Downs
---------------------------------------------------------------------------------
LEMMA IdleType == Idle \in Execution
BY DEF Idle, Execution, State

LEMMA NoRoundType == <<>> \in BoundedSeq(BOOLEAN, Window)
<1>1. PICK rounds : rounds = <<>>
  OBVIOUS
<1>2. rounds \in Seq(BOOLEAN) /\ Len(rounds) = 0
  BY <1>1
<1>3. Window \in Nat
  BY RulesAssumption
<1>4. Len(rounds) <= Window
  BY <1>2, <1>3
<1>5. rounds \in BoundedSeq(BOOLEAN, Window)
  BY <1>2, <1>4, BoundedRounds
<1>. QED
  BY <1>1, <1>5

\* A step keeps the types.
LEMMA TypeStep ==
  ASSUME TypeOK, [Next]_vars
  PROVE  TypeOK'
<1>. USE DEF TypeOK
<1>1. CASE Begin
  <2>1. exec' \in Execution
    BY <1>1, IdleType DEF Begin, Idle, Execution
  <2>. QED
    BY <1>1, <2>1 DEF Begin, tables
<1>2. CASE Probe
  <2>1. exec' \in Execution
    BY <1>2, IdleType DEF Probe, Execution
  <2>. QED
    BY <1>2, <2>1 DEF Probe, tables
<1>3. CASE ReadCells
  <2>1. exec' \in Execution
    BY <1>3, IdleType DEF ReadCells, Execution
  <2>. QED
    BY <1>3, <2>1 DEF ReadCells, tables
<1>4. CASE Judge
  BY <1>4, JudgeFinds DEF Judge, tables
<1>5. CASE SendAlert \/ SendRecover
  <2>1. exec' \in Execution
    BY <1>5 DEF SendAlert, SendRecover, Step, Execution
  <2>2. card' \in [Name -> {"none", "alert", "recover"}]
    BY <1>5 DEF SendAlert, SendRecover, Send
  <2>. QED
    BY <1>5, <2>1, <2>2 DEF SendAlert, SendRecover, Send, tables
<1>6. CASE SaveState
  <2>1. alert_state' \in [Name -> State]
    BY <1>6 DEF SaveState, SaveIf, Execution
  <2>. QED
    BY <1>6, <2>1, IdleType DEF SaveState, SaveIf
<1>7. ASSUME NEW n \in Name, SaveRound(n) PROVE TypeOK'
  <2>1. exec' \in Execution
    BY <1>7 DEF SaveRound, Execution
  <2>2. Round(n, n \in broken) \in BoundedSeq(BOOLEAN, Window)
    <3>1. \A bad \in BOOLEAN : Round(n, bad) \in BoundedSeq(BOOLEAN, Window)
      BY RoundType
    <3>2. CASE n \in broken
      <4>1. (n \in broken) = TRUE
        BY <3>2
      <4>. QED
        BY <3>1, <4>1, Zenon
    <3>3. CASE n \notin broken
      <4>1. (n \in broken) = FALSE
        BY <3>3
      <4>. QED
        BY <3>1, <4>1, Zenon
    <3>. QED
      BY <3>2, <3>3
  <2> DEFINE round == Round(n, n \in broken)
  <2>3. results' = [results EXCEPT ![n] = round]
    BY <1>7 DEF SaveRound
  <2>. HIDE DEF round
  <2>4. results' \in [Name -> BoundedSeq(BOOLEAN, Window)]
    BY <2>2, <2>3 DEF round
  <2>. QED
    BY <1>7, <2>1, <2>4 DEF SaveRound
<1>8. ASSUME NEW n \in Name, ClearAck(n) PROVE TypeOK'
  <2>1. exec' \in Execution
    BY <1>8 DEF ClearAck, Execution
  <2>. QED
    BY <1>8, <2>1 DEF ClearAck
<1>9. CASE Abort
  <2>1. faults' \in 0..MaxFaults
    BY <1>9, RulesAssumption DEF Abort
  <2>. QED
    BY <1>9, <2>1, IdleType DEF Abort, tables
<1>10. ASSUME NEW n \in Name, SaveFails(n) PROVE TypeOK'
  <2>1. faults' \in 0..MaxFaults
    BY <1>10, RulesAssumption DEF SaveFails
  <2>2. exec' \in Execution
    BY <1>10 DEF SaveFails, Execution
  <2>. QED
    BY <1>10, <2>1, <2>2 DEF SaveFails, tables
<1>11. ASSUME NEW n \in Name, CreateSite(n) \/ Ack(n) \/ Unack(n) PROVE TypeOK'
  BY <1>11 DEF CreateSite, Ack, Unack
<1>12. ASSUME NEW n \in Name, Turn(n) PROVE TypeOK'
  <2>1. broken' \subseteq Name
    BY <1>12 DEF Turn
  <2>. QED
    BY <1>12, <2>1 DEF Turn, tables
<1>13. ASSUME NEW n \in Name, DeleteProfile(n) PROVE TypeOK'
  <2>1. alert_state' \in [Name -> State] /\ card' \in [Name -> {"none", "alert", "recover"}]
    BY <1>13 DEF DeleteProfile, State
  <2>. QED
    BY <1>13, <2>1 DEF DeleteProfile
<1>14. ASSUME NEW n \in Name, Expire(n) PROVE TypeOK'
  <2> DEFINE rest == Tail(results[n])
  <2>1. rest \in BoundedSeq(BOOLEAN, Window)
    BY <1>14, TailType DEF Expire
  <2>2. results' = [results EXCEPT ![n] = rest]
    BY <1>14 DEF Expire
  <2>. HIDE DEF rest
  <2>3. results' \in [Name -> BoundedSeq(BOOLEAN, Window)]
    BY <2>1, <2>2
  <2>. QED
    BY <1>14, <2>3 DEF Expire
<1>15. ASSUME NEW old \in Name, NEW new \in Name, RenameProfile(old, new) PROVE TypeOK'
  <2>1. results' \in [Name -> BoundedSeq(BOOLEAN, Window)]
    BY <1>15, NoRoundType DEF RenameProfile, Transfer
  <2>2. alert_state' \in [Name -> State] /\ card' \in [Name -> {"none", "alert", "recover"}]
    BY <1>15 DEF RenameProfile, Transfer, State
  <2>3. \A S \in SUBSET Name : Moved(S, old, new) \in SUBSET Name
    BY DEF Moved
  <2>4. exec' \in Execution
    <3>1. Moved(exec.fresh, old, new) \in SUBSET Name
      BY <2>3 DEF Execution
    <3>. QED
      BY <1>15, <3>1 DEF RenameProfile, Execution
  <2>5. sites' \subseteq Name /\ profile_ids' \subseteq Name /\ acks' \subseteq Name /\ broken' \subseteq Name
    BY <1>15, <2>3 DEF RenameProfile
  <2>. QED
    BY <1>15, <2>1, <2>2, <2>4, <2>5 DEF RenameProfile
<1>16. ASSUME NEW ids \in SUBSET Name, EditIds(ids) PROVE TypeOK'
  BY <1>16 DEF EditIds
<1>17. CASE UNCHANGED vars
  BY <1>17 DEF vars, tables
<1>. QED
  BY <1>1, <1>2, <1>3, <1>4, <1>5, <1>6, <1>7, <1>8, <1>9, <1>10, <1>11, <1>12, <1>13, <1>14,
     <1>15, <1>16, <1>17 DEF Next, Execute

LEMMA TypeInit == Init => TypeOK
<1>1. 0 \in 0..MaxFaults
  BY RulesAssumption
<1>. QED
  BY <1>1, IdleType, NoRoundType DEF Init, TypeOK, State

\* Every variable keeps its type, whatever edits overlap with an execution.
THEOREM TypeCorrect == Spec => []TypeOK
BY TypeInit, TypeStep, PTL DEF Spec
---------------------------------------------------------------------------------
\* The structure behind the other theorems.  Without overlap nothing moves the
\* alarms while an execution is under way, so what it read is what is there, and what
\* it found can be told from what it read and what it will write.
Raised == {n \in Name : alert_state[n] = "alerting"}

Verdicts == {"alerting", "recovering", "clearing", "saving"}

AsRead == exec.pc # "idle" => exec.prev = alert_state

NothingAtRest == exec.pc = "idle" => exec.todo = {} /\ exec.fresh = {} /\ exec.cells = {}

OfSites ==
  /\ Raised \subseteq sites
  /\ exec.todo \subseteq sites /\ exec.fresh \subseteq sites /\ exec.cells \subseteq sites
  /\ exec.pc \in Verdicts => \A n \in Name : exec.new[n] = "alerting" => n \in sites

Found ==
  /\ exec.pc = "alerting" => exec.alerts = Ups
  /\ exec.pc \in {"alerting", "recovering"} => exec.recovers = Downs

Muted ==
  /\ acks \subseteq Raised
  /\ exec.pc = "clearing" => exec.recovers \subseteq Downs /\ Downs \cap acks \subseteq exec.recovers
  /\ exec.pc = "saving" => Downs \cap acks = {}

Structure == AsRead /\ NothingAtRest /\ OfSites /\ Found /\ Muted

\* What Judge leaves to recover, when there is nothing to alert or to recover.
LEMMA FoundNothing ==
  ASSUME exec.recovers = Downs, After(exec) = "saving"
  PROVE  Downs = {}
BY DEF After

LEMMA StructureInit == Init => Structure
BY DEF Init, Idle, Structure, AsRead, NothingAtRest, OfSites, Found, Muted, Raised, Verdicts

\* Dropping the execution keeps the structure.
LEMMA DropKeepsStructure ==
  ASSUME Structure, exec' = Idle, UNCHANGED tables
  PROVE  Structure'
BY DEF Idle, tables, Structure, AsRead, NothingAtRest, OfSites, Found, Muted, Raised, Verdicts

\* So does a step of the execution that has not judged yet.
LEMMA EarlyKeepsStructure ==
  ASSUME Structure, exec'.pc \in {"begun", "probing", "judging"},
         exec'.prev = alert_state, UNCHANGED <<sites, alert_state, acks>>,
         exec'.todo \subseteq sites, exec'.fresh \subseteq sites, exec'.cells \subseteq sites
  PROVE  Structure'
BY DEF Structure, AsRead, NothingAtRest, OfSites, Found, Muted, Raised, Verdicts

\* And so does an edit between two executions that keeps alarms to sites and
\* acknowledgements to alarms.
LEMMA EditKeepsStructure ==
  ASSUME Structure, exec.pc = "idle", exec' = exec,
         Raised' \subseteq sites', acks' \subseteq Raised'
  PROVE  Structure'
BY DEF Structure, AsRead, NothingAtRest, OfSites, Found, Muted, Raised, Verdicts

\* What a card leaves: the execution goes on, and nothing else has changed.
LEMMA SendKeepsFields ==
  ASSUME exec \in Execution, NEW place \in Verdicts, Step(place)
  PROVE  /\ exec'.pc = place /\ exec'.prev = exec.prev /\ exec'.todo = exec.todo
         /\ exec'.fresh = exec.fresh /\ exec'.cells = exec.cells /\ exec'.new = exec.new
         /\ exec'.alerts = exec.alerts /\ exec'.recovers = exec.recovers
         /\ Ups' = Ups /\ Downs' = Downs
<1>1. /\ exec'.pc = place /\ exec'.prev = exec.prev /\ exec'.todo = exec.todo
      /\ exec'.fresh = exec.fresh /\ exec'.cells = exec.cells /\ exec'.new = exec.new
      /\ exec'.alerts = exec.alerts /\ exec'.recovers = exec.recovers
  BY DEF Step, Execution
<1>. QED
  BY <1>1 DEF Ups, Downs

LEMMA ClearKeepsFields ==
  ASSUME exec \in Execution, NEW n \in Name, ClearAck(n)
  PROVE  /\ exec'.pc = IF exec.recovers = {n} THEN "saving" ELSE "clearing"
         /\ exec'.prev = exec.prev /\ exec'.todo = exec.todo
         /\ exec'.fresh = exec.fresh /\ exec'.cells = exec.cells /\ exec'.new = exec.new
         /\ exec'.recovers = exec.recovers \ {n}
         /\ Ups' = Ups /\ Downs' = Downs
<1>1. /\ exec'.pc = IF exec.recovers = {n} THEN "saving" ELSE "clearing"
      /\ exec'.prev = exec.prev /\ exec'.todo = exec.todo
      /\ exec'.fresh = exec.fresh /\ exec'.cells = exec.cells /\ exec'.new = exec.new
      /\ exec'.recovers = exec.recovers \ {n}
  BY DEF ClearAck, Execution
<1>. QED
  BY <1>1 DEF Ups, Downs

LEMMA MovedKeepsSubset ==
  ASSUME NEW S, NEW T \in SUBSET S, NEW old, NEW new, new \notin S
  PROVE  Moved(T, old, new) \subseteq Moved(S, old, new)
BY DEF Moved

\* Renaming a site moves its alarm.
LEMMA RenameMovesAlarm ==
  ASSUME TypeOK, Raised \subseteq sites,
         NEW old \in Name, NEW new \in Name, RenameProfile(old, new)
  PROVE  Raised' = Moved(Raised, old, new) /\ new \notin Raised
<1>1. old # new /\ new \notin Raised /\ alert_state[new] # "alerting"
  BY DEF RenameProfile, Raised
<1>2. CASE alert_state[old] = "none"
  BY <1>1, <1>2 DEF RenameProfile, Raised, Moved
<1>3. CASE alert_state[old] # "none"
  <2>1. /\ alert_state'[new] = alert_state[old] /\ alert_state'[old] = "none"
        /\ \A n \in Name \ {old, new} : alert_state'[n] = alert_state[n]
    BY <1>1, <1>3 DEF RenameProfile, Transfer, TypeOK
  <2>. QED
    BY <1>1, <2>1 DEF Raised, Moved
<1>. QED
  BY <1>2, <1>3

\* A step of the execution keeps the structure.
LEMMA ExecuteKeepsStructure ==
  ASSUME TypeOK, Structure, Execute
  PROVE  Structure'
<1>. USE DEF TypeOK
<1>1. CASE Begin
  <2>1. /\ exec'.pc = "begun" /\ exec'.prev = alert_state
        /\ exec'.todo = {} /\ exec'.fresh = {} /\ exec'.cells = {}
    BY <1>1 DEF Begin, Idle
  <2>. QED
    BY <1>1, <2>1, EarlyKeepsStructure DEF Begin, tables
<1>2. CASE Probe
  <2>1. exec.prev = alert_state /\ exec.fresh \subseteq sites /\ exec.cells \subseteq sites
    BY <1>2 DEF Probe, Structure, AsRead, OfSites
  <2>2. CASE exec.ids \cap sites = {}
    BY <1>2, <2>2, DropKeepsStructure DEF Probe
  <2>3. CASE exec.ids \cap sites # {}
    <3>1. /\ exec'.pc = "probing" /\ exec'.prev = alert_state
          /\ exec'.todo \subseteq sites /\ exec'.fresh = exec.fresh /\ exec'.cells = exec.cells
      BY <1>2, <2>1, <2>3 DEF Probe, Execution
    <3>. QED
      BY <1>2, <2>1, <3>1, EarlyKeepsStructure DEF Probe, tables
  <2>. QED
    BY <2>2, <2>3
<1>3. CASE ReadCells
  <2>1. /\ exec.prev = alert_state
        /\ exec.todo \subseteq sites /\ exec.fresh \subseteq sites /\ exec.cells \subseteq sites
    BY <1>3 DEF ReadCells, Structure, AsRead, OfSites
  <2>2. CASE exec.fresh = {}
    BY <1>3, <2>2, DropKeepsStructure DEF ReadCells
  <2>3. CASE exec.fresh # {}
    <3>1. /\ exec'.pc = "judging" /\ exec'.prev = alert_state
          /\ exec'.todo = exec.todo /\ exec'.fresh = exec.fresh /\ exec'.cells = exec.fresh
      BY <1>3, <2>1, <2>3 DEF ReadCells, Execution
    <3>. QED
      BY <1>3, <2>1, <3>1, EarlyKeepsStructure DEF ReadCells, tables
  <2>. QED
    BY <2>2, <2>3
<1>4. ASSUME NEW n \in Name, SaveRound(n) PROVE Structure'
  <2>1. /\ exec.prev = alert_state
        /\ exec.todo \subseteq sites /\ exec.fresh \subseteq sites /\ exec.cells \subseteq sites
    BY <1>4 DEF SaveRound, Structure, AsRead, OfSites
  <2>2. /\ exec'.pc = "probing" /\ exec'.prev = alert_state
        /\ exec'.todo = exec.todo \ {n} /\ exec'.fresh = exec.fresh \cup {n} /\ exec'.cells = exec.cells
        /\ n \in exec.todo
    BY <1>4, <2>1 DEF SaveRound, Execution
  <2>3. exec'.todo \subseteq sites /\ exec'.fresh \subseteq sites /\ exec'.cells \subseteq sites
    BY <2>1, <2>2
  <2>4. UNCHANGED <<sites, alert_state, acks>>
    BY <1>4 DEF SaveRound
  <2>. QED
    BY <2>2, <2>3, <2>4, EarlyKeepsStructure
<1>5. CASE Judge
  <2>1. UNCHANGED <<sites, alert_state, acks>> /\ exec.pc = "judging"
    BY <1>5 DEF Judge, tables
  <2>2. exec.prev = alert_state
    BY <2>1 DEF Structure, AsRead
  <2>3. AsRead' /\ NothingAtRest' /\ Found'
    BY <1>5, <2>1, <2>2, JudgeFinds DEF AsRead, NothingAtRest, Found
  <2>4. OfSites'
    BY <1>5, <2>1, <2>2, JudgeFinds DEF Structure, OfSites, Raised, Verdicts
  <2>5. Muted'
    <3>1. exec'.pc = "saving" => Downs' = {}
      BY <1>5, JudgeFinds DEF After
    <3>2. exec'.pc # "clearing"
      BY <1>5, JudgeFinds
    <3>. QED
      BY <2>1, <3>1, <3>2 DEF Structure, Muted, Raised
  <2>. QED
    BY <2>3, <2>4, <2>5 DEF Structure
<1>6. CASE SendAlert
  <2>1. PICK place \in {"recovering", "saving"} :
          /\ Step(place)
          /\ place = IF exec.recovers # {} THEN "recovering" ELSE "saving"
    BY <1>6 DEF SendAlert
  <2>2. UNCHANGED <<sites, alert_state, acks>> /\ exec.pc = "alerting"
    BY <1>6 DEF SendAlert, Send, tables
  <2>3. /\ exec'.pc = place /\ exec'.prev = exec.prev /\ exec'.todo = exec.todo
        /\ exec'.fresh = exec.fresh /\ exec'.cells = exec.cells /\ exec'.new = exec.new
        /\ exec'.recovers = exec.recovers /\ Downs' = Downs
    BY <2>1, SendKeepsFields DEF Verdicts
  <2>4. exec.prev = alert_state /\ exec.recovers = Downs
    BY <2>2 DEF Structure, AsRead, Found
  <2>5. AsRead' /\ NothingAtRest' /\ Found'
    BY <2>1, <2>2, <2>3, <2>4 DEF AsRead, NothingAtRest, Found
  <2>6. OfSites'
    BY <2>2, <2>3 DEF Structure, OfSites, Raised, Verdicts
  <2>7. Muted'
    BY <2>1, <2>2, <2>3, <2>4 DEF Structure, Muted, Raised
  <2>. QED
    BY <2>5, <2>6, <2>7 DEF Structure
<1>7. CASE SendRecover
  <2>1. UNCHANGED <<sites, alert_state, acks>> /\ exec.pc = "recovering" /\ Step("clearing")
    BY <1>7 DEF SendRecover, Send, tables
  <2>2. /\ exec'.pc = "clearing" /\ exec'.prev = exec.prev /\ exec'.todo = exec.todo
        /\ exec'.fresh = exec.fresh /\ exec'.cells = exec.cells /\ exec'.new = exec.new
        /\ exec'.recovers = exec.recovers /\ Downs' = Downs
    BY <2>1, SendKeepsFields DEF Verdicts
  <2>3. exec.prev = alert_state /\ exec.recovers = Downs
    BY <2>1 DEF Structure, AsRead, Found
  <2>4. AsRead' /\ NothingAtRest' /\ Found'
    BY <2>1, <2>2, <2>3 DEF AsRead, NothingAtRest, Found
  <2>5. OfSites'
    BY <2>1, <2>2 DEF Structure, OfSites, Raised, Verdicts
  <2>6. Muted'
    BY <2>1, <2>2, <2>3 DEF Structure, Muted, Raised
  <2>. QED
    BY <2>4, <2>5, <2>6 DEF Structure
<1>8. ASSUME NEW n \in Name, ClearAck(n) PROVE Structure'
  <2>1. /\ UNCHANGED <<sites, alert_state>> /\ acks' = acks \ {n}
        /\ exec.pc = "clearing" /\ n \in exec.recovers
    BY <1>8 DEF ClearAck
  <2>2. /\ exec'.pc = IF exec.recovers = {n} THEN "saving" ELSE "clearing"
        /\ exec'.prev = exec.prev /\ exec'.todo = exec.todo
        /\ exec'.fresh = exec.fresh /\ exec'.cells = exec.cells /\ exec'.new = exec.new
        /\ exec'.recovers = exec.recovers \ {n} /\ Downs' = Downs
    BY <1>8, ClearKeepsFields
  <2>3. exec.prev = alert_state /\ exec.recovers \subseteq Downs /\ Downs \cap acks \subseteq exec.recovers
    BY <2>1 DEF Structure, AsRead, Muted
  <2>4. AsRead' /\ NothingAtRest' /\ Found'
    BY <2>1, <2>2, <2>3 DEF AsRead, NothingAtRest, Found
  <2>5. OfSites'
    BY <2>1, <2>2 DEF Structure, OfSites, Raised, Verdicts
  <2>6. Muted'
    BY <2>1, <2>2, <2>3 DEF Structure, Muted, Raised
  <2>. QED
    BY <2>4, <2>5, <2>6 DEF Structure
<1>9. CASE SaveState
  <2>1. /\ alert_state' = exec.new /\ exec' = Idle /\ UNCHANGED <<sites, acks>> /\ exec.pc = "saving"
    BY <1>9 DEF SaveState, SaveIf, Structure, AsRead
  <2>2. exec.prev = alert_state /\ Downs \cap acks = {} /\ acks \subseteq Raised
    BY <2>1 DEF Structure, AsRead, Muted
  <2>3. Raised' \subseteq sites'
    BY <2>1 DEF Structure, OfSites, Raised, Verdicts
  <2>4. acks' \subseteq Raised'
    BY <2>1, <2>2 DEF Raised, Downs
  <2>. QED
    BY <2>1, <2>3, <2>4 DEF Idle, Structure, AsRead, NothingAtRest, OfSites, Found, Muted, Verdicts
<1>. QED
  BY <1>1, <1>2, <1>3, <1>4, <1>5, <1>6, <1>7, <1>8, <1>9 DEF Execute

\* A step that leaves sites, alarms and the execution alone keeps the structure.
LEMMA QuietKeepsStructure ==
  ASSUME Structure, UNCHANGED <<sites, alert_state, acks, exec>>
  PROVE  Structure'
BY DEF Structure, AsRead, NothingAtRest, OfSites, Found, Muted, Raised, Ups, Downs, Verdicts

LEMMA StructureStep ==
  ASSUME Overlap = FALSE, TypeOK, Structure, [Next]_vars
  PROVE  Structure'
<1>1. CASE Execute
  BY <1>1, ExecuteKeepsStructure
<1>2. CASE Abort
  BY <1>2, DropKeepsStructure DEF Abort
<1>3. ASSUME NEW n \in Name, SaveFails(n) PROVE Structure'
  <2>1. /\ exec.prev = alert_state
        /\ exec.todo \subseteq sites /\ exec.fresh \subseteq sites /\ exec.cells \subseteq sites
    BY <1>3 DEF SaveFails, Structure, AsRead, OfSites
  <2>2. /\ exec'.pc = "probing" /\ exec'.prev = alert_state
        /\ exec'.todo = exec.todo \ {n} /\ exec'.fresh = exec.fresh /\ exec'.cells = exec.cells
    BY <1>3, <2>1 DEF SaveFails, Execution, TypeOK
  <2>3. exec'.todo \subseteq sites /\ exec'.fresh \subseteq sites /\ exec'.cells \subseteq sites
    BY <2>1, <2>2
  <2>4. UNCHANGED <<sites, alert_state, acks>>
    BY <1>3 DEF SaveFails, tables
  <2>. QED
    BY <2>2, <2>3, <2>4, EarlyKeepsStructure
<1>4. Raised \subseteq sites /\ acks \subseteq Raised
  BY DEF Structure, OfSites, Muted
<1>5. ASSUME NEW n \in Name, CreateSite(n) \/ Ack(n) \/ Unack(n) PROVE Structure'
  <2>1. exec.pc = "idle" /\ exec' = exec
    BY <1>5 DEF CreateSite, Ack, Unack, May
  <2>2. Raised' \subseteq sites' /\ acks' \subseteq Raised'
    BY <1>4, <1>5 DEF CreateSite, Ack, Unack, Raised, Shown
  <2>. QED
    BY <2>1, <2>2, EditKeepsStructure
<1>6. ASSUME NEW n \in Name, DeleteProfile(n) PROVE Structure'
  <2>1. exec.pc = "idle" /\ exec' = exec
    BY <1>6 DEF DeleteProfile, May
  <2>2. Raised' = Raised \ {n}
    BY <1>6 DEF DeleteProfile, Raised, TypeOK
  <2>3. Raised' \subseteq sites' /\ acks' \subseteq Raised'
    BY <1>4, <1>6, <2>2 DEF DeleteProfile
  <2>. QED
    BY <2>1, <2>3, EditKeepsStructure
<1>7. ASSUME NEW old \in Name, NEW new \in Name, RenameProfile(old, new) PROVE Structure'
  <2>1. exec.pc = "idle"
    BY <1>7 DEF RenameProfile, May
  <2>2. exec' = exec
    <3>1. exec.fresh = {}
      BY <2>1 DEF Structure, NothingAtRest
    <3>2. Moved(exec.fresh, old, new) = exec.fresh
      BY <3>1 DEF Moved
    <3>. QED
      BY <1>7, <3>2 DEF RenameProfile, TypeOK, Execution
  <2>3. Raised' = Moved(Raised, old, new)
    BY <1>4, <1>7, RenameMovesAlarm
  <2>4. new \notin sites /\ sites' = Moved(sites, old, new) /\ acks' = Moved(acks, old, new)
    BY <1>7 DEF RenameProfile
  <2>5. new \notin Raised
    BY <1>4, <2>4
  <2>6. Raised' \subseteq sites'
    BY <1>4, <2>3, <2>4, MovedKeepsSubset
  <2>7. acks' \subseteq Raised'
    BY <1>4, <2>3, <2>4, <2>5, MovedKeepsSubset
  <2>. QED
    BY <2>1, <2>2, <2>6, <2>7, EditKeepsStructure
<1>8. ASSUME NEW n \in Name, Turn(n) \/ Expire(n) PROVE Structure'
  BY <1>8, QuietKeepsStructure DEF Turn, Expire, tables
<1>9. ASSUME NEW ids \in SUBSET Name, EditIds(ids) PROVE Structure'
  BY <1>9, QuietKeepsStructure DEF EditIds
<1>10. CASE UNCHANGED vars
  BY <1>10, QuietKeepsStructure DEF vars, tables
<1>. QED
  BY <1>1, <1>2, <1>3, <1>5, <1>6, <1>7, <1>8, <1>9, <1>10 DEF Next

\* Structure is inductive together with the types.
LEMMA StructureHolds ==
  ASSUME Overlap = FALSE
  PROVE  Spec => [](TypeOK /\ Structure)
<1>1. Init => TypeOK /\ Structure
  BY TypeInit, StructureInit
<1>2. TypeOK /\ Structure /\ [Next]_vars => (TypeOK /\ Structure)'
  BY TypeStep, StructureStep
<1>. QED
  BY <1>1, <1>2, PTL DEF Spec

\* delete_profile forgets the alarm of its site (db.py:671) when no execution is under
\* way; the run in which one is under way violates this.
THEOREM DeletedSitesAreForgotten ==
  ASSUME Overlap = FALSE
  PROVE  Spec => []DeletedSitesForgotten
<1>1. TypeOK /\ Structure => DeletedSitesForgotten
  BY DEF Structure, OfSites, Raised, DeletedSitesForgotten
<1>. QED
  BY <1>1, StructureHolds, PTL
---------------------------------------------------------------------------------
\* The cards.  As long as nothing has failed, the last card about a site is an alert
\* exactly if its alarm is raised, or will be once the verdicts of this execution are
\* saved and the cards that are due have been sent.
Alarmed(n) ==
  IF exec.pc \in {"clearing", "saving"} THEN exec.new[n] = "alerting"
  ELSE IF exec.pc = "recovering" THEN exec.new[n] = "alerting" \/ n \in Downs
  ELSE alert_state[n] = "alerting"

Told == faults = 0 => \A n \in Name : card[n] = "alert" <=> Alarmed(n)

\* A step that sends nothing and alarms nobody keeps this.
LEMMA SilenceKeepsTold ==
  ASSUME Told, UNCHANGED <<card, faults>>, \A n \in Name : Alarmed(n)' <=> Alarmed(n)
  PROVE  Told'
BY DEF Told

LEMMA ToldInit == Init => Told
BY DEF Init, Idle, Told, Alarmed

LEMMA ExecuteKeepsTold ==
  ASSUME TypeOK, Structure, Told, Execute
  PROVE  Told'
<1>1. CASE Begin \/ Probe \/ ReadCells \/ \E n \in Name : SaveRound(n)
  <2>1. exec.pc \notin Verdicts /\ exec'.pc \notin Verdicts
    <3>1. CASE Begin
      BY <3>1 DEF Begin, Idle, Verdicts
    <3>2. CASE Probe
      BY <3>2 DEF Probe, Idle, Verdicts, TypeOK, Execution
    <3>3. CASE ReadCells
      BY <3>3 DEF ReadCells, Idle, Verdicts, TypeOK, Execution
    <3>4. CASE \E n \in Name : SaveRound(n)
      BY <3>4 DEF SaveRound, Verdicts, TypeOK, Execution
    <3>. QED
      BY <1>1, <3>1, <3>2, <3>3, <3>4
  <2>2. UNCHANGED <<card, faults, alert_state>>
    BY <1>1 DEF Begin, Probe, ReadCells, SaveRound, tables
  <2>3. \A n \in Name : Alarmed(n)' <=> Alarmed(n)
    BY <2>1, <2>2 DEF Alarmed, Verdicts
  <2>. QED
    BY <2>2, <2>3, SilenceKeepsTold
<1>2. CASE Judge
  <2>1. exec.pc = "judging" /\ UNCHANGED <<card, faults, alert_state>>
    BY <1>2 DEF Judge, tables
  <2>2. exec.prev = alert_state
    BY <2>1 DEF Structure, AsRead
  <2>3. /\ exec'.prev = exec.prev /\ exec'.pc \in {"alerting", "recovering", "saving"}
        /\ exec'.pc = "recovering" => Ups' = {}
        /\ exec'.pc = "saving" => Ups' = {} /\ Downs' = {}
    BY <1>2, JudgeFinds DEF After, TypeOK
  <2>4. \A n \in Name : Alarmed(n) <=> alert_state[n] = "alerting"
    BY <2>1 DEF Alarmed
  <2>5. CASE exec'.pc = "alerting"
    BY <2>1, <2>4, <2>5, SilenceKeepsTold DEF Alarmed
  <2>6. CASE exec'.pc = "recovering"
    <3>1. \A n \in Name : exec'.new[n] = "alerting" \/ n \in Downs' <=> alert_state[n] = "alerting"
      BY <2>1, <2>2, <2>3, <2>6 DEF Ups, Downs
    <3>2. \A n \in Name : Alarmed(n)' <=> Alarmed(n)
      BY <2>4, <2>6, <3>1 DEF Alarmed
    <3>. QED
      BY <2>1, <3>2, SilenceKeepsTold
  <2>7. CASE exec'.pc = "saving"
    <3>1. \A n \in Name : exec'.new[n] = "alerting" <=> alert_state[n] = "alerting"
      BY <2>1, <2>2, <2>3, <2>7 DEF Ups, Downs
    <3>2. \A n \in Name : Alarmed(n)' <=> Alarmed(n)
      BY <2>4, <2>7, <3>1 DEF Alarmed
    <3>. QED
      BY <2>1, <3>2, SilenceKeepsTold
  <2>. QED
    BY <2>3, <2>5, <2>6, <2>7
<1>3. CASE SendAlert
  <2>1. PICK place \in {"recovering", "saving"} :
          /\ Step(place)
          /\ place = IF exec.recovers # {} THEN "recovering" ELSE "saving"
    BY <1>3 DEF SendAlert
  <2>2. /\ exec.pc = "alerting" /\ faults' = faults /\ alert_state' = alert_state
        /\ card' = [n \in Name |-> IF n \in exec.alerts THEN "alert" ELSE card[n]]
    BY <1>3 DEF SendAlert, Send, tables
  <2>3. exec'.pc = place /\ exec'.new = exec.new /\ Downs' = Downs
    BY <2>1, SendKeepsFields DEF Verdicts, TypeOK
  <2>4. exec.prev = alert_state /\ exec.alerts = Ups /\ exec.recovers = Downs
    BY <2>2 DEF Structure, AsRead, Found
  <2>5. \A n \in Name : Alarmed(n)' <=> alert_state[n] = "alerting" \/ n \in Ups
    <3>1. \A n \in Name : (exec.new[n] = "alerting" \/ n \in Downs) <=> (alert_state[n] = "alerting" \/ n \in Ups)
      BY <2>4 DEF Ups, Downs
    <3>2. CASE place = "recovering"
      BY <2>3, <3>1, <3>2 DEF Alarmed
    <3>3. CASE place = "saving"
      <4>1. Downs = {}
        BY <2>1, <2>4, <3>3
      <4>. QED
        BY <2>3, <3>1, <3>3, <4>1 DEF Alarmed
    <3>. QED
      BY <3>2, <3>3
  <2>6. \A n \in Name : Alarmed(n) <=> alert_state[n] = "alerting"
    BY <2>2 DEF Alarmed
  <2>. QED
    BY <2>2, <2>4, <2>5, <2>6 DEF Told
<1>4. CASE SendRecover
  <2>1. /\ exec.pc = "recovering" /\ faults' = faults /\ Step("clearing")
        /\ card' = [n \in Name |-> IF n \in exec.recovers THEN "recover" ELSE card[n]]
    BY <1>4 DEF SendRecover, Send
  <2>2. exec'.pc = "clearing" /\ exec'.new = exec.new
    BY <2>1, SendKeepsFields DEF Verdicts, TypeOK
  <2>3. exec.recovers = Downs
    BY <2>1 DEF Structure, Found
  <2>4. \A n \in Name : /\ Alarmed(n)' <=> exec.new[n] = "alerting"
                        /\ Alarmed(n) <=> exec.new[n] = "alerting" \/ n \in Downs
    BY <2>1, <2>2 DEF Alarmed
  <2>5. \A n \in Downs : exec.new[n] # "alerting"
    BY DEF Downs
  <2>. QED
    BY <2>1, <2>3, <2>4, <2>5 DEF Told
<1>5. ASSUME NEW n \in Name, ClearAck(n) PROVE Told'
  <2>1. exec.pc = "clearing" /\ UNCHANGED <<card, faults>>
    BY <1>5 DEF ClearAck
  <2>2. exec'.pc \in {"clearing", "saving"} /\ exec'.new = exec.new
    BY <1>5, ClearKeepsFields DEF TypeOK
  <2>3. \A m \in Name : Alarmed(m)' <=> Alarmed(m)
    BY <2>1, <2>2 DEF Alarmed
  <2>. QED
    BY <2>1, <2>3, SilenceKeepsTold
<1>6. CASE SaveState
  <2>1. /\ alert_state' = exec.new /\ exec'.pc = "idle" /\ exec.pc = "saving"
        /\ UNCHANGED <<card, faults>>
    BY <1>6 DEF SaveState, SaveIf, Idle, Structure, AsRead
  <2>2. \A n \in Name : Alarmed(n)' <=> Alarmed(n)
    BY <2>1 DEF Alarmed
  <2>. QED
    BY <2>1, <2>2, SilenceKeepsTold
<1>. QED
  BY <1>1, <1>2, <1>3, <1>4, <1>5, <1>6 DEF Execute

LEMMA ToldStep ==
  ASSUME Overlap = FALSE, TypeOK, Structure, Told, [Next]_vars
  PROVE  Told'
<1>1. CASE Execute
  BY <1>1, ExecuteKeepsTold
<1>2. ASSUME Abort \/ \E n \in Name : SaveFails(n) PROVE Told'
  <2>1. faults \in Nat /\ faults' = faults + 1
    BY <1>2, RulesAssumption DEF Abort, SaveFails, TypeOK
  <2>2. faults' # 0
    BY <2>1
  <2>. QED
    BY <2>2 DEF Told
<1>3. ASSUME NEW n \in Name, CreateSite(n) \/ Ack(n) \/ Unack(n) \/ Turn(n) \/ Expire(n) PROVE Told'
  <2>1. UNCHANGED <<alert_state, exec, card, faults>>
    BY <1>3 DEF CreateSite, Ack, Unack, Turn, Expire, tables
  <2>. QED
    BY <2>1, SilenceKeepsTold DEF Alarmed, Downs
<1>4. ASSUME NEW ids \in SUBSET Name, EditIds(ids) PROVE Told'
  BY <1>4, SilenceKeepsTold DEF EditIds, Alarmed, Downs
<1>5. ASSUME NEW n \in Name, DeleteProfile(n) PROVE Told'
  <2>1. exec.pc = "idle" /\ exec' = exec /\ faults' = faults
    BY <1>5 DEF DeleteProfile, May
  <2>2. /\ alert_state'[n] = "none" /\ card'[n] = "none"
        /\ \A m \in Name \ {n} : alert_state'[m] = alert_state[m] /\ card'[m] = card[m]
    BY <1>5 DEF DeleteProfile, TypeOK
  <2>3. \A m \in Name : /\ Alarmed(m) <=> alert_state[m] = "alerting"
                        /\ Alarmed(m)' <=> alert_state'[m] = "alerting"
    BY <2>1 DEF Alarmed
  <2>. QED
    BY <2>1, <2>2, <2>3 DEF Told
<1>6. ASSUME NEW old \in Name, NEW new \in Name, RenameProfile(old, new) PROVE Told'
  <2>1. exec.pc = "idle" /\ exec'.pc = "idle" /\ faults' = faults /\ old # new
    BY <1>6 DEF RenameProfile, May, TypeOK, Execution
  <2>2. /\ card'[new] = card[old] /\ card'[old] = "none"
        /\ \A m \in Name \ {old, new} : card'[m] = card[m]
    BY <1>6, <2>1 DEF RenameProfile, Transfer, TypeOK
  <2>3. alert_state[new] # "alerting"
    BY <1>6 DEF RenameProfile, Structure, OfSites, Raised
  <2>4. /\ alert_state'[new] = "alerting" <=> alert_state[old] = "alerting"
        /\ alert_state'[old] # "alerting"
        /\ \A m \in Name \ {old, new} : alert_state'[m] = alert_state[m]
    <3>1. CASE alert_state[old] = "none"
      BY <1>6, <2>3, <3>1 DEF RenameProfile
    <3>2. CASE alert_state[old] # "none"
      BY <1>6, <2>1, <3>2 DEF RenameProfile, Transfer, TypeOK
    <3>. QED
      BY <3>1, <3>2
  <2>5. \A m \in Name : /\ Alarmed(m) <=> alert_state[m] = "alerting"
                        /\ Alarmed(m)' <=> alert_state'[m] = "alerting"
    BY <2>1 DEF Alarmed
  <2>. QED
    BY <2>1, <2>2, <2>4, <2>5 DEF Told
<1>7. CASE UNCHANGED vars
  BY <1>7, SilenceKeepsTold DEF vars, tables, Alarmed, Downs
<1>. QED
  BY <1>1, <1>2, <1>3, <1>4, <1>5, <1>6, <1>7 DEF Next

\* Between two executions the overview shows an alarm exactly for the sites whose last
\* card was an alert, if nothing has failed and no edit overlapped with an execution.
THEOREM ShownIsAlwaysWhatWasSent ==
  ASSUME Overlap = FALSE
  PROVE  Spec => []ShownIsWhatWasSent
<1>1. Init => Told
  BY ToldInit
<1>2. TypeOK /\ Structure /\ Told /\ [Next]_vars => Told'
  BY ToldStep
<1>3. Told => ShownIsWhatWasSent
  BY DEF Told, Alarmed, ShownIsWhatWasSent, AtRest
<1>. QED
  BY <1>1, <1>2, <1>3, StructureHolds, PTL DEF Spec
---------------------------------------------------------------------------------
\* Refinement: the names that are alerting and those that are acknowledged are the
\* alarms of an AlarmPanel.
LEMMA PanelStart == Init => Panel!PanelInit
BY DEF Init, Panel!PanelInit

\* Saving the verdicts raises and clears several alarms at once, none of them muted.
LEMMA SaveEvaluates ==
  ASSUME TypeOK, Structure, SaveState
  PROVE  Panel!Evaluate
<1>1. alert_state' = exec.new /\ acks' = acks /\ exec.pc = "saving"
  BY DEF SaveState, SaveIf, Structure, AsRead
<1>2. exec.prev = alert_state /\ Downs \cap acks = {} /\ acks \subseteq Raised
  BY <1>1 DEF Structure, AsRead, Muted
<1>3. Ups \cap (Raised \cup acks) = {} /\ Downs \subseteq Raised \ acks /\ Raised' = (Raised \ Downs) \cup Ups
  BY <1>1, <1>2 DEF Raised, Ups, Downs
<1>4. Ups \in SUBSET Name /\ Downs \in SUBSET Name
  BY DEF Ups, Downs
<1>. QED
  BY <1>1, <1>3, <1>4 DEF Panel!Evaluate, Raised

LEMMA PanelStep ==
  ASSUME Overlap = FALSE, TypeOK, Structure, [Next]_vars
  PROVE  [Panel!PanelNext]_(Panel!panelVars)
<1>. USE DEF Panel!panelVars
<1>1. acks \subseteq Raised /\ Raised \subseteq sites
  BY DEF Structure, Muted, OfSites
<1>2. ASSUME UNCHANGED <<alert_state, acks>> PROVE UNCHANGED Panel!panelVars
  BY <1>2
<1>3. CASE SaveState
  BY <1>3, SaveEvaluates DEF Panel!PanelNext
<1>4. ASSUME NEW n \in Name, ClearAck(n) \/ Unack(n) PROVE [Panel!PanelNext]_(Panel!panelVars)
  <2>1. alert_state' = alert_state /\ acks' = acks \ {n}
    BY <1>4 DEF ClearAck, Unack
  <2>2. CASE n \in acks
    BY <2>1, <2>2 DEF Panel!PanelNext, Panel!Unmute
  <2>3. CASE n \notin acks
    BY <1>2, <2>1, <2>3
  <2>. QED
    BY <2>2, <2>3
<1>5. ASSUME NEW n \in Name, Ack(n) PROVE Panel!PanelNext
  BY <1>5 DEF Ack, Shown, Panel!PanelNext, Panel!Mute
<1>6. ASSUME NEW n \in Name, DeleteProfile(n) PROVE Panel!PanelNext
  <2>1. Raised' = Raised \ {n} /\ acks' = acks \ {n}
    BY <1>6 DEF DeleteProfile, Raised, TypeOK
  <2>. QED
    BY <2>1 DEF Raised, Panel!PanelNext, Panel!Remove
<1>7. ASSUME NEW old \in Name, NEW new \in Name, RenameProfile(old, new) PROVE Panel!PanelNext
  <2>1. Raised' = Moved(Raised, old, new) /\ new \notin Raised
    BY <1>1, <1>7, RenameMovesAlarm
  <2>2. acks' = Moved(acks, old, new)
    BY <1>7 DEF RenameProfile
  <2>3. Panel!Move(old, new)
    BY <2>1, <2>2 DEF Panel!Move, Panel!Moved, Moved, Raised
  <2>. QED
    BY <2>3 DEF Panel!PanelNext
<1>8. CASE Begin \/ Probe \/ ReadCells \/ Judge \/ SendAlert \/ SendRecover \/ Abort
  BY <1>2, <1>8 DEF Begin, Probe, ReadCells, Judge, SendAlert, SendRecover, Send, Abort, tables
<1>9. ASSUME NEW n \in Name, SaveRound(n) \/ SaveFails(n) \/ CreateSite(n) \/ Turn(n) \/ Expire(n)
      PROVE  UNCHANGED Panel!panelVars
  BY <1>2, <1>9 DEF SaveRound, SaveFails, CreateSite, Turn, Expire, tables
<1>10. ASSUME NEW ids \in SUBSET Name, EditIds(ids) PROVE UNCHANGED Panel!panelVars
  BY <1>2, <1>10 DEF EditIds
<1>11. CASE UNCHANGED vars
  BY <1>2, <1>11 DEF vars, tables
<1>. QED
  BY <1>3, <1>4, <1>5, <1>6, <1>7, <1>8, <1>9, <1>10, <1>11 DEF Next, Execute

\* Muting lasts until the site has recovered once and a new alarm is never muted: as
\* long as edits do not overlap with an execution, whatever fails in one.
THEOREM PanelIsImplemented ==
  ASSUME Overlap = FALSE
  PROVE  Spec => ImplementsPanel
<1>1. Init => Panel!PanelInit
  BY PanelStart
<1>2. TypeOK /\ Structure /\ [Next]_vars => [Panel!PanelNext]_(Panel!panelVars)
  BY PanelStep
<1>. QED
  BY <1>1, <1>2, StructureHolds, PTL DEF Spec, ImplementsPanel, Panel!PanelSpec
=================================================================================
