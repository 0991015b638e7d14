----------------------------- MODULE RunStreamProofs -----------------------------
(***************************************************************************)
(* Theorems about RunStream.                                               *)
(***************************************************************************)
EXTENDS RunStream, SequenceTheorems, WellFoundedInduction, TLAPS

LEMMA LeastElement ==
  ASSUME NEW S \in SUBSET Nat, S # {}
  PROVE  Min(S) \in S /\ \A y \in S : Min(S) <= y
<1>1. PICK x \in S : \A y \in S : ~ (<<y, x>> \in OpToRel(<, Nat))
  BY NatLessThanWellFounded, WFMin
<1>2. ASSUME NEW y \in S PROVE x <= y
  <2>1. x \in Nat /\ y \in Nat /\ <<y, x>> \in Nat \X Nat
    OBVIOUS
  <2>2. ~ (y < x)
    BY <1>1, <2>1 DEF OpToRel
  <2>. QED
    BY <2>1, <2>2
<1>. QED
  BY <1>2 DEF Min

\* The generator is over a task's list exactly when it yields from one.
Reading == at \in {"replay", "scan"} => current \in Task

Typed == TypeOK /\ Reading

\* A log only grows at its end and is only cut at its beginning.
LEMMA AppendGrows ==
  ASSUME LogTypeOK, NEW t \in Task, AppendEvent(t)
  PROVE  /\ lo' \in [Task -> Nat \ {0}] /\ hi' \in [Task -> Nat]
         /\ \A u \in Task : lo[u] <= lo'[u] /\ hi[u] <= hi'[u]
<1> DEFINE new == IF hi[t] + 2 - lo[t] > Cap THEN hi[t] + 2 - Keep ELSE lo[t]
<1>1. lo[t] \in Nat \ {0} /\ hi[t] \in Nat /\ Cap \in Nat /\ Keep \in Nat /\ Keep <= Cap
  BY LogAssumption DEF LogTypeOK
<1>2. new \in Nat \ {0} /\ lo[t] <= new
  BY <1>1
<1>3. lo' = [lo EXCEPT ![t] = new] /\ hi' = [hi EXCEPT ![t] = @ + 1]
  BY DEF AppendEvent
<1> HIDE DEF new
<1>4. \A u \in Task : lo[u] \in Nat /\ hi[u] \in Nat
  BY DEF LogTypeOK
<1>. QED
  BY <1>1, <1>2, <1>3, <1>4 DEF LogTypeOK

\* What a task does to its log, seen by the stream.
LEMMA LogStep ==
  ASSUME LogTypeOK, NEW t \in Task, TaskPublishes(t) \/ TaskEnds(t)
  PROVE  /\ LogTypeOK'
         /\ \A u \in Task : lo[u] <= lo'[u] /\ hi[u] <= hi'[u]
         /\ \A u \in Task : final[u] # "none" => final'[u] = final[u]
         /\ Notify(t)
<1>1. CASE TaskPublishes(t)
  BY <1>1, AppendGrows DEF TaskPublishes, Publish, LogTypeOK
<1>2. ASSUME NEW outcome \in Outcome, End(t, outcome), Notify(t)
      PROVE  /\ LogTypeOK'
             /\ \A u \in Task : lo[u] <= lo'[u] /\ hi[u] <= hi'[u]
             /\ \A u \in Task : final[u] # "none" => final'[u] = final[u]
  BY <1>2, AppendGrows DEF End, LogTypeOK
<1>. QED
  BY <1>1, <1>2 DEF TaskEnds
-------------------------------------------------------------------------------
\* What every yield of the generator is: an event of a task, newer than the last
\* one sent, such that the events between the two are no longer kept.
Sends(place, t, seq, end) ==
  /\ Yield(place, t, seq, end)
  /\ t \in Task /\ seq \in Nat /\ end \in Nat
  /\ seq > last_seq[t]
  /\ \A skipped \in last_seq[t] + 1 .. seq - 1 : skipped < lo[t]

\* Before the replay has come to a task nothing of it was sent.
ReplayInv == at \in {"begin", "replay"} => \A t \in Task : t > current => last_seq[t] = 0

\* The first event of those not yet sent.
LEMMA FirstNew ==
  ASSUME TypeOK, NEW t \in Task, New(t) # {}
  PROVE  /\ Min(New(t)) \in Nat /\ Min(New(t)) > last_seq[t]
         /\ \A skipped \in last_seq[t] + 1 .. Min(New(t)) - 1 : skipped < lo[t]
<1>1. lo[t] \in Nat /\ hi[t] \in Nat /\ last_seq[t] \in Nat
  BY DEF TypeOK, LogTypeOK
<1>2. New(t) \in SUBSET Nat /\ \A seq : seq \in New(t) <=> seq \in lo[t]..hi[t] /\ seq > last_seq[t]
  BY <1>1 DEF New, Kept
<1>3. PICK m : m = Min(New(t))
  OBVIOUS
<1>4. m \in New(t) /\ \A y \in New(t) : m <= y
  BY <1>2, <1>3, LeastElement
<1>5. m \in Nat /\ m > last_seq[t] /\ m <= hi[t]
  BY <1>1, <1>2, <1>4
<1>6. ASSUME NEW skipped \in last_seq[t] + 1 .. m - 1 PROVE skipped < lo[t]
  <2>1. skipped \in Int /\ skipped > last_seq[t] /\ skipped < m
    BY <1>1, <1>5
  <2>2. skipped \notin New(t)
    BY <1>4, <1>5, <2>1
  <2>3. skipped \notin lo[t]..hi[t]
    BY <1>2, <2>1, <2>2
  <2>. QED
    BY <1>1, <1>5, <2>1, <2>3
<1>. QED
  BY <1>3, <1>5, <1>6

\* A run of the generator sends an event or suspends.
LEMMA GeneratorSteps ==
  ASSUME Typed, ReplayInv, Replay \/ Wake \/ Scan
  PROVE  \/ \E place \in {"replay", "scan"}, t \in Task, seq \in Nat, end \in Nat :
              /\ Sends(place, t, seq, end)
              /\ place = "replay" => at \in {"begin", "replay"} /\ current <= t
              /\ waiter' \in [Task -> BOOLEAN]
         \/ \E place \in {"wait", "off"} : Suspend(place) /\ waiter' \in [Task -> BOOLEAN]
<1> USE DEF Typed, TypeOK, LogTypeOK, Reading
<1>1. Task \in SUBSET Nat
  BY StreamAssumption
<1>2. ASSUME Replay
      PROVE  \/ \E t \in Task, seq \in Nat, end \in Nat :
                  Sends("replay", t, seq, end) /\ at \in {"begin", "replay"} /\ current <= t
             \/ Suspend("wait")
  <2> DEFINE end == IF upto = Live THEN hi[current] ELSE upto
             rest == {t \in Task : t > current /\ Kept(t) # {}}
  <2>0. at \in {"begin", "replay"}
    BY <1>2 DEF Replay
  <2>1. CASE at = "replay" /\ last_seq[current] < end /\ Yield("replay", current, last_seq[current] + 1, upto)
    <3>1. current \in Task /\ last_seq[current] \in Nat
      BY <2>1
    <3>2. /\ last_seq[current] + 1 \in Nat /\ last_seq[current] + 1 > last_seq[current]
          /\ last_seq[current] + 1 .. (last_seq[current] + 1) - 1 = {}
      BY <3>1
    <3>3. Sends("replay", current, last_seq[current] + 1, upto)
      BY <2>1, <3>1, <3>2 DEF Sends
    <3>. QED
      BY <1>1, <2>0, <3>1, <3>2, <3>3
  <2>2. CASE rest # {} /\ Yield("replay", Min(rest), lo[Min(rest)], Live)
    <3>1. PICK t : t = Min(rest)
      OBVIOUS
    <3>2. t \in Task /\ t > current
      BY <1>1, <2>2, <3>1, LeastElement
    <3>3. lo[t] \in Nat /\ lo[t] > 0 /\ last_seq[t] = 0
      BY <2>0, <3>2 DEF ReplayInv
    <3>4. \A skipped \in last_seq[t] + 1 .. lo[t] - 1 : skipped < lo[t]
      BY <3>3
    <3>5. Sends("replay", t, lo[t], Live)
      BY <2>2, <3>1, <3>2, <3>3, <3>4 DEF Sends, Live
    <3>. QED
      BY <1>1, <2>0, <3>2, <3>3, <3>5 DEF Live
  <2>. QED
    BY <1>2, <2>1, <2>2 DEF Replay
<1>3. ASSUME NEW rest \in SUBSET Task, rest # {}, \A t \in rest : New(t) # {},
             Yield("scan", Min(rest), Min(New(Min(rest))), hi[Min(rest)])
      PROVE  \E t \in Task, seq \in Nat, end \in Nat : Sends("scan", t, seq, end)
  <2>1. PICK t, seq : t = Min(rest) /\ seq = Min(New(t))
    OBVIOUS
  <2>2. t \in Task /\ New(t) # {}
    BY <1>1, <1>3, <2>1, LeastElement
  <2>3. /\ seq \in Nat /\ seq > last_seq[t]
        /\ \A skipped \in last_seq[t] + 1 .. seq - 1 : skipped < lo[t]
    BY <2>1, <2>2, FirstNew
  <2>4. hi[t] \in Nat
    BY <2>2
  <2>. QED
    BY <1>3, <2>1, <2>2, <2>3, <2>4 DEF Sends
<1>4. ASSUME Wake
      PROVE  (\E t \in Task, seq \in Nat, end \in Nat : Sends("scan", t, seq, end)) \/ Suspend("wait")
  <2>1. {t \in Task : New(t) # {}} \in SUBSET Task
    OBVIOUS
  <2>. QED
    BY <1>3, <1>4, <2>1 DEF Wake
<1>5. ASSUME Scan
      PROVE  \/ \E t \in Task, seq \in Nat, end \in Nat : Sends("scan", t, seq, end)
             \/ \E place \in {"wait", "off"} : Suspend(place)
  <2>1. CASE Yield("scan", current, last_seq[current] + 1, upto)
    <3>1. current \in Task /\ last_seq[current] \in Nat
      BY <1>5 DEF Scan
    <3>2. /\ last_seq[current] + 1 \in Nat /\ last_seq[current] + 1 > last_seq[current]
          /\ last_seq[current] + 1 .. (last_seq[current] + 1) - 1 = {}
      BY <3>1
    <3>. QED
      BY <2>1, <3>1, <3>2 DEF Sends
  <2>2. CASE \E rest \in SUBSET Task : /\ rest # {} /\ \A t \in rest : New(t) # {}
                                       /\ Yield("scan", Min(rest), Min(New(Min(rest))), hi[Min(rest)])
    BY <1>3, <2>2
  <2>3. {t \in Task : t > current /\ New(t) # {}} \in SUBSET Task
    OBVIOUS
  <2>. QED
    BY <1>5, <2>1, <2>2, <2>3 DEF Scan
<1>6. waiter' \in [Task -> BOOLEAN]
  BY DEF Replay, Wake, Scan
<1>. QED
  BY <1>2, <1>4, <1>5, <1>6

\* The page receives what is sent before the generator goes on.
LEMMA Received ==
  ASSUME NEW place, NEW t, NEW seq, NEW end, Sends(place, t, seq, end)
  PROVE  /\ inbox' = [inbox EXCEPT ![t] = Append(@, seq)]
         /\ last_seq' = [last_seq EXCEPT ![t] = seq]
         /\ current' = t /\ upto' = end /\ at' \in {place, "off"}
         /\ UNCHANGED logVars /\ UNCHANGED drops
         /\ completed' \in SUBSET (completed \cup {t}) /\ resolved' \in BOOLEAN
         /\ t \in completed' => t \in completed \/ Idle(t)
         /\ resolved' => final[t] = "bench:stopped" \/ completed' = Task
<1> DEFINE outcome == IF Idle(t) /\ seq = hi[t] THEN final[t] ELSE "none"
           over == completed \cup (IF outcome \in {"bench:complete", "bench:error"} THEN {t} ELSE {})
           closes == outcome = "bench:stopped" \/ (outcome # "none" /\ over = Task)
<1>1. /\ inbox' = [inbox EXCEPT ![t] = Append(@, seq)]
      /\ completed' = over /\ resolved' = closes /\ UNCHANGED drops
  BY DEF Sends, Yield, PageReceives
<1>2. outcome # "none" => Idle(t) /\ outcome = final[t]
  OBVIOUS
<1>3. closes => final[t] = "bench:stopped" \/ over = Task
  BY <1>2
<1>4. over \in SUBSET (completed \cup {t}) /\ (t \in over => t \in completed \/ Idle(t))
  BY <1>2
<1>5. closes \in BOOLEAN
  OBVIOUS
<1> HIDE DEF outcome, over, closes
<1>. QED
  BY <1>1, <1>3, <1>4, <1>5 DEF Sends, Yield

LEMMA InitTyped == Init => Typed
<1> SUFFICES ASSUME Init PROVE Typed
  OBVIOUS
<1>1. LogTypeOK
  BY DEF Init, LogInit, LogTypeOK
<1>2. <<>> \in Seq(Nat) /\ 0 \in 0..MaxDrops
  BY StreamAssumption
<1>3. inbox \in [Task -> Seq(Nat)]
  BY <1>2 DEF Init
<1>. QED
  BY <1>1, <1>2, <1>3 DEF Init, Typed, TypeOK, Reading, Live

\* TypeOK, and the generator reads the list of a task.
LEMMA StepTyped ==
  ASSUME Typed, ReplayInv, [Next]_vars
  PROVE  Typed'
<1> USE DEF Typed, TypeOK, Reading
<1>1. ASSUME NEW t \in Task, TaskPublishes(t) \/ TaskEnds(t) PROVE Typed'
  <2>1. LogTypeOK' /\ Notify(t)
    BY <1>1, LogStep
  <2>2. hi'[t] \in Nat
    BY <2>1 DEF LogTypeOK
  <2>. QED
    BY <2>1, <2>2 DEF Notify
<1>2. CASE Connect
  <2>1. LogTypeOK'
    BY <1>2 DEF Connect, logVars, LogTypeOK
  <2>. QED
    BY <1>2, <2>1 DEF Connect, Live
<1>3. CASE Drop
  <2>1. LogTypeOK'
    BY <1>3 DEF Drop, logVars, LogTypeOK
  <2>2. drops' \in 0..MaxDrops
    BY <1>3, StreamAssumption DEF Drop
  <2>. QED
    BY <1>3, <2>1, <2>2 DEF Drop
<1>4. ASSUME NEW place \in {"replay", "scan"}, NEW t \in Task, NEW seq \in Nat, NEW end \in Nat,
             Sends(place, t, seq, end), waiter' \in [Task -> BOOLEAN]
      PROVE  Typed'
  <2>1. LogTypeOK'
    BY <1>4, Received DEF logVars, LogTypeOK
  <2>2. inbox' \in [Task -> Seq(Nat)]
    <3>1. Append(inbox[t], seq) \in Seq(Nat)
      OBVIOUS
    <3>2. inbox' = [inbox EXCEPT ![t] = Append(@, seq)]
      BY <1>4, Received
    <3>. QED
      BY <3>1, <3>2
  <2>3. last_seq' \in [Task -> Nat] /\ completed' \in SUBSET Task /\ resolved' \in BOOLEAN
    <3>1. last_seq' = [last_seq EXCEPT ![t] = seq] /\ completed' \in SUBSET (completed \cup {t})
          /\ resolved' \in BOOLEAN
      BY <1>4, Received
    <3>. QED
      BY <3>1
  <2>4. /\ at' \in {"off", "begin", "replay", "wait", "scan"} /\ current' \in Task
        /\ upto' \in Nat /\ drops' \in 0..MaxDrops
    BY <1>4, Received
  <2>. QED
    BY <1>4, <2>1, <2>2, <2>3, <2>4
<1>5. ASSUME NEW place \in {"wait", "off"}, Suspend(place), waiter' \in [Task -> BOOLEAN]
      PROVE  Typed'
  <2>1. LogTypeOK'
    BY <1>5 DEF Suspend, logVars, LogTypeOK
  <2>. QED
    BY <1>5, <2>1 DEF Suspend
<1>6. CASE UNCHANGED vars
  BY <1>6 DEF vars, logVars, streamVars, LogTypeOK
<1>. QED
  BY <1>1, <1>2, <1>3, <1>4, <1>5, <1>6, GeneratorSteps DEF Next, Stream

LEMMA StepReplay ==
  ASSUME Typed, ReplayInv, [Next]_vars
  PROVE  ReplayInv'
<1> USE DEF Typed, TypeOK, ReplayInv
<1>1. ASSUME NEW t \in Task, TaskPublishes(t) \/ TaskEnds(t) PROVE ReplayInv'
  BY <1>1 DEF TaskPublishes, TaskEnds, Notify
<1>2. CASE Connect
  BY <1>2 DEF Connect
<1>3. CASE Drop
  BY <1>3 DEF Drop
<1>4. ASSUME NEW place \in {"replay", "scan"}, NEW t \in Task, NEW seq \in Nat, NEW end \in Nat,
             Sends(place, t, seq, end), place = "replay" => at \in {"begin", "replay"} /\ current <= t
      PROVE  ReplayInv'
  <2>1. SUFFICES ASSUME at' \in {"begin", "replay"}, NEW u \in Task, u > t PROVE last_seq'[u] = 0
    BY <1>4, Received
  <2>2. place = "replay"
    BY <1>4, <2>1, Received
  <2>3. u > current /\ u # t
    <3>1. Task \in SUBSET Nat
      BY StreamAssumption
    <3>2. u \in Nat /\ t \in Nat /\ current \in Nat
      BY <3>1
    <3>. QED
      BY <1>4, <2>1, <2>2, <3>2
  <2>4. last_seq[u] = 0
    BY <1>4, <2>2, <2>3
  <2>5. last_seq'[u] = last_seq[u]
    BY <1>4, <2>3, Received
  <2>. QED
    BY <2>4, <2>5
<1>5. ASSUME NEW place \in {"wait", "off"}, Suspend(place) PROVE ReplayInv'
  BY <1>5 DEF Suspend
<1>6. CASE UNCHANGED vars
  BY <1>6 DEF vars, streamVars
<1>. QED
  BY <1>1, <1>2, <1>3, <1>4, <1>5, <1>6, GeneratorSteps DEF Next, Stream

LEMMA TypedInvariant == Spec => [](Typed /\ ReplayInv)
<1>1. Init => Typed /\ ReplayInv
  BY InitTyped DEF Init, ReplayInv
<1>2. Typed /\ ReplayInv /\ [Next]_vars => (Typed /\ ReplayInv)'
  BY StepTyped, StepReplay
<1>. QED
  BY <1>1, <1>2, PTL DEF Spec

\* The logs, the generator and the page are well formed in every reachable state.
THEOREM TypeCorrect == Spec => []TypeOK
<1>1. Typed => TypeOK
  BY DEF Typed
<1>. QED
  BY <1>1, TypedInvariant, PTL

-------------------------------------------------------------------------------
\* last_seq is the last event the page has received on this connection.
LastSent ==
  at # "off" =>
    \A t \in Task : last_seq[t] = IF inbox[t] = <<>> THEN 0 ELSE inbox[t][Len(inbox[t])]

Delivery == LastSent /\ DeliveredInOrder /\ OnlyCutEventsSkipped

\* The event sent comes after those received, and what lies between is cut.
LEMMA SendDelivers ==
  ASSUME Typed, Delivery, at # "off",
         NEW place, NEW t \in Task, NEW seq \in Nat, NEW end, Sends(place, t, seq, end)
  PROVE  Delivery'
<1> USE DEF Typed, TypeOK, LogTypeOK
<1>1. PICK old \in Seq(Nat), n \in Nat, last \in Nat :
        /\ old = inbox[t] /\ n = Len(old) /\ last = last_seq[t]
        /\ last = IF old = <<>> THEN 0 ELSE old[n]
  <2>1. inbox[t] \in Seq(Nat) /\ Len(inbox[t]) \in Nat /\ last_seq[t] \in Nat
    OBVIOUS
  <2>2. last_seq[t] = IF inbox[t] = <<>> THEN 0 ELSE inbox[t][Len(inbox[t])]
    BY DEF Delivery, LastSent
  <2>. QED
    BY <2>1, <2>2
<1>2. PICK new : new = Append(old, seq)
  OBVIOUS
<1>3. /\ new \in Seq(Nat) /\ Len(new) = n + 1 /\ new[n + 1] = seq /\ new # <<>>
      /\ \A i \in 1..n : new[i] = old[i]
  BY <1>1, <1>2
<1>4. /\ inbox'[t] = new /\ \A u \in Task \ {t} : inbox'[u] = inbox[u]
      /\ last_seq'[t] = seq /\ \A u \in Task \ {t} : last_seq'[u] = last_seq[u]
      /\ lo' = lo
  <2>1. inbox' = [inbox EXCEPT ![t] = Append(@, seq)] /\ last_seq' = [last_seq EXCEPT ![t] = seq] /\ lo' = lo
    BY Received DEF logVars
  <2>. QED
    BY <1>1, <1>2, <2>1
<1>5. seq > last /\ \A skipped \in last + 1 .. seq - 1 : skipped < lo[t]
  BY <1>1 DEF Sends
<1>6. n = 0 <=> old = <<>>
  BY <1>1
<1>7. LastSent'
  <2>1. new[Len(new)] = seq
    BY <1>3
  <2>. QED
    BY <1>3, <1>4, <2>1 DEF Delivery, LastSent
<1>8. DeliveredInOrder'
  <2>1. ASSUME NEW i \in 1..Len(new) - 1 PROVE new[i] < new[i+1]
    <3>1. i \in 1..n
      BY <1>3
    <3>2. CASE i = n
      <4>1. new[i] = old[n] /\ new[i+1] = seq /\ old # <<>>
        BY <1>3, <1>6, <3>1, <3>2
      <4>. QED
        BY <1>1, <1>5, <4>1
    <3>3. CASE i # n
      <4>1. i \in 1..n - 1 /\ i + 1 \in 1..n
        BY <3>1, <3>3
      <4>2. old[i] < old[i+1]
        BY <1>1, <4>1 DEF Delivery, DeliveredInOrder
      <4>. QED
        BY <1>3, <3>1, <4>1, <4>2
    <3>. QED
      BY <3>2, <3>3
  <2>2. ASSUME NEW u \in Task \ {t}
        PROVE  \A i \in 1..Len(inbox'[u]) - 1 : inbox'[u][i] < inbox'[u][i+1]
    BY <1>4 DEF Delivery, DeliveredInOrder
  <2>. QED
    BY <1>4, <2>1, <2>2 DEF DeliveredInOrder
<1>9. OnlyCutEventsSkipped'
  <2>1. ASSUME NEW i \in 1..Len(new), NEW before, before = IF i = 1 THEN 0 ELSE new[i-1],
               NEW skipped \in before + 1 .. new[i] - 1
        PROVE  skipped < lo[t]
    <3>1. CASE i = n + 1
      <4>1. before = last /\ new[i] = seq
        <5>1. i # 1 => i - 1 = n /\ n \in 1..n
          BY <1>1, <3>1
        <5>. QED
          BY <1>1, <1>3, <1>6, <2>1, <3>1, <5>1
      <4>. QED
        BY <1>5, <4>1
    <3>2. CASE i # n + 1
      <4>1. i \in 1..n /\ (i # 1 => i - 1 \in 1..n)
        BY <1>3, <3>2
      <4>2. new[i] = old[i] /\ before = IF i = 1 THEN 0 ELSE old[i-1]
        BY <1>3, <2>1, <4>1
      <4>. QED
        BY <1>1, <4>1, <4>2 DEF Delivery, OnlyCutEventsSkipped
    <3>. QED
      BY <3>1, <3>2
  <2>2. ASSUME NEW u \in Task \ {t}, NEW i \in 1..Len(inbox'[u])
        PROVE  LET before == IF i = 1 THEN 0 ELSE inbox'[u][i-1]
               IN  \A skipped \in before + 1 .. inbox'[u][i] - 1 : skipped < lo'[u]
    BY <1>4 DEF Delivery, OnlyCutEventsSkipped
  <2>. QED
    BY <1>4, <2>1, <2>2 DEF OnlyCutEventsSkipped
<1>. QED
  BY <1>7, <1>8, <1>9 DEF Delivery

LEMMA StepDelivery ==
  ASSUME Typed, ReplayInv, Delivery, [Next]_vars
  PROVE  Delivery'
<1> USE DEF Typed, TypeOK
<1>1. ASSUME UNCHANGED <<inbox, last_seq>>, at' # "off" => at # "off",
             \A t \in Task : lo[t] \in Nat /\ lo'[t] \in Nat /\ lo[t] <= lo'[t]
      PROVE  Delivery'
  <2>1. LastSent' /\ DeliveredInOrder'
    BY <1>1 DEF Delivery, LastSent, DeliveredInOrder
  <2>2. ASSUME NEW t \in Task, NEW i \in 1..Len(inbox[t]),
               NEW before, before = IF i = 1 THEN 0 ELSE inbox[t][i-1],
               NEW skipped \in before + 1 .. inbox[t][i] - 1
        PROVE  skipped < lo'[t]
    <3>1. skipped < lo[t]
      BY <2>2 DEF Delivery, OnlyCutEventsSkipped
    <3>2. skipped \in Int
      <4>1. inbox[t] \in Seq(Nat) /\ (i # 1 => i - 1 \in 1..Len(inbox[t]))
        OBVIOUS
      <4>2. before \in Int /\ inbox[t][i] \in Int
        BY <2>2, <4>1
      <4>. QED
        BY <4>2
    <3>. QED
      BY <1>1, <3>1, <3>2
  <2>3. OnlyCutEventsSkipped'
    BY <1>1, <2>2 DEF OnlyCutEventsSkipped
  <2>. QED
    BY <2>1, <2>3 DEF Delivery
<1>2. ASSUME lo' = lo PROVE \A t \in Task : lo[t] \in Nat /\ lo'[t] \in Nat /\ lo[t] <= lo'[t]
  BY <1>2 DEF LogTypeOK
<1>3. ASSUME NEW t \in Task, TaskPublishes(t) \/ TaskEnds(t) PROVE Delivery'
  <2>1. LogTypeOK' /\ Notify(t) /\ \A u \in Task : lo[u] <= lo'[u]
    BY <1>3, LogStep
  <2>2. \A u \in Task : lo[u] \in Nat /\ lo'[u] \in Nat
    BY <2>1 DEF LogTypeOK
  <2>. QED
    BY <1>1, <2>1, <2>2 DEF Notify
<1>4. CASE Connect
  <2>1. inbox' = [t \in Task |-> <<>>] /\ last_seq' = [t \in Task |-> 0]
    BY <1>4 DEF Connect
  <2>2. \A t \in Task : inbox'[t] = <<>> /\ last_seq'[t] = 0 /\ Len(inbox'[t]) = 0
    BY <2>1
  <2>3. 1..0 = {} /\ 1..0 - 1 = {}
    OBVIOUS
  <2>. QED
    BY <2>2, <2>3 DEF Delivery, LastSent, DeliveredInOrder, OnlyCutEventsSkipped
<1>5. CASE Drop
  BY <1>1, <1>2, <1>5 DEF Drop, logVars
<1>6. ASSUME Replay \/ Wake \/ Scan PROVE Delivery'
  <2>1. at # "off"
    BY <1>6 DEF Replay, Wake, Scan
  <2>2. ASSUME NEW place, NEW t \in Task, NEW seq \in Nat, NEW end, Sends(place, t, seq, end)
        PROVE  Delivery'
    BY <2>1, <2>2, SendDelivers
  <2>3. ASSUME NEW place, Suspend(place) PROVE Delivery'
    BY <1>1, <1>2, <2>1, <2>3 DEF Suspend, logVars
  <2>. QED
    BY <1>6, <2>2, <2>3, GeneratorSteps
<1>7. CASE UNCHANGED vars
  BY <1>1, <1>2, <1>7 DEF vars, logVars, streamVars
<1>. QED
  BY <1>3, <1>4, <1>5, <1>6, <1>7 DEF Next, Stream

LEMMA DeliveryInvariant == Spec => []Delivery
<1>1. Init => Delivery
  <2> SUFFICES ASSUME Init PROVE Delivery
    OBVIOUS
  <2>1. at = "off" /\ \A t \in Task : inbox[t] = <<>> /\ Len(inbox[t]) = 0
    BY DEF Init
  <2>2. 1..0 = {} /\ 1..0 - 1 = {}
    OBVIOUS
  <2>. QED
    BY <2>1, <2>2 DEF Delivery, LastSent, DeliveredInOrder, OnlyCutEventsSkipped
<1>2. Typed /\ ReplayInv /\ Delivery /\ [Next]_vars => Delivery'
  BY StepDelivery
<1>. QED
  BY <1>1, <1>2, TypedInvariant, PTL DEF Spec

\* However the replay, the wake-ups and the cuts of the list interleave with the
\* publishing, no event reaches the page twice or late within one connection.
THEOREM DeliveredAlwaysInOrder == Spec => []DeliveredInOrder
<1>1. Delivery => DeliveredInOrder
  BY DEF Delivery
<1>. QED
  BY <1>1, DeliveryInvariant, PTL

\* A reader misses only events that had been cut from the list, whatever its size.
THEOREM NothingKeptIsSkipped == Spec => []OnlyCutEventsSkipped
<1>1. Delivery => OnlyCutEventsSkipped
  BY DEF Delivery
<1>. QED
  BY <1>1, DeliveryInvariant, PTL
-------------------------------------------------------------------------------
\* The page has heard the end of every task it counts as completed.
CompletedAreOver == \A t \in completed : Idle(t)

LEMMA StepClosing ==
  ASSUME Typed, ReplayInv, CompletedAreOver, ClosesAfterAllUnlessStopped, [Next]_vars
  PROVE  CompletedAreOver' /\ ClosesAfterAllUnlessStopped'
<1> USE DEF CompletedAreOver, ClosesAfterAllUnlessStopped, Idle
<1>1. ASSUME UNCHANGED <<completed, resolved>>,
             \A t \in Task : final[t] # "none" => final'[t] = final[t]
      PROVE  CompletedAreOver' /\ ClosesAfterAllUnlessStopped'
  <2>1. "bench:stopped" # "none" /\ completed \in SUBSET Task
    BY DEF Typed, TypeOK
  <2>2. CompletedAreOver'
    BY <1>1, <2>1
  <2>3. (\A t \in Task : final[t] # "none") => \A t \in Task : final'[t] # "none"
    BY <1>1
  <2>4. (\E t \in Task : final[t] = "bench:stopped") => \E t \in Task : final'[t] = "bench:stopped"
    BY <1>1, <2>1
  <2>. QED
    BY <1>1, <2>2, <2>3, <2>4
<1>2. ASSUME NEW t \in Task, TaskPublishes(t) \/ TaskEnds(t)
      PROVE  CompletedAreOver' /\ ClosesAfterAllUnlessStopped'
  <2>1. Notify(t) /\ \A u \in Task : final[u] # "none" => final'[u] = final[u]
    BY <1>2, LogStep DEF Typed, TypeOK
  <2>. QED
    BY <1>1, <2>1 DEF Notify
<1>3. CASE Connect \/ Drop \/ UNCHANGED vars
  BY <1>1, <1>3 DEF Connect, Drop, vars, logVars, streamVars
<1>4. ASSUME Replay \/ Wake \/ Scan
      PROVE  CompletedAreOver' /\ ClosesAfterAllUnlessStopped'
  <2>1. ASSUME NEW place, NEW t \in Task, NEW seq, NEW end, Sends(place, t, seq, end)
        PROVE  CompletedAreOver' /\ ClosesAfterAllUnlessStopped'
    <3>1. /\ final' = final /\ completed' \in SUBSET (completed \cup {t})
          /\ t \in completed' => t \in completed \/ Idle(t)
          /\ resolved' => final[t] = "bench:stopped" \/ completed' = Task
      BY <2>1, Received DEF logVars
    <3>2. \A u \in completed' : final'[u] # "none"
      BY <3>1
    <3>. QED
      BY <3>1, <3>2
  <2>2. ASSUME NEW place, Suspend(place) PROVE CompletedAreOver' /\ ClosesAfterAllUnlessStopped'
    BY <1>1, <2>2 DEF Suspend, logVars
  <2>. QED
    BY <1>4, <2>1, <2>2, GeneratorSteps
<1>. QED
  BY <1>2, <1>3, <1>4 DEF Next, Stream

\* With several models in parallel the page closes its stream only when all of them
\* are done or one was stopped, over any number of lost connections.
THEOREM PageClosesAfterAll == Spec => []ClosesAfterAllUnlessStopped
<1>1. Init => CompletedAreOver /\ ClosesAfterAllUnlessStopped
  BY DEF Init, CompletedAreOver, ClosesAfterAllUnlessStopped
<1>2. Typed /\ ReplayInv /\ CompletedAreOver /\ ClosesAfterAllUnlessStopped /\ [Next]_vars
        => (CompletedAreOver /\ ClosesAfterAllUnlessStopped)'
  BY StepClosing
<1>. QED
  BY <1>1, <1>2, TypedInvariant, PTL DEF Spec
=================================================================================
