--------------------------------- MODULE EventLog ---------------------------------
(***************************************************************************)
(* What the log of a benchmark task promises its readers: events are       *)
(* numbered 1, 2, 3, ...; the newest ones are kept (BenchTask.events and   *)
(* _publish of app/server.py); the final event, if there is one, is the    *)
(* last.  Only the numbers matter to a reader, so the log of a task is the *)
(* interval lo[t]..hi[t] of those still kept.                              *)
(***************************************************************************)
EXTENDS Integers

CONSTANTS Task,      \* the child tasks of one run
          Cap,       \* the log is cut when it grows beyond Cap (500)
          Keep,      \* and then keeps the newest Keep (300)
          Outcome    \* the final events a task may publish

ASSUME LogAssumption == Cap \in Nat /\ Keep \in 1..Cap

VARIABLES lo,        \* the oldest event kept
          hi,        \* the newest event, 0 when there is none: event_seq
          final      \* what the task ended with, or "none"

logVars == <<lo, hi, final>>

LogTypeOK ==
  /\ lo \in [Task -> Nat \ {0}]
  /\ hi \in [Task -> Nat]
  /\ final \in [Task -> Outcome \cup {"none", "cancelled"}]

Kept(t) == lo[t]..hi[t]

\* _publish: append, and cut when the list has grown beyond Cap.
AppendEvent(t) ==
  /\ hi' = [hi EXCEPT ![t] = @ + 1]
  /\ lo' = [lo EXCEPT ![t] = IF hi[t] + 2 - @ > Cap THEN hi[t] + 2 - Keep ELSE @]

\* An event of a task that goes on, or of workers that a cancelled task has left
\* behind: nothing follows a final event, but something may follow a cancellation.
Publish(t) ==
  /\ final[t] \in {"none", "cancelled"}
  /\ AppendEvent(t)
  /\ UNCHANGED final

End(t, outcome) ==
  /\ final[t] = "none"
  /\ AppendEvent(t)
  /\ final' = [final EXCEPT ![t] = outcome]

\* The asyncio task is cancelled: it ends without a final event.
Vanish(t) ==
  /\ final[t] = "none"
  /\ final' = [final EXCEPT ![t] = "cancelled"]
  /\ UNCHANGED <<lo, hi>>

LogInit ==
  /\ lo = [t \in Task |-> 1]
  /\ hi = [t \in Task |-> 0]
  /\ final = [t \in Task |-> "none"]

LogNext ==
  \E t \in Task : Publish(t) \/ Vanish(t) \/ \E outcome \in Outcome : End(t, outcome)

LogSpec == LogInit /\ [][LogNext]_logVars
=================================================================================
