----------------------------- MODULE MCScheduledRun -----------------------------
(***************************************************************************)
(* Instances of ScheduledRun for TLC: two users, two handlers that are     *)
(* requests or executions, tasks with up to two profiles of up to two      *)
(* models, stored levels some of which are out of range.                   *)
(***************************************************************************)
EXTENDS ScheduledRun, TLC

CONSTANTS u1, u2, h1, h2, r1, r2, r3

MCUsers     == {u1, u2}
TwoHandlers == {h1, h2}
ThreeRuns   == {r1, r2, r3}
Levels      == {1, 2}
Raw         == {<<0, 1>>, <<1, 2>>, <<3>>}

Symmetry == Permutations(User) \cup Permutations(Handler) \cup Permutations(RunId)
=================================================================================
