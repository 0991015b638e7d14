----------------------------- MODULE MCRunAdmission -----------------------------
(***************************************************************************)
(* Instances of RunAdmission for TLC: two users, runs of up to two         *)
(* children, limits small enough that a second run of the same user and a  *)
(* third run of anybody can be refused.                                    *)
(***************************************************************************)
EXTENDS RunAdmission

CONSTANTS u1, u2, h1, h2, r1, r2

MCUsers     == {u1, u2}
OneHandler  == {h1}
TwoHandlers == {h1, h2}
TwoRuns     == {r1, r2}
Levels      == {1, 2}
=================================================================================
