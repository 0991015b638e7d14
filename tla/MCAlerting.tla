------------------------------- MODULE MCAlerting -------------------------------
(***************************************************************************)
(* Instances of Alerting for TLC: two names.  The window of the run at     *)
(* rest holds two or three rounds, with rules under which consecutive and  *)
(* accumulated rounds decide differently (1 consecutive or 2 of 3 raise an *)
(* alarm, 1 good round with fewer than 2 bad ones clears it).              *)
(***************************************************************************)
EXTENDS Alerting

CONSTANTS n1, n2

TwoNames == {n1, n2}
=================================================================================
