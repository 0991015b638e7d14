------------------------------- MODULE MCRunStream -------------------------------
(***************************************************************************)
(* Instances of RunStream for TLC: two tasks of at most three events and   *)
(* one final event each, lists that are cut to one event when they grow    *)
(* beyond two, one lost connection.                                        *)
(***************************************************************************)
EXTENDS RunStream

Tasks == {1, 2}

AnyOutcome == {"bench:complete", "bench:error", "bench:stopped"}
=================================================================================
