------------------------------- MODULE MCScheduler -------------------------------
(***************************************************************************)
(* Instances of Scheduler for TLC: one or two tasks of one owner, one or   *)
(* two instances, an interval of one to three ticks.  There are never more *)
(* tasks than identities for executions, so that a task can be executed    *)
(* twice at a time whenever another one is not executed.                   *)
(***************************************************************************)
EXTENDS Scheduler, TLC

CONSTANTS a, b, e1, e2

OneTask   == {1}
TwoTasks  == {1, 2}
SameOwner == [t \in Task |-> "u"]

OneInstance  == {a}
TwoInstances == {a, b}

TwoExecs == {e1, e2}

Symmetry == Permutations(Exec)
Interchangeable == Symmetry \cup Permutations(Instance)
=================================================================================
