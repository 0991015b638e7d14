-------------------------------- MODULE MCBenchTask -------------------------------
(***************************************************************************)
(* Instances of BenchTask for TLC: two tasks and three levels, with an     *)
(* event list so short that it is cut within one level.                    *)
(***************************************************************************)
EXTENDS BenchTask

CONSTANTS t1, t2

TwoTasks == {t1, t2}

\* The first level equals the last one: no pause after it.
ThreeLevels == <<2, 1, 2>>

\* Manual and scheduled runs in both modes.
AllConfigs == [mode: {"burst", "sustained"}, scheduled: BOOLEAN]
=================================================================================
