---------------------------- MODULE MCRunnerWatch ----------------------------
(* Two runners of one name and one restart, all early enough for the       *)
(* longer threshold to pass before the clock ends.                         *)
EXTENDS RunnerWatch

MCLastChange == RunningThreshold
MCMaxTime == MCLastChange + RunningThreshold + 1
==============================================================================
