------------------------- MODULE MCAdmissionFailover -------------------------
(* A pod and an EphemeralRunner.                                           *)
EXTENDS AdmissionFailover

MCOwner == [n \in Names |->
              IF n = "er-c" THEN "EphemeralRunnerWatcher" ELSE "PodWatcher"]
==============================================================================
