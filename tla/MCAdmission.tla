----------------------------- MODULE MCAdmission -----------------------------
(* Instances of Admission: two pods that share the PodWatcher, and one     *)
(* EphemeralRunner.                                                        *)
EXTENDS Admission

MCOwner == [n \in Names |->
              IF n = "er-c" THEN "EphemeralRunnerWatcher" ELSE "PodWatcher"]
==============================================================================
