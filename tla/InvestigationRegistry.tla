------------------------ MODULE InvestigationRegistry -----------------------
(***************************************************************************)
(* What the operator promises about the Investigation CRs of a cluster:    *)
(* "MaxInvestigations caps how many Investigation CRs can exist at once"   *)
(* (api/v1alpha1/detectiveconfig_types.go).  The cap can be lowered below  *)
(* the number of CRs that exist when the process starts, so the promise is *)
(* about creation: no creation ever takes the cluster above max.           *)
(***************************************************************************)
EXTENDS Integers, FiniteSets

CONSTANTS Names, max

VARIABLE crs      \* the names of the Investigation CRs that exist

Init == crs \in SUBSET Names

Create(n) == /\ n \notin crs
             /\ Cardinality(crs) < max
             /\ crs' = crs \cup {n}

Delete(n) == /\ n \in crs
             /\ crs' = crs \ {n}

Next == \E n \in Names : Create(n) \/ Delete(n)

Spec == Init /\ [][Next]_crs
=============================================================================
