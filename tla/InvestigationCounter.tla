------------------------ MODULE InvestigationCounter ------------------------
(***************************************************************************)
(* The in-memory counter that caps the number of Investigation CRs         *)
(* (internal/controller/investigation_counter.go).  Every method holds the *)
(* counter's mutex for its whole body, so each is one action on count.     *)
(***************************************************************************)
EXTENDS Integers

CONSTANT max      \* maxInvestigations, read once at startup

(* NewInvestigationCounter panics on 0 and only on 0: a negative value is  *)
(* accepted and then refuses every creation.                               *)
ASSUME MaxAssumption == max \in Int \ {0}

VARIABLE count    \* investigations the process believes exist

InitCount(n) == count' = n

(* A variant that is off by one.                                           *)
TryIncrementAtMax == /\ count <= max
                     /\ count' = count + 1

TryIncrement == /\ count < max
                /\ count' = count + 1

(* A variant without the floor.                                            *)
DecrementUnfloored(n) == count' = count - n

Decrement(n) == count' = IF count - n < 0 THEN 0 ELSE count - n
=============================================================================
