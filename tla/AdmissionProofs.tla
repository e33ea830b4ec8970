--------------------------- MODULE AdmissionProofs ---------------------------
(***************************************************************************)
(* Theorems about Admission for every finite set of names, every cap, any  *)
(* number of controllers and any number of lost replies.                   *)
(***************************************************************************)
EXTENDS Admission, FiniteSetTheorems, TLAPS

(***************************************************************************)
(* What the steps do to the two sets that the counter has to cover.        *)
(***************************************************************************)

(* The CRs and the names with a slot in flight are finite sets.            *)
LEMMA Finite ==
  ASSUME TypeOK
  PROVE  /\ IsFiniteSet(crs) /\ Cardinality(crs) \in Nat
         /\ IsFiniteSet(Held) /\ Cardinality(Held) \in Nat
<1>1. crs \in SUBSET Names /\ Held \in SUBSET Names
  BY DEF TypeOK, Held
<1>2. IsFiniteSet(crs) /\ IsFiniteSet(Held)
  BY <1>1, AdmissionAssumption, FS_Subset
<1> QED
  BY <1>2, FS_CardinalityType

(* A stored CR is one more.                                                *)
LEMMA StoredCounts ==
  ASSUME TypeOK, NEW n \in Names, Stored(n)
  PROVE  Cardinality(crs') = Cardinality(crs) + 1
<1>1. n \notin crs /\ crs' = crs \cup {n}
  BY DEF Stored
<1> QED
  BY <1>1, Finite, FS_AddElement

(* A removed CR is one less.                                               *)
LEMMA RemoveCounts ==
  ASSUME TypeOK, NEW n \in Names, Remove(n)
  PROVE  Cardinality(crs') = Cardinality(crs) - 1
<1>1. n \in crs /\ crs' = crs \ {n}
  BY DEF Remove
<1> QED
  BY <1>1, Finite, FS_RemoveElement

(* A name that enters "reserved" from "idle" takes a slot.                 *)
LEMMA HeldGrows ==
  ASSUME TypeOK, NEW n \in Names, AtStage(n, "idle", "reserved")
  PROVE  Cardinality(Held') = Cardinality(Held) + 1
<1>1. n \notin Held /\ Held' = Held \cup {n}
  BY DEF TypeOK, AtStage, Held
<1> QED
  BY <1>1, Finite, FS_AddElement

(* A name that leaves "reserved" for "created", or "failed" for "idle",    *)
(* gives its slot up.                                                      *)
LEMMA HeldShrinks ==
  ASSUME TypeOK, NEW n \in Names,
         AtStage(n, "reserved", "created") \/ AtStage(n, "failed", "idle")
  PROVE  /\ Cardinality(Held') = Cardinality(Held) - 1
         /\ Cardinality(Held) >= 1
<1>1. n \in Held /\ Held' = Held \ {n}
  BY DEF TypeOK, AtStage, Held
<1>2. Cardinality(Held') = Cardinality(Held) - 1
  BY <1>1, Finite, FS_RemoveElement
<1>3. IsFiniteSet(Held') /\ Cardinality(Held') \in Nat
  BY <1>1, Finite, FS_RemoveElement, FS_CardinalityType
<1> QED
  BY <1>2, <1>3, Finite

(* The other moves of a name keep its slot as it was.                      *)
LEMMA HeldKept ==
  ASSUME TypeOK, NEW n \in Names,
         AtStage(n, "reserved", "failed") \/ AtStage(n, "created", "idle")
  PROVE  Held' = Held
BY DEF TypeOK, AtStage, Held

(* A step that leaves stage alone leaves Held alone.                       *)
LEMMA HeldUnchanged ==
  ASSUME UNCHANGED stage
  PROVE  Held' = Held
BY DEF Held

(* A restart holds nothing.                                                *)
LEMMA HeldEmptied ==
  ASSUME Restart
  PROVE  Held' = {}
BY DEF Restart, RestartWith, Held
------------------------------------------------------------------------------
(***************************************************************************)
(* Type correctness.                                                       *)
(***************************************************************************)

(* One step of any handler, of Cleanup, of the process or around it.       *)
LEMMA TypeStep ==
  ASSUME TypeOK, [Next]_vars
  PROVE  TypeOK'
<1> USE DEF TypeOK, Stages, server, cleanup
<1>1. ASSUME NEW n \in Names, Create(n) PROVE TypeOK'
  <2>1. CASE Reserve(n)
    BY <2>1, MaxAssumption DEF Reserve, TryIncrement, AtStage
  <2>2. CASE CreateSucceeds(n)
    BY <2>2 DEF CreateSucceeds, Stored, AtStage
  <2>3. CASE CreateFails(n)
    BY <2>3 DEF CreateFails, AtStage
  <2>4. CASE CreateReplyLost(n)
    <3>1. lost' \in 0..MaxLost
      BY <2>4, AdmissionAssumption DEF CreateReplyLost
    <3> QED
      BY <2>4, <3>1 DEF CreateReplyLost, Stored, AtStage
  <2>5. CASE GiveBack(n)
    <3>1. count' \in Nat
      BY <2>5 DEF GiveBack, Decrement
    <3> QED
      BY <2>5, <3>1 DEF GiveBack, AtStage
  <2>6. CASE StatusUpdate(n)
    BY <2>6 DEF StatusUpdate, AtStage
  <2> QED
    BY <1>1, <2>1, <2>2, <2>3, <2>4, <2>5, <2>6 DEF Create
<1>2. ASSUME NEW n \in Names, Prune(n) PROVE TypeOK'
  <2>1. CASE PruneSucceeds(n)
    BY <2>1 DEF PruneSucceeds, Remove
  <2>2. CASE PruneFails(n)
    BY <2>2 DEF PruneFails
  <2>3. CASE PruneReplyLost(n)
    BY <2>3 DEF PruneReplyLost, Remove
  <2> QED
    BY <1>2, <2>1, <2>2, <2>3 DEF Prune
<1>3. ASSUME NEW n \in Names, Environment(n) PROVE TypeOK'
  <2>1. CASE Sync(n)
    BY <2>1 DEF Sync, Synced
  <2>2. CASE Expire(n)
    BY <2>2 DEF Expire
  <2>3. CASE UserDelete(n)
    BY <2>3 DEF UserDelete, Remove
  <2> QED
    BY <1>3, <2>1, <2>2, <2>3 DEF Environment
<1>4. CASE List
  BY <1>4 DEF List
<1>5. CASE CountDown
  <2>1. count' \in Nat
    BY <1>5 DEF CountDown, Decrement
  <2> QED
    BY <1>5, <2>1 DEF CountDown
<1>6. CASE Restart
  <2>1. count' \in Nat
    BY <1>6, Finite DEF Restart, RestartWith, InitCount
  <2>2. cache' \in [Names -> {"none", "live", "gone"}]
    BY <1>6 DEF Restart, RestartWith, Synced
  <2>3. lost' \in 0..MaxLost
    BY <1>6, AdmissionAssumption DEF Restart, RestartWith
  <2> QED
    BY <1>6, <2>1, <2>2, <2>3 DEF Restart, RestartWith
<1>7. CASE UNCHANGED vars
  BY <1>7 DEF vars
<1> QED
  BY <1>1, <1>2, <1>3, <1>4, <1>5, <1>6, <1>7 DEF Next

(* main starts in such a state, with any set of CRs in the cluster.        *)
LEMMA TypeInit == Init => TypeOK
<1> SUFFICES ASSUME Init PROVE TypeOK
  OBVIOUS
<1>1. IsFiniteSet(crs)
  BY AdmissionAssumption, FS_Subset DEF Init
<1>2. Cardinality(crs) \in Nat
  BY <1>1, FS_CardinalityType
<1>3. cache \in [Names -> {"none", "live", "gone"}]
  BY DEF Init, Synced
<1>4. lost \in 0..MaxLost
  BY AdmissionAssumption DEF Init
<1> QED
  BY <1>2, <1>3, <1>4 DEF Init, TypeOK, Stages

(* Every handler, every error path and every restart keeps the state in    *)
(* shape: in particular the counter of investigation_counter.go never      *)
(* goes below zero, although a Decrement may come for a CR it forgot.      *)
THEOREM TypeCorrect == Spec => []TypeOK
BY TypeInit, TypeStep, PTL DEF Spec
------------------------------------------------------------------------------
(***************************************************************************)
(* The inductive argument.  Accounted is inductive together with TypeOK:   *)
(* every step that adds to the left of its inequality has either taken a   *)
(* slot before (TryIncrement) or is recorded in lost, and every Decrement  *)
(* comes after its slot, or its CR, has been given up.                     *)
(***************************************************************************)

(* Accounted up to k CRs that the counter was never told of.               *)
AccountedBut(k) ==
  /\ Cardinality(crs) + Cardinality(Held) + Pending <= count + lost + k
  /\ (\E n \in Names : stage[n] = "reserved") => count <= max

(* No step makes the account worse.                                        *)
LEMMA AccountStep ==
  ASSUME NEW CONSTANT k \in Nat, TypeOK, AccountedBut(k), [Next]_vars
  PROVE  AccountedBut(k)'
<1>0. /\ count \in Nat /\ lost \in Nat /\ max \in Int
      /\ Cardinality(crs) \in Nat /\ Cardinality(Held) \in Nat
      /\ Pending \in {0, 1}
  BY Finite, AdmissionAssumption, MaxAssumption DEF TypeOK, Pending
<1> USE DEF server, cleanup
<1>1. ASSUME NEW n \in Names, Create(n) PROVE AccountedBut(k)'
  <2>1. CASE Reserve(n)
    <3>1. Cardinality(Held') = Cardinality(Held) + 1
      BY <2>1, HeldGrows DEF Reserve
    <3>2. count' = count + 1 /\ count < max
      BY <2>1 DEF Reserve, TryIncrement
    <3> QED
      BY <1>0, <2>1, <3>1, <3>2 DEF Reserve, AccountedBut, Pending
  <2>2. CASE CreateSucceeds(n)
    <3>1. /\ Cardinality(Held') = Cardinality(Held) - 1
          /\ Cardinality(crs') = Cardinality(crs) + 1
      BY <2>2, HeldShrinks, StoredCounts DEF CreateSucceeds
    <3>2. count <= max
      BY <2>2 DEF CreateSucceeds, AtStage, AccountedBut
    <3> QED
      BY <1>0, <2>2, <3>1, <3>2 DEF CreateSucceeds, AccountedBut, Pending
  <2>3. CASE CreateFails(n)
    <3>1. Held' = Held /\ count <= max
      BY <2>3, HeldKept DEF CreateFails, AtStage, AccountedBut
    <3> QED
      BY <1>0, <2>3, <3>1 DEF CreateFails, AccountedBut, Pending
  <2>4. CASE CreateReplyLost(n)
    <3>1. Held' = Held /\ count <= max
      BY <2>4, HeldKept DEF CreateReplyLost, AtStage, AccountedBut
    <3>2. Cardinality(crs') = Cardinality(crs) + 1
      BY <2>4, StoredCounts DEF CreateReplyLost
    <3> QED
      BY <1>0, <2>4, <3>1, <3>2 DEF CreateReplyLost, AccountedBut, Pending
  <2>5. CASE GiveBack(n)
    <3>1. /\ Cardinality(Held') = Cardinality(Held) - 1
          /\ Cardinality(Held) >= 1
      BY <2>5, HeldShrinks DEF GiveBack
    <3>2. count' \in {0, count - 1} /\ (count' = 0 => count <= 1)
      BY <1>0, <2>5 DEF GiveBack, Decrement
    <3>3. (\E m \in Names : stage'[m] = "reserved")
            => (\E m \in Names : stage[m] = "reserved")
      BY <2>5 DEF GiveBack, AtStage, TypeOK
    <3> QED
      BY <1>0, <2>5, <3>1, <3>2, <3>3 DEF GiveBack, AccountedBut, Pending
  <2>6. CASE StatusUpdate(n)
    <3>1. Held' = Held
      BY <2>6, HeldKept DEF StatusUpdate
    <3>2. (\E m \in Names : stage'[m] = "reserved")
            => (\E m \in Names : stage[m] = "reserved")
      BY <2>6 DEF StatusUpdate, AtStage, TypeOK
    <3> QED
      BY <1>0, <2>6, <3>1, <3>2 DEF StatusUpdate, AccountedBut, Pending
  <2> QED
    BY <1>1, <2>1, <2>2, <2>3, <2>4, <2>5, <2>6 DEF Create
<1>2. ASSUME NEW n \in Names, Prune(n) PROVE AccountedBut(k)'
  <2>0. Held' = Held
    BY <1>2, HeldUnchanged DEF Prune, PruneSucceeds, PruneFails, PruneReplyLost
  <2>1. CASE PruneSucceeds(n)
    <3>1. Cardinality(crs') = Cardinality(crs) - 1
      BY <2>1, RemoveCounts DEF PruneSucceeds
    <3> QED
      BY <1>0, <2>0, <2>1, <3>1 DEF PruneSucceeds, AccountedBut, Pending
  <2>2. CASE PruneFails(n)
    BY <1>0, <2>0, <2>2 DEF PruneFails, AccountedBut, Pending
  <2>3. CASE PruneReplyLost(n)
    <3>1. Cardinality(crs') = Cardinality(crs) - 1
      BY <2>3, RemoveCounts DEF PruneReplyLost
    <3> QED
      BY <1>0, <2>0, <2>3, <3>1 DEF PruneReplyLost, AccountedBut, Pending
  <2> QED
    BY <1>2, <2>1, <2>2, <2>3 DEF Prune
<1>3. ASSUME NEW n \in Names, Environment(n) PROVE AccountedBut(k)'
  <2>0. Held' = Held
    BY <1>3, HeldUnchanged DEF Environment, Sync, Expire, UserDelete
  <2>1. CASE Sync(n) \/ Expire(n)
    BY <1>0, <2>0, <2>1 DEF Sync, Expire, AccountedBut, Pending
  <2>2. CASE UserDelete(n)
    <3>1. Cardinality(crs') = Cardinality(crs) - 1
      BY <2>2, RemoveCounts DEF UserDelete
    <3> QED
      BY <1>0, <2>0, <2>2, <3>1 DEF UserDelete, AccountedBut, Pending
  <2> QED
    BY <1>3, <2>1, <2>2 DEF Environment
<1>4. CASE List
  <2>1. Held' = Held
    BY <1>4, HeldUnchanged DEF List
  <2> QED
    BY <1>4, <2>1 DEF List, AccountedBut, Pending
<1>5. CASE CountDown
  <2>1. Held' = Held
    BY <1>5, HeldUnchanged DEF CountDown
  <2>2. count' \in {0, count - 1} /\ (count' = 0 => count <= 1)
    BY <1>0, <1>5 DEF CountDown, Decrement
  <2> QED
    BY <1>0, <1>5, <2>1, <2>2 DEF CountDown, AccountedBut, Pending
<1>6. CASE Restart
  <2>1. Cardinality(Held') = 0
    BY <1>6, HeldEmptied, FS_EmptySet
  <2>2. ~(\E m \in Names : stage'[m] = "reserved")
    BY <1>6 DEF Restart, RestartWith
  <2>3. /\ count' = Cardinality(crs) /\ crs' = crs
        /\ lost' = 0 /\ pruned' = FALSE
    BY <1>6 DEF Restart, RestartWith, InitCount
  <2> QED
    BY <1>0, <2>1, <2>2, <2>3 DEF AccountedBut, Pending
<1>7. CASE UNCHANGED vars
  <2>1. Held' = Held
    BY <1>7, HeldUnchanged DEF vars
  <2> QED
    BY <1>7, <2>1 DEF vars, AccountedBut, Pending
<1> QED
  BY <1>1, <1>2, <1>3, <1>4, <1>5, <1>6, <1>7 DEF Next

(* With nothing missed the account is that of a single process.            *)
LEMMA AccountedButNone ==
  ASSUME TypeOK
  PROVE  Accounted <=> AccountedBut(0)
<1>1. count + lost + 0 = count + lost
  BY AdmissionAssumption DEF TypeOK
<1> QED
  BY <1>1 DEF Accounted, AccountedBut

(* main counts what is there, and no handler has begun.                    *)
LEMMA AccountedInit == Init => Accounted
<1> SUFFICES ASSUME Init PROVE Accounted
  OBVIOUS
<1>1. Held = {} /\ ~(\E n \in Names : stage[n] = "reserved")
  BY DEF Init, Held
<1>2. IsFiniteSet(crs)
  BY AdmissionAssumption, FS_Subset DEF Init
<1>3. Cardinality(crs) \in Nat /\ Cardinality(Held) = 0
  BY <1>1, <1>2, FS_CardinalityType, FS_EmptySet
<1> QED
  BY <1>1, <1>3 DEF Init, Accounted, Pending

(* The counter covers the CRs and the slots in flight, always.             *)
THEOREM CounterCovers == Spec => []Accounted
<1>1. TypeOK /\ AccountedBut(0) /\ [Next]_vars => AccountedBut(0)'
  BY AccountStep
<1>2. TypeOK => (Accounted <=> AccountedBut(0))
  BY AccountedButNone
<1> QED
  BY <1>1, <1>2, AccountedInit, TypeCorrect, PTL DEF Spec
------------------------------------------------------------------------------
(***************************************************************************)
(* What the accounting is for.                                             *)
(***************************************************************************)

(* Only the two creations add a CR, and they hold a slot when they do.     *)
LEMMA CreationHoldsSlot ==
  ASSUME NEW CONSTANT k \in Nat, TypeOK, AccountedBut(k), NEW n \in Names,
         CreateSucceeds(n) \/ CreateReplyLost(n)
  PROVE  /\ Cardinality(crs') = Cardinality(crs) + 1
         /\ Cardinality(crs) + 1 <= max + lost + k
<1>1. Cardinality(crs') = Cardinality(crs) + 1
  BY StoredCounts DEF CreateSucceeds, CreateReplyLost
<1>2. count <= max
  BY DEF CreateSucceeds, CreateReplyLost, AtStage, AccountedBut
<1>3. n \in Held
  BY DEF CreateSucceeds, CreateReplyLost, AtStage, Held
<1>4. Cardinality(Held) # 0
  BY <1>3, Finite, FS_EmptySet
<1>5. /\ count \in Nat /\ lost \in Nat /\ max \in Int
      /\ Cardinality(crs) \in Nat /\ Cardinality(Held) \in Nat
      /\ Pending \in {0, 1}
  BY Finite, AdmissionAssumption, MaxAssumption DEF TypeOK, Pending
<1> QED
  BY <1>1, <1>2, <1>4, <1>5 DEF AccountedBut

(* Every other step leaves the CRs as they are or removes one.             *)
LEMMA OnlyCreationAdds ==
  ASSUME TypeOK, [Next]_vars,
         \A n \in Names : ~CreateSucceeds(n) /\ ~CreateReplyLost(n)
  PROVE  crs' = crs \/ \E n \in crs : crs' = crs \ {n}
<1> USE DEF server
<1>1. ASSUME NEW n \in Names, Create(n) PROVE crs' = crs
  BY <1>1 DEF Create, Reserve, CreateFails, GiveBack, StatusUpdate
<1>2. ASSUME NEW n \in Names, Prune(n)
      PROVE crs' = crs \/ (n \in crs /\ crs' = crs \ {n})
  BY <1>2 DEF Prune, PruneSucceeds, PruneFails, PruneReplyLost, Remove
<1>3. ASSUME NEW n \in Names, Environment(n)
      PROVE crs' = crs \/ (n \in crs /\ crs' = crs \ {n})
  BY <1>3 DEF Environment, Sync, Expire, UserDelete, Remove
<1>4. CASE List \/ CountDown \/ Restart
  BY <1>4 DEF List, CountDown, Restart, RestartWith
<1>5. CASE UNCHANGED vars
  BY <1>5 DEF vars
<1> QED
  BY <1>1, <1>2, <1>3, <1>4, <1>5 DEF Next

(* A step that adds a CR stays within the cap, up to what is unaccounted.  *)
LEMMA CapStep ==
  ASSUME NEW CONSTANT k \in Nat, TypeOK, AccountedBut(k), [Next]_vars,
         Cardinality(crs') > Cardinality(crs)
  PROVE  Cardinality(crs') <= max + lost' + k
<1>0. lost \in Nat /\ max \in Int /\ Cardinality(crs) \in Nat
  BY Finite, AdmissionAssumption, MaxAssumption DEF TypeOK
<1>1. ASSUME NEW n \in Names, CreateSucceeds(n) \/ CreateReplyLost(n)
      PROVE  Cardinality(crs') <= max + lost' + k
  <2>1. lost' \in {lost, lost + 1}
    BY <1>1 DEF CreateSucceeds, CreateReplyLost
  <2>2. Cardinality(crs') = Cardinality(crs) + 1 /\ Cardinality(crs) + 1 <= max + lost + k
    BY <1>1, CreationHoldsSlot
  <2> QED
    BY <1>0, <2>1, <2>2
<1>2. CASE \A n \in Names : ~CreateSucceeds(n) /\ ~CreateReplyLost(n)
  <2>1. crs' = crs \/ \E n \in crs : crs' = crs \ {n}
    BY <1>2, OnlyCreationAdds
  <2>2. CASE crs' = crs
    BY <1>0, <2>2
  <2>3. ASSUME NEW n \in crs, crs' = crs \ {n} PROVE FALSE
    <3>1. Cardinality(crs') = Cardinality(crs) - 1
      BY <2>3, Finite, FS_RemoveElement
    <3> QED
      BY <1>0, <3>1
  <2> QED
    BY <2>1, <2>2, <2>3
<1> QED
  BY <1>1, <1>2

(* The cap of the DetectiveConfig is exceeded by at most the creations     *)
(* whose reply was lost, for every cap and every set of names.             *)
THEOREM CapHolds == Spec => OvershootBounded
<1>1. TypeOK /\ Accounted /\ [Next]_vars
        => [Cardinality(crs') > Cardinality(crs)
              => Cardinality(crs') <= max + lost']_vars
  <2> SUFFICES ASSUME TypeOK, Accounted, [Next]_vars,
                      Cardinality(crs') > Cardinality(crs)
               PROVE  Cardinality(crs') <= max + lost'
    OBVIOUS
  <2>1. Cardinality(crs') <= max + lost' + 0
    BY AccountedButNone, CapStep
  <2>2. lost' \in Int /\ max \in Int
    BY TypeStep, AdmissionAssumption, MaxAssumption DEF TypeOK
  <2> QED
    BY <2>1, <2>2
<1> QED
  BY <1>1, TypeCorrect, CounterCovers, PTL DEF Spec, OvershootBounded

(* The controllers implement the capped registry, whatever fails, is       *)
(* deleted behind their back, or restarts.                                 *)
THEOREM ImplementsRegistry == Spec => RegistrySpec
<1>1. Init => Registry!Init
  BY DEF Init, Registry!Init
<1>2. TypeOK /\ Accounted /\ [Next]_vars => [Registry!Next]_crs
  <2> SUFFICES ASSUME TypeOK, Accounted, [Next]_vars
               PROVE  [Registry!Next]_crs
    OBVIOUS
  <2>0. /\ lost \in 0..MaxLost /\ MaxLost \in Nat /\ max \in Int
        /\ Cardinality(crs) \in Nat
    BY Finite, MaxAssumption, AdmissionAssumption DEF TypeOK
  <2>1. ASSUME NEW n \in Names, CreateSucceeds(n) \/ CreateReplyLost(n)
        PROVE  Registry!Create(n)
    <3>1. n \notin crs /\ crs' = crs \cup {n}
      BY <2>1 DEF CreateSucceeds, CreateReplyLost, Stored
    <3>2. Cardinality(crs) + 1 <= max + lost + 0
      BY <2>1, CreationHoldsSlot, AccountedButNone
    <3>3. Cardinality(crs) < max + MaxLost
      BY <2>0, <3>2
    <3> QED
      BY <3>1, <3>3 DEF Registry!Create, Registry!Cardinality, Cardinality
  <2>2. CASE \A n \in Names : ~CreateSucceeds(n) /\ ~CreateReplyLost(n)
    <3>1. crs' = crs \/ \E n \in crs : crs' = crs \ {n}
      BY <2>2, OnlyCreationAdds
    <3> QED
      BY <3>1 DEF TypeOK, Registry!Next, Registry!Delete
  <2> QED
    BY <2>1, <2>2 DEF Registry!Next
<1> QED
  BY <1>1, <1>2, TypeCorrect, CounterCovers, PTL
     DEF Spec, RegistrySpec, Registry!Spec

(* When no reply is lost and nobody else deletes an Investigation, the     *)
(* counter is exact: no Decrement is ever cut short by its floor.          *)
THEOREM CounterIsExact == MaxLost = 0 /\ ~OutsideDeletes /\ Spec => []CounterExact
<1> SUFFICES ASSUME MaxLost = 0, ~OutsideDeletes PROVE Spec => []CounterExact
  OBVIOUS
<1>1. Init => CounterExact
  <2> SUFFICES ASSUME Init PROVE CounterExact
    OBVIOUS
  <2>1. Held = {}
    BY DEF Init, Held
  <2>2. IsFiniteSet(crs)
    BY AdmissionAssumption, FS_Subset DEF Init
  <2>3. Cardinality(crs) \in Nat /\ Cardinality(Held) = 0
    BY <2>1, <2>2, FS_CardinalityType, FS_EmptySet
  <2> QED
    BY <2>3 DEF Init, CounterExact, Pending
<1>2. TypeOK /\ CounterExact /\ [Next]_vars => CounterExact'
  <2> SUFFICES ASSUME TypeOK, CounterExact, [Next]_vars PROVE CounterExact'
    OBVIOUS
  <2>0. /\ count \in Nat /\ lost = 0
        /\ Cardinality(crs) \in Nat /\ Cardinality(Held) \in Nat
        /\ Pending \in {0, 1}
    BY Finite DEF TypeOK, Pending
  <2> USE DEF server, cleanup
  <2>1. ASSUME NEW n \in Names, Create(n) PROVE CounterExact'
    <3>1. CASE Reserve(n)
      <4>1. Cardinality(Held') = Cardinality(Held) + 1
        BY <3>1, HeldGrows DEF Reserve
      <4> QED
        BY <2>0, <3>1, <4>1 DEF Reserve, TryIncrement, CounterExact, Pending
    <3>2. CASE CreateSucceeds(n)
      <4>1. /\ Cardinality(Held') = Cardinality(Held) - 1
            /\ Cardinality(crs') = Cardinality(crs) + 1
        BY <3>2, HeldShrinks, StoredCounts DEF CreateSucceeds
      <4> QED
        BY <2>0, <3>2, <4>1 DEF CreateSucceeds, CounterExact, Pending
    <3>3. CASE CreateFails(n) \/ StatusUpdate(n)
      <4>1. Held' = Held
        BY <3>3, HeldKept DEF CreateFails, StatusUpdate
      <4> QED
        BY <3>3, <4>1 DEF CreateFails, StatusUpdate, CounterExact, Pending
    <3>4. ~CreateReplyLost(n)
      BY <2>0 DEF CreateReplyLost
    <3>5. CASE GiveBack(n)
      <4>1. /\ Cardinality(Held') = Cardinality(Held) - 1
            /\ Cardinality(Held) >= 1
        BY <3>5, HeldShrinks DEF GiveBack
      <4>2. count >= 1
        BY <2>0, <4>1 DEF CounterExact
      <4>3. count' = count - 1
        BY <2>0, <3>5, <4>2 DEF GiveBack, Decrement
      <4> QED
        BY <2>0, <3>5, <4>1, <4>3 DEF GiveBack, CounterExact, Pending
    <3> QED
      BY <2>1, <3>1, <3>2, <3>3, <3>4, <3>5 DEF Create
  <2>2. ASSUME NEW n \in Names, Prune(n) PROVE CounterExact'
    <3>0. Held' = Held
      BY <2>2, HeldUnchanged DEF Prune, PruneSucceeds, PruneFails, PruneReplyLost
    <3>1. CASE PruneSucceeds(n)
      <4>1. Cardinality(crs') = Cardinality(crs) - 1
        BY <3>1, RemoveCounts DEF PruneSucceeds
      <4> QED
        BY <2>0, <3>0, <3>1, <4>1 DEF PruneSucceeds, CounterExact, Pending
    <3>2. CASE PruneFails(n)
      BY <3>0, <3>2 DEF PruneFails, CounterExact, Pending
    <3> QED
      BY <2>2, <3>1, <3>2 DEF Prune, PruneReplyLost
  <2>3. ASSUME NEW n \in Names, Environment(n) PROVE CounterExact'
    <3>1. Held' = Held /\ (Sync(n) \/ Expire(n))
      BY <2>3, HeldUnchanged DEF Environment, Sync, Expire, UserDelete
    <3> QED
      BY <3>1 DEF Sync, Expire, CounterExact, Pending
  <2>4. CASE List
    <3>1. Held' = Held
      BY <2>4, HeldUnchanged DEF List
    <3> QED
      BY <2>4, <3>1 DEF List, CounterExact, Pending
  <2>5. CASE CountDown
    <3>1. Held' = Held
      BY <2>5, HeldUnchanged DEF CountDown
    <3>2. Pending = 1 /\ Pending' = 0 /\ crs' = crs
      BY <2>5 DEF CountDown, Pending
    <3>3. count >= 1
      BY <2>0, <3>2 DEF CounterExact
    <3>4. count' = count - 1
      BY <2>0, <2>5, <3>3 DEF CountDown, Decrement
    <3> QED
      BY <2>0, <3>1, <3>2, <3>4 DEF CounterExact
  <2>6. CASE Restart
    <3>1. Cardinality(Held') = 0
      BY <2>6, HeldEmptied, FS_EmptySet
    <3>2. count' = Cardinality(crs) /\ crs' = crs /\ pruned' = FALSE
      BY <2>6 DEF Restart, RestartWith, InitCount
    <3> QED
      BY <2>0, <3>1, <3>2 DEF CounterExact, Pending
  <2>7. CASE UNCHANGED vars
    <3>1. Held' = Held
      BY <2>7, HeldUnchanged DEF vars
    <3> QED
      BY <2>7, <3>1 DEF vars, CounterExact, Pending
  <2> QED
    BY <2>1, <2>2, <2>3, <2>4, <2>5, <2>6, <2>7 DEF Next
<1> QED
  BY <1>1, <1>2, TypeCorrect, PTL DEF Spec
==============================================================================
