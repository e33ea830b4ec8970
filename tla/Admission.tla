------------------------------ MODULE Admission ------------------------------
(***************************************************************************)
(* Who may create an Investigation.  PodWatcher, EphemeralRunnerWatcher    *)
(* and GitHubPoller create Investigation CRs through the same sequence of  *)
(* API calls around the shared InvestigationCounter; Cleanup deletes them; *)
(* cmd/main.go initialises the counter.  Every call to the API server is a *)
(* step of its own, so the controllers interleave between the calls.       *)
(*                                                                         *)
(* Each controller runs one reconcile (or poll) at a time, and the names   *)
(* it creates ("pod-...", "er-...", "gh-...") are its own: Owner.          *)
(***************************************************************************)
EXTENDS InvestigationCounter, FiniteSets

CONSTANTS
  Creators,       \* the controllers that create Investigations
  Names,          \* names of Investigation CRs
  Owner,          \* the controller that creates a name
  OutsideDeletes, \* may a CR disappear without a Delete that reports success?
  MaxLost         \* bound: Create calls that take effect but report an error

ASSUME AdmissionAssumption ==
  /\ IsFiniteSet(Names)
  /\ Owner \in [Names -> Creators]
  /\ OutsideDeletes \in BOOLEAN
  /\ MaxLost \in Nat

VARIABLES
  crs,            \* names of the Investigation CRs in the API server
  expired,        \* those of them older than the retention period
  cache,          \* the informer's copy of a name: none, the live CR, or one
                  \* that is gone from the API server
  stage,          \* how far the creation of a name has got in its handler
  todo,           \* Cleanup: listed CRs that are still to be pruned
  pruned,         \* Cleanup: a Delete succeeded and is not yet counted down
  lost            \* history: Create calls that took effect but reported an
                  \* error, since the process started

vars == <<count, crs, expired, cache, stage, todo, pruned, lost>>
server == <<crs, expired, cache>>
cleanup == <<todo, pruned>>

Stages == {"idle", "reserved", "created", "failed"}

Held == {n \in Names : stage[n] \in {"reserved", "failed"}}

Synced == [n \in Names |-> IF n \in crs THEN "live" ELSE "none"]

Init ==
  /\ crs \in SUBSET Names
  /\ expired \in SUBSET crs
  /\ cache = Synced
  /\ stage = [n \in Names |-> "idle"]
  /\ todo = {}
  /\ pruned = FALSE
  /\ lost = 0
  /\ count = Cardinality(crs)
------------------------------------------------------------------------------
(***************************************************************************)
(* Creation: createAnomalyInvestigation, ensureInvestigation (its creating *)
(* half), createInvestigation and createJobInvestigation.                  *)
(***************************************************************************)

AtStage(n, from, to) == /\ stage[n] = from
                        /\ stage' = [stage EXCEPT ![n] = to]

(* Get through the cache finds nothing, and the counter admits one more.   *)
(* A handler whose Get finds the CR, or that is refused by the counter,    *)
(* returns without changing anything.  Get reads the informer's cache, so  *)
(* NotFound is its only error.                                             *)
Reserve(n) ==
  /\ \A m \in Names : Owner[m] = Owner[n] => stage[m] = "idle"
  /\ cache[n] = "none"
  /\ TryIncrement
  /\ AtStage(n, "idle", "reserved")
  /\ UNCHANGED <<server, cleanup, lost>>

Stored(n) == /\ n \notin crs
             /\ crs' = crs \cup {n}
             /\ UNCHANGED <<expired, cache>>

CreateSucceeds(n) ==
  /\ AtStage(n, "reserved", "created")
  /\ Stored(n)
  /\ UNCHANGED <<count, cleanup, lost>>

(* AlreadyExists after a stale Get, or any other error of the request.     *)
CreateFails(n) ==
  /\ AtStage(n, "reserved", "failed")
  /\ UNCHANGED <<count, server, cleanup, lost>>

(* The request times out after the API server stored the object.           *)
CreateReplyLost(n) ==
  /\ lost < MaxLost
  /\ AtStage(n, "reserved", "failed")
  /\ Stored(n)
  /\ lost' = lost + 1
  /\ UNCHANGED <<count, cleanup>>

(* Variants: the error branch forgets the slot, or returns it twice.       *)
GiveBackNothing(n) ==
  /\ AtStage(n, "failed", "idle")
  /\ UNCHANGED <<count, server, cleanup, lost>>

GiveBackTwice(n) ==
  /\ AtStage(n, "failed", "idle")
  /\ Decrement(2)
  /\ UNCHANGED <<server, cleanup, lost>>

(* The error branch after Create gives the slot back.                      *)
GiveBack(n) ==
  /\ AtStage(n, "failed", "idle")
  /\ Decrement(1)
  /\ UNCHANGED <<server, cleanup, lost>>

(* Status().Update on the created object.  Its error only ends the handler *)
(* (PodForensics follows the phase): the counter keeps the slot either way.*)
StatusUpdate(n) ==
  /\ AtStage(n, "created", "idle")
  /\ UNCHANGED <<count, server, cleanup, lost>>
------------------------------------------------------------------------------
(***************************************************************************)
(* Cleanup.runCleanup.  It lists through the cache and deletes by name,    *)
(* without a precondition on the object it listed.                         *)
(***************************************************************************)

Remove(n) == /\ n \in crs
             /\ crs' = crs \ {n}
             /\ expired' = expired \ {n}
             /\ cache' = [cache EXCEPT ![n] = IF @ = "live" THEN "gone" ELSE @]

List ==
  /\ todo = {} /\ ~pruned
  /\ \E old \in SUBSET {n \in Names : cache[n] = "gone"} :
       todo' = old \cup {n \in expired : cache[n] = "live"}
  /\ todo' # {}
  /\ UNCHANGED <<count, server, pruned, stage, lost>>

PruneSucceeds(n) ==
  /\ n \in todo /\ ~pruned
  /\ Remove(n)
  /\ todo' = todo \ {n}
  /\ pruned' = TRUE
  /\ UNCHANGED <<count, stage, lost>>

(* NotFound, or any other error of the request: logged, not counted down.  *)
PruneFails(n) ==
  /\ n \in todo /\ ~pruned
  /\ todo' = todo \ {n}
  /\ UNCHANGED <<count, server, pruned, stage, lost>>

PruneReplyLost(n) ==
  /\ OutsideDeletes
  /\ n \in todo /\ ~pruned
  /\ Remove(n)
  /\ todo' = todo \ {n}
  /\ UNCHANGED <<count, pruned, stage, lost>>

(* A variant that never counts a pruned CR down.                           *)
CountDownNothing ==
  /\ pruned
  /\ pruned' = FALSE
  /\ UNCHANGED <<count, server, stage, todo, lost>>

CountDown ==
  /\ pruned
  /\ Decrement(1)
  /\ pruned' = FALSE
  /\ UNCHANGED <<server, stage, todo, lost>>
------------------------------------------------------------------------------
(***************************************************************************)
(* The process and its environment.                                        *)
(***************************************************************************)

(* The process dies anywhere and starts again: cmd/main.go lists the CRs   *)
(* and initialises the counter before any controller runs.                 *)
RestartWith(n) ==
  /\ InitCount(n)
  /\ cache' = Synced
  /\ stage' = [m \in Names |-> "idle"]
  /\ todo' = {}
  /\ pruned' = FALSE
  /\ lost' = 0
  /\ UNCHANGED <<crs, expired>>

Restart == RestartWith(Cardinality(crs))

(* The informer catches up with the API server on one object.              *)
Sync(n) ==
  /\ cache[n] # Synced[n]
  /\ cache' = [cache EXCEPT ![n] = Synced[n]]
  /\ UNCHANGED <<count, crs, expired, stage, cleanup, lost>>

Expire(n) ==
  /\ n \in crs \ expired
  /\ expired' = expired \cup {n}
  /\ UNCHANGED <<count, crs, cache, stage, cleanup, lost>>

(* "kubectl delete investigation", as the repository's README describes.   *)
UserDelete(n) ==
  /\ OutsideDeletes
  /\ Remove(n)
  /\ UNCHANGED <<count, stage, cleanup, lost>>

Create(n) == \/ Reserve(n) \/ CreateSucceeds(n) \/ CreateFails(n)
             \/ CreateReplyLost(n) \/ GiveBack(n) \/ StatusUpdate(n)

Prune(n) == PruneSucceeds(n) \/ PruneFails(n) \/ PruneReplyLost(n)

Environment(n) == Sync(n) \/ Expire(n) \/ UserDelete(n)

Next == \/ \E n \in Names : Create(n) \/ Prune(n) \/ Environment(n)
        \/ List \/ CountDown \/ Restart

Spec == Init /\ [][Next]_vars
------------------------------------------------------------------------------
(***************************************************************************)
(* Properties.                                                             *)
(***************************************************************************)

(* The shape of the state: count is a natural number (Decrement floors it  *)
(* at 0), the history of a CR is kept only while it exists.                *)
TypeOK ==
  /\ count \in Nat
  /\ crs \in SUBSET Names
  /\ expired \in SUBSET crs
  /\ cache \in [Names -> {"none", "live", "gone"}]
  /\ stage \in [Names -> Stages]
  /\ todo \in SUBSET Names
  /\ pruned \in BOOLEAN
  /\ lost \in 0..MaxLost

Pending == IF pruned THEN 1 ELSE 0

(* Every CR, every slot reserved by a creation in flight and every Delete  *)
(* not yet counted down is covered by the counter, except for creations    *)
(* whose reply was lost.  A reservation exists only within the cap.        *)
Accounted ==
  /\ Cardinality(crs) + Cardinality(Held) + Pending <= count + lost
  /\ (\E n \in Names : stage[n] = "reserved") => count <= max

(* No creation takes the cluster above maxInvestigations by more than the  *)
(* number of Create calls whose reply was lost since the process started,  *)
(* whatever the caches, the errors, the deletions and the restarts do.     *)
OvershootBounded ==
  [][Cardinality(crs') > Cardinality(crs)
       => Cardinality(crs') <= max + lost']_vars

(* The controllers together implement the capped registry that the         *)
(* DetectiveConfig type documents, with room for the creations whose reply *)
(* may be lost.                                                            *)
Registry == INSTANCE InvestigationRegistry WITH max <- max + MaxLost
RegistrySpec == Registry!Spec

(* "InvestigationCounter tracks the number of Investigation CRs in the     *)
(* cluster ... updated as investigations are created or deleted": between  *)
(* handlers the counter is the number of CRs, and inside them it is off by *)
(* exactly the slots in flight.                                            *)
CounterExact == count = Cardinality(crs) + Cardinality(Held) + Pending

(* Fairness: the controllers' goroutines keep running, time passes, the    *)
(* informer catches up, and an API server that is asked again and again to *)
(* delete a CR does not fail for ever.                                     *)
Fairness ==
  /\ \A n \in Names : /\ WF_vars(CreateSucceeds(n) \/ CreateFails(n))
                      /\ WF_vars(GiveBack(n))
                      /\ WF_vars(StatusUpdate(n))
                      /\ WF_vars(Sync(n))
                      /\ WF_vars(Expire(n))
                      /\ WF_vars(PruneFails(n))
                      /\ SF_vars(PruneSucceeds(n))
  /\ WF_vars(List)
  /\ WF_vars(CountDown)

FairSpec == Spec /\ Fairness

(* Refusal is temporary: retention makes room, so the counter is below the *)
(* cap again and again.                                                    *)
CapacityReturns == []<>(count < max)
==============================================================================
