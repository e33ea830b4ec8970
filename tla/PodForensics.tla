---------------------------- MODULE PodForensics ----------------------------
(***************************************************************************)
(* The Investigation of one runner pod, written by two controllers that    *)
(* do not know of each other: PodWatcher.Reconcile opens it and attaches   *)
(* logs, Correlator.Reconcile diagnoses and closes it.  Every call to the  *)
(* API server is a step.  Reads go through informer caches that lag behind *)
(* the server; a write carries the resourceVersion of the copy it started  *)
(* from, so it fails when the object has changed since.  A write that      *)
(* changes an object never restores an earlier state of it, so comparing   *)
(* copies is comparing resourceVersions.                                   *)
(*                                                                         *)
(* The pod is deleted with a finalizer in place, and a pod of the same     *)
(* name may follow it, as ARC restarts a runner.  Only one worker runs     *)
(* each Reconcile (the default of controller-runtime).                     *)
(***************************************************************************)
EXTENDS Diagnosis

CONSTANTS
  PodStatuses,    \* statuses of the pod
  FirstStatus,    \* the one it is created with
  Kubelet,        \* pairs of statuses: the changes the kubelet reports
  ApiErrors,      \* may a request fail without a conflict?
  AtCap,          \* may the InvestigationCounter refuse a creation?
  Crashes,        \* may the process die and start again?
  Deletes,        \* may the CR be deleted (by Cleanup, or by a user)?
  MaxPods,        \* bound: pods created under the name
  MaxInvs,        \* bound: Investigations created under the name
                  \* (the last of them is not deleted)
  MaxLogs         \* bound: log collections

ASSUME ForensicsAssumption ==
  /\ PodStatuses \subseteq PodStatus
  /\ FirstStatus \in PodStatuses
  /\ Kubelet \subseteq PodStatuses \X PodStatuses
  /\ {ApiErrors, AtCap, Crashes, Deletes} \subseteq BOOLEAN
  /\ {MaxPods, MaxLogs} \subseteq Nat /\ MaxInvs \in Nat \ {0}

VARIABLES
  pod,            \* the pod in the API server
  inv,            \* the Investigation "pod-<name>" in the API server
  podCache, invCache,     \* the informers' copies
  podQueued, invQueued,   \* is there a request in the workqueue?
  pw, pwPod, pwInv, pwLogs, \* PodWatcher: next call, its copies, log paths
  co, coInv,      \* Correlator: next call, its copy
  pods, invs, logs        \* pods, Investigations and logs made so far

server == <<pod, inv, pods, invs>>
podWatcher == <<pw, pwPod, pwInv, pwLogs, podQueued>>
correlator == <<co, coInv, invQueued>>
caches == <<podCache, invCache>>
vars == <<server, caches, podWatcher, correlator, logs>>

Gone == [uid |-> 0]

Exists(o) == o # Gone

Init ==
  /\ pod = Gone /\ podCache = Gone /\ podQueued = FALSE
  /\ inv = Gone /\ invCache = Gone /\ invQueued = FALSE
  /\ pw = "idle" /\ pwPod = Gone /\ pwInv = Gone /\ pwLogs = <<>>
  /\ co = "idle" /\ coInv = Gone
  /\ pods = 0 /\ invs = 0 /\ logs = 0
-----------------------------------------------------------------------------
(***************************************************************************)
(* PodWatcher.Reconcile.  pw is the next call it makes.                    *)
(***************************************************************************)

PwReturn == pw' = "idle" /\ pwPod' = Gone /\ pwInv' = Gone /\ pwLogs' = <<>>

(* The branches below the finalizer check, for the copy p of the pod.      *)
Examine(p) ==
  \/ /\ p.deleting /\ p.finalizer
     /\ pw' = "collect" /\ pwPod' = p
     /\ UNCHANGED <<pwInv, pwLogs>>
  \/ /\ ~(p.deleting /\ p.finalizer) /\ detectAnomaly(p.status) # ""
     /\ pw' = "lookup" /\ pwPod' = p
     /\ UNCHANGED <<pwInv, pwLogs>>
  \/ /\ ~(p.deleting /\ p.finalizer) /\ detectAnomaly(p.status) = ""
     /\ PwReturn

PwStart ==
  /\ pw = "idle" /\ podQueued
  /\ podQueued' = FALSE
  /\ \/ /\ ~Exists(podCache)
        /\ PwReturn
     \/ /\ Exists(podCache)
        /\ ~podCache.deleting /\ ~podCache.finalizer
        /\ pw' = "addFinalizer" /\ pwPod' = podCache
        /\ UNCHANGED <<pwInv, pwLogs>>
     \/ /\ Exists(podCache)
        /\ podCache.deleting \/ podCache.finalizer
        /\ Examine(podCache)
  /\ UNCHANGED <<server, caches, correlator, logs>>

PwAddFinalizer ==
  /\ pw = "addFinalizer" /\ pwPod = pod
  /\ pod' = [pod EXCEPT !.finalizer = TRUE]
  /\ Examine(pod')
  /\ UNCHANGED <<inv, pods, invs, caches, podQueued, correlator, logs>>

(* CollectLogs reads the logs of whatever pod has the name now, and may    *)
(* get none.  Its error does not stop the deletion.                        *)
PwCollect ==
  /\ pw = "collect"
  /\ \/ /\ Exists(pod) /\ logs < MaxLogs
        /\ logs' = logs + 1
        /\ pwLogs' = <<logs'>>
        /\ pw' = "lookup"
     \/ /\ pw' = "removeFinalizer"
        /\ UNCHANGED <<pwLogs, logs>>
  /\ UNCHANGED <<server, caches, pwPod, pwInv, podQueued, correlator>>

Deleting == pwLogs # <<>>   \* ensureInvestigation, not createAnomaly...

(* Both end with errors logged; after ensureInvestigation the finalizer is *)
(* removed in any case.                                                    *)
PwInvestigated ==
  IF Deleting
  THEN pw' = "removeFinalizer" /\ pwInv' = Gone /\ UNCHANGED <<pwPod, pwLogs>>
  ELSE PwReturn

(* A variant that would bring an Investigation up to date with every       *)
(* anomaly.                                                                *)
PwLookupMerging ==
  /\ pw = "lookup"
  /\ IF Exists(invCache) THEN pw' = "update" /\ pwInv' = invCache
                         ELSE pw' = "create" /\ UNCHANGED pwInv
  /\ UNCHANGED <<server, caches, pwPod, pwLogs, podQueued, correlator, logs>>

(* Get through the cache.  The counter may refuse a creation (Admission).  *)
PwLookup ==
  /\ pw = "lookup"
  /\ \/ /\ ~Exists(invCache)
        /\ pw' = "create"
        /\ UNCHANGED <<pwPod, pwInv, pwLogs>>
     \/ /\ ~Exists(invCache) /\ AtCap
        /\ PwInvestigated
     \/ /\ Exists(invCache) /\ Deleting
        /\ pw' = "update" /\ pwInv' = invCache
        /\ UNCHANGED <<pwPod, pwLogs>>
     \/ /\ Exists(invCache) /\ ~Deleting
        /\ PwReturn
  /\ UNCHANGED <<server, caches, podQueued, correlator, logs>>

NewInvestigation ==
  [uid |-> invs + 1,
   trigger |-> IF Deleting THEN "pod-deletion" ELSE detectAnomaly(pwPod.status),
   pod |-> buildPodInfo(pwPod.status), events |-> FALSE,
   diagnosis |-> "", logPaths |-> pwLogs, phase |-> ""]

Stored ==
  /\ ~Exists(inv)
  /\ inv' = NewInvestigation
  /\ invs' = invs + 1

PwCreate ==
  /\ pw = "create"
  /\ Stored
  /\ pw' = "status" /\ pwInv' = inv'
  /\ UNCHANGED <<pod, pods, caches, pwPod, pwLogs, podQueued, correlator, logs>>

(* Create times out after the API server stored the object.                *)
PwCreateReplyLost ==
  /\ pw = "create" /\ ApiErrors
  /\ Stored
  /\ PwInvestigated
  /\ UNCHANGED <<pod, pods, caches, podQueued, correlator, logs>>

PwStatusUpdate ==
  /\ pw = "status" /\ pwInv = inv
  /\ inv' = [inv EXCEPT !.phase = "Collecting"]
  /\ PwInvestigated
  /\ UNCHANGED <<pod, pods, invs, caches, podQueued, correlator, logs>>

(* A variant that would force its copy onto the server.                    *)
PwUpdateForced ==
  /\ pw = "update" /\ Exists(inv)
  /\ inv' = [pwInv EXCEPT !.logPaths = @ \o pwLogs,
                          !.pod = buildPodInfo(pwPod.status),
                          !.events = FALSE]
  /\ PwInvestigated
  /\ UNCHANGED <<pod, pods, invs, caches, podQueued, correlator, logs>>

(* The pod's snapshot is replaced as a whole, and the events with it.      *)
PwUpdate ==
  /\ pw = "update" /\ pwInv = inv
  /\ inv' = [inv EXCEPT !.logPaths = @ \o pwLogs,
                        !.pod = buildPodInfo(pwPod.status),
                        !.events = FALSE]
  /\ PwInvestigated
  /\ UNCHANGED <<pod, pods, invs, caches, podQueued, correlator, logs>>

(* The errors that are only logged.                                        *)
PwError ==
  /\ \/ pw = "create" /\ (ApiErrors \/ Exists(inv))
     \/ pw \in {"status", "update"} /\ (ApiErrors \/ pwInv # inv)
  /\ PwInvestigated
  /\ UNCHANGED <<server, caches, podQueued, correlator, logs>>

PwRemoveFinalizer ==
  /\ pw = "removeFinalizer" /\ pwPod = pod
  /\ pod' = [pod EXCEPT !.finalizer = FALSE]
  /\ PwReturn
  /\ UNCHANGED <<inv, pods, invs, caches, podQueued, correlator, logs>>

(* A variant that does not return the error to controller-runtime.         *)
PwRequeueNothing ==
  /\ pw \in {"addFinalizer", "removeFinalizer"}
  /\ ApiErrors \/ pwPod # pod
  /\ PwReturn
  /\ UNCHANGED <<server, caches, podQueued, correlator, logs>>

(* The errors that are returned: controller-runtime tries again.           *)
PwRequeue ==
  /\ pw \in {"addFinalizer", "removeFinalizer"}
  /\ ApiErrors \/ pwPod # pod
  /\ podQueued' = TRUE
  /\ PwReturn
  /\ UNCHANGED <<server, caches, correlator, logs>>
-----------------------------------------------------------------------------
(***************************************************************************)
(* Correlator.Reconcile.  An Investigation of a pod names neither an       *)
(* EphemeralRunner nor a job, so there is nothing to enrich from the       *)
(* cluster or from GitHub: only the pod's events are added.                *)
(***************************************************************************)

CoReturn == co' = "idle" /\ coInv' = Gone

CoStart ==
  /\ co = "idle" /\ invQueued
  /\ invQueued' = FALSE
  /\ IF Exists(invCache) /\ invCache.phase = "Collecting"
     THEN co' = "update" /\ coInv' = invCache
     ELSE CoReturn
  /\ UNCHANGED <<server, caches, podWatcher, logs>>

Evidence(i) == [trigger |-> i.trigger, pod |-> i.pod, er |-> NoER, job |-> NoJob]

Diagnosed(i) ==
  IF i.diagnosis = "" THEN Classify(Evidence(i)) ELSE i.diagnosis

(* The events are listed when none are recorded yet; there may be none.    *)
Correlated(i, someEvents) ==
  [i EXCEPT !.events = @ \/ someEvents, !.diagnosis = Diagnosed(i)]

(* A variant that would force its copy onto the server.                    *)
CoUpdateForced ==
  /\ co = "update" /\ Exists(inv)
  /\ \E someEvents \in BOOLEAN : inv' = Correlated(coInv, someEvents)
  /\ co' = "refetch" /\ coInv' = Gone
  /\ UNCHANGED <<pod, pods, invs, caches, podWatcher, invQueued, logs>>

CoUpdate ==
  /\ co = "update" /\ coInv = inv
  /\ \E someEvents \in BOOLEAN : inv' = Correlated(inv, someEvents)
  /\ co' = "refetch" /\ coInv' = Gone
  /\ UNCHANGED <<pod, pods, invs, caches, podWatcher, invQueued, logs>>

(* A variant that ignores NotFound.                                        *)
CoRefetchUnchecked ==
  /\ co = "refetch"
  /\ co' = "complete" /\ coInv' = invCache
  /\ UNCHANGED <<server, caches, podWatcher, invQueued, logs>>

(* Get through the cache, which may still hold the copy from before the    *)
(* Update, or what has become of the object since.                         *)
CoRefetch ==
  /\ co = "refetch" /\ Exists(invCache)
  /\ co' = "complete" /\ coInv' = invCache
  /\ UNCHANGED <<server, caches, podWatcher, invQueued, logs>>

CoComplete ==
  /\ co = "complete" /\ coInv = inv
  /\ inv' = [inv EXCEPT !.phase = "Complete"]
  /\ CoReturn
  /\ UNCHANGED <<pod, pods, invs, caches, podWatcher, invQueued, logs>>

(* A variant that does not return the error to controller-runtime.         *)
CoRequeueNothing ==
  /\ \/ co \in {"update", "complete"} /\ (ApiErrors \/ coInv # inv)
     \/ co = "refetch" /\ ~Exists(invCache)
  /\ CoReturn
  /\ UNCHANGED <<server, caches, podWatcher, invQueued, logs>>

CoRequeue ==
  /\ \/ co \in {"update", "complete"} /\ (ApiErrors \/ coInv # inv)
     \/ co = "refetch" /\ ~Exists(invCache)
  /\ invQueued' = TRUE
  /\ CoReturn
  /\ UNCHANGED <<server, caches, podWatcher, logs>>
-----------------------------------------------------------------------------
(***************************************************************************)
(* The cluster.                                                            *)
(***************************************************************************)

PodCreated ==
  /\ ~Exists(pod) /\ pods < MaxPods
  /\ pods' = pods + 1
  /\ pod' = [uid |-> pods', status |-> FirstStatus,
             finalizer |-> FALSE, deleting |-> FALSE]
  /\ UNCHANGED <<inv, invs, caches, podWatcher, correlator, logs>>

PodProgress ==
  /\ Exists(pod)
  /\ \E s \in PodStatuses : /\ <<pod.status, s>> \in Kubelet
                            /\ pod' = [pod EXCEPT !.status = s]
  /\ UNCHANGED <<inv, pods, invs, caches, podWatcher, correlator, logs>>

PodDelete ==
  /\ Exists(pod) /\ ~pod.deleting
  /\ pod' = [pod EXCEPT !.deleting = TRUE]
  /\ UNCHANGED <<inv, pods, invs, caches, podWatcher, correlator, logs>>

(* The object goes when no finalizer is left and the kubelet is done.      *)
PodGone ==
  /\ Exists(pod) /\ pod.deleting /\ ~pod.finalizer
  /\ pod' = Gone
  /\ UNCHANGED <<inv, pods, invs, caches, podWatcher, correlator, logs>>

InvDeleted ==
  /\ Deletes /\ invs < MaxInvs
  /\ Exists(inv)
  /\ inv' = Gone
  /\ UNCHANGED <<pod, pods, invs, caches, podWatcher, correlator, logs>>

Collecting(i) == Exists(i) /\ i.phase = "Collecting"

(* The informers deliver what the server holds now; the Correlator's       *)
(* predicate drops what is not in phase Collecting.                        *)
PodEvent ==
  /\ podCache # pod
  /\ podCache' = pod
  /\ podQueued' = TRUE
  /\ UNCHANGED <<server, invCache, pw, pwPod, pwInv, pwLogs, correlator, logs>>

InvEvent ==
  /\ invCache # inv
  /\ invCache' = inv
  /\ invQueued' = (invQueued \/ Collecting(IF Exists(inv) THEN inv ELSE invCache))
  /\ UNCHANGED <<server, podCache, podWatcher, co, coInv, logs>>

(* The informers' periodic resync hands every cached object out again.     *)
Resync ==
  /\ podQueued' = (podQueued \/ Exists(podCache))
  /\ invQueued' = (invQueued \/ Collecting(invCache))
  /\ UNCHANGED <<server, caches, pw, pwPod, pwInv, pwLogs, co, coInv, logs>>

(* The process dies; a new one fills its caches and queues all it finds.   *)
Restart ==
  /\ Crashes
  /\ PwReturn /\ CoReturn
  /\ podCache' = pod /\ podQueued' = Exists(pod)
  /\ invCache' = inv /\ invQueued' = Collecting(inv)
  /\ UNCHANGED <<server, logs>>

PodWatcher == \/ PwStart \/ PwAddFinalizer \/ PwCollect \/ PwLookup \/ PwCreate
              \/ PwCreateReplyLost \/ PwStatusUpdate \/ PwUpdate \/ PwError
              \/ PwRemoveFinalizer \/ PwRequeue

Correlator == \/ CoStart \/ CoUpdate \/ CoRefetch \/ CoComplete \/ CoRequeue

Cluster == \/ PodCreated \/ PodProgress \/ PodDelete \/ PodGone \/ InvDeleted
           \/ PodEvent \/ InvEvent \/ Resync \/ Restart

Next == PodWatcher \/ Correlator \/ Cluster

Spec == Init /\ [][Next]_vars

(* Both controllers keep working, the informers keep delivering, and a     *)
(* request that is made again and again does not fail for ever.            *)
Fairness ==
  /\ WF_vars(PwStart) /\ WF_vars(PwCollect) /\ WF_vars(PwLookup)
  /\ WF_vars(PwCreate \/ PwStatusUpdate \/ PwUpdate \/ PwError)
  /\ WF_vars(PwRequeue) /\ SF_vars(PwAddFinalizer) /\ SF_vars(PwRemoveFinalizer)
  /\ WF_vars(CoStart) /\ WF_vars(CoRefetch) /\ WF_vars(CoRequeue)
  /\ SF_vars(CoUpdate) /\ SF_vars(CoComplete)
  /\ WF_vars(PodEvent) /\ WF_vars(InvEvent)

FairSpec == Spec /\ Fairness
-----------------------------------------------------------------------------
(***************************************************************************)
(* Properties.                                                             *)
(***************************************************************************)

Diagnoses == {FailureTypes[i] : i \in DOMAIN FailureTypes} \cup {"unknown"}

RunnerPods == [uid : 1..MaxPods, status : PodStatuses,
               finalizer : BOOLEAN, deleting : BOOLEAN]
PodObjects == RunnerPods \cup {Gone}

Triggers == PodTriggers \cup {"pod-deletion"}

Investigations ==
  [uid : 1..MaxInvs, trigger : Triggers,
   pod : {buildPodInfo(s) : s \in PodStatuses}, events : BOOLEAN,
   diagnosis : Diagnoses \cup {""}, logPaths : Seq(1..MaxLogs),
   phase : {"", "Collecting", "Complete"}]
InvObjects == Investigations \cup {Gone}

(* The shape of the state, and the copies the handlers hold where the code *)
(* has them.                                                               *)
TypeOK ==
  /\ pod \in PodObjects /\ podCache \in PodObjects /\ pwPod \in PodObjects
  /\ inv \in InvObjects /\ invCache \in InvObjects
  /\ pwInv \in InvObjects /\ coInv \in InvObjects
  /\ podQueued \in BOOLEAN /\ invQueued \in BOOLEAN
  /\ pw \in {"idle", "addFinalizer", "collect", "lookup", "create", "status",
             "update", "removeFinalizer"}
  /\ co \in {"idle", "update", "refetch", "complete"}
  /\ pw # "idle" => Exists(pwPod)
  /\ pw \in {"status", "update"} => Exists(pwInv)
  /\ co \in {"update", "complete"} => Exists(coInv)
  /\ pwLogs \in {<<>>} \cup {<<l>> : l \in 1..MaxLogs}
  /\ pods \in 0..MaxPods /\ invs \in 0..MaxInvs /\ logs \in 0..MaxLogs

(* Two controllers write the CR without coordination, from cached copies   *)
(* that may be stale: its reader still sees a report that only grows, is   *)
(* diagnosed once, and is closed with a diagnosis.                         *)
Report == INSTANCE InvestigationReport WITH
  Logs      <- 1..MaxLogs,
  phase     <- IF Exists(inv) THEN inv.phase ELSE "absent",
  diagnosis <- IF Exists(inv) THEN inv.diagnosis ELSE "",
  logPaths  <- IF Exists(inv) THEN inv.logPaths ELSE <<>>

ReportSpec == Report!Spec

(* The same without the closing, and for every Investigation by itself,    *)
(* when Investigations are also deleted and made anew under the name: no   *)
(* write of a handler that worked on an earlier one takes back anything.   *)
NothingTakenBack ==
  [][Exists(inv) /\ Exists(inv') /\ inv.uid = inv'.uid =>
       /\ inv.diagnosis # "" => inv'.diagnosis = inv.diagnosis
       /\ inv.phase = "Complete" => inv'.phase = "Complete"
       /\ \A i \in DOMAIN inv.logPaths :
            i \in DOMAIN inv'.logPaths /\ inv'.logPaths[i] = inv.logPaths[i]]_vars

(* The finalizer never blocks a deletion for good.                         *)
DeletionNotBlocked ==
  (Exists(pod) /\ pod.deleting) ~> (~Exists(pod) \/ ~pod.finalizer)

(* Every Investigation handed over to the Correlator is completed, unless  *)
(* it is deleted first.                                                    *)
CollectingEnds == Collecting(inv) ~> ~Collecting(inv)

(* "Phase is Collecting, Complete, or Failed"                              *)
(* (api/v1alpha1/investigation_types.go): once its creator has returned.   *)
PhaseKnown ==
  pw = "idle" /\ Exists(inv) => inv.phase \in {"Collecting", "Complete", "Failed"}

(* "Once you see a completed investigation, the spec.diagnosis tells you   *)
(* what happened" (README.md): the diagnosis is the classification of the  *)
(* evidence beside it, through further anomalies of the pod, conflicts and *)
(* retries, at least until the pod is deleted, which replaces the evidence *)
(* (createAnomalyInvestigation, Correlator.Reconcile).                     *)
DiagnosisMatchesEvidence ==
  Exists(inv) /\ inv.diagnosis # "" /\ Exists(pod) /\ pods = 1 /\ ~pod.deleting
    => inv.diagnosis = Classify(Evidence(inv))
=============================================================================
