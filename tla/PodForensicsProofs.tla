------------------------- MODULE PodForensicsProofs -------------------------
(***************************************************************************)
(* Theorems about PodForensics for every set of pod statuses, any number   *)
(* of pods, Investigations and logs, with and without errors, refusals,    *)
(* crashes and deletions.                                                  *)
(***************************************************************************)
EXTENDS PodForensics, DiagnosisProofs, SequenceTheorems, TLAPS

(***************************************************************************)
(* Type correctness.                                                       *)
(***************************************************************************)

(* What the handlers know of the copies they hold.  The last Investigation *)
(* under the name is not deleted.                                          *)
HandlersHold ==
  /\ ~Exists(inv) => invs < MaxInvs
  /\ pw \in {"lookup", "create"} /\ ~Deleting => detectAnomaly(pwPod.status) # ""
  /\ pw = "status" => pwInv.phase = ""
  /\ pw = "update" => Deleting
  /\ co = "update" => coInv.phase = "Collecting"

TypeInv == TypeOK /\ HandlersHold

(* An object that exists is not mistaken for one that does not.            *)
LEMMA GoneApart == Gone \notin RunnerPods /\ Gone \notin Investigations
<1>1. Gone.uid = 0
  BY DEF Gone
<1>2. ASSUME NEW p \in RunnerPods PROVE p.uid # 0
  <2>1. p.uid \in 1..MaxPods
    BY DEF RunnerPods
  <2> QED
    BY <2>1, ForensicsAssumption
<1>3. ASSUME NEW i \in Investigations PROVE i.uid # 0
  <2>1. i.uid \in 1..MaxInvs
    BY DEF Investigations
  <2> QED
    BY <2>1, ForensicsAssumption
<1> QED
  BY <1>1, <1>2, <1>3

(* Writes of the fields of an object leave an object.                      *)
LEMMA PodWrites ==
  ASSUME NEW p \in RunnerPods
  PROVE  /\ \A b \in BOOLEAN : [p EXCEPT !.finalizer = b] \in RunnerPods
         /\ [p EXCEPT !.deleting = TRUE] \in RunnerPods
         /\ \A s \in PodStatuses : [p EXCEPT !.status = s] \in RunnerPods
BY DEF RunnerPods

LogLists == {<<>>} \cup {<<l>> : l \in 1..MaxLogs}

(* What one collection contributes is a list of logs.                      *)
LEMMA LogListsType == LogLists \subseteq Seq(1..MaxLogs)
<1> DEFINE L == 1..MaxLogs
<1> HIDE DEF L
<1>1. <<>> \in Seq(L)
  OBVIOUS
<1>2. \A l \in L : <<l>> \in Seq(L)
  OBVIOUS
<1> QED
  BY <1>1, <1>2 DEF LogLists, L

(* Status().Update of either controller.                                   *)
LEMMA PhaseWrites ==
  ASSUME NEW i \in Investigations, NEW ph \in {"Collecting", "Complete"}
  PROVE  [i EXCEPT !.phase = ph] \in Investigations
BY DEF Investigations

(* The update on deletion of the pod.                                      *)
LEMMA EvidenceWrites ==
  ASSUME NEW i \in Investigations, NEW l \in LogLists, NEW s \in PodStatuses
  PROVE  [i EXCEPT !.logPaths = @ \o l, !.pod = buildPodInfo(s),
                   !.events = FALSE] \in Investigations
<1>1. i.logPaths \in Seq(1..MaxLogs) /\ l \in Seq(1..MaxLogs)
  BY LogListsType DEF Investigations
<1>2. i.logPaths \o l \in Seq(1..MaxLogs)
  BY <1>1, ConcatProperties
<1>3. buildPodInfo(s) \in {buildPodInfo(t) : t \in PodStatuses}
  OBVIOUS
<1> DEFINE paths == i.logPaths \o l
           info == buildPodInfo(s)
           infos == {buildPodInfo(t) : t \in PodStatuses}
<1> HIDE DEF paths, info, infos
<1>4. paths \in Seq(1..MaxLogs) /\ info \in infos
  BY <1>2, <1>3 DEF paths, info, infos
<1>5. [i EXCEPT !.logPaths = paths, !.pod = info, !.events = FALSE] \in Investigations
  BY <1>4 DEF Investigations, infos
<1> QED
  BY <1>5 DEF paths, info

(* The update of the Correlator.                                           *)
LEMMA CorrelatedType ==
  ASSUME NEW i \in Investigations, NEW b \in BOOLEAN
  PROVE  Correlated(i, b) \in Investigations
<1>1. Diagnosed(i) \in Diagnoses \cup {""}
  BY ClassifyType DEF Diagnosed, Diagnoses, Investigations
<1>2. (i.events \/ b) \in BOOLEAN
  BY DEF Investigations
<1> DEFINE d == Diagnosed(i)  e == i.events \/ b
<1> HIDE DEF d, e
<1>3. [i EXCEPT !.events = e, !.diagnosis = d] \in Investigations
  BY <1>1, <1>2 DEF Investigations, d, e
<1> QED
  BY <1>3 DEF Correlated, d, e

(* A new Investigation.                                                    *)
LEMMA NewType ==
  ASSUME TypeInv, pw = "create", ~Exists(inv)
  PROVE  NewInvestigation \in Investigations /\ invs + 1 \in 1..MaxInvs
<1>1. invs \in 0..MaxInvs /\ invs < MaxInvs /\ MaxInvs \in Nat
  BY ForensicsAssumption DEF TypeInv, TypeOK, HandlersHold
<1>2. invs + 1 \in 1..MaxInvs
  BY <1>1
<1>3. pwPod.status \in PodStatuses
  BY DEF TypeInv, TypeOK, PodObjects, RunnerPods, Exists
<1>4. buildPodInfo(pwPod.status) \in {buildPodInfo(s) : s \in PodStatuses}
  BY <1>3
<1>5. (IF Deleting THEN "pod-deletion" ELSE detectAnomaly(pwPod.status)) \in Triggers
  BY AnomalyType DEF Triggers, TypeInv, HandlersHold
<1>6. pwLogs \in Seq(1..MaxLogs)
  BY LogListsType DEF TypeInv, TypeOK, LogLists
<1> DEFINE t == IF Deleting THEN "pod-deletion" ELSE detectAnomaly(pwPod.status)
           info == buildPodInfo(pwPod.status)
           infos == {buildPodInfo(s) : s \in PodStatuses}
<1> HIDE DEF t, info, infos
<1>7. t \in Triggers /\ info \in infos
  BY <1>4, <1>5 DEF t, info, infos
<1>8. [uid |-> invs + 1, trigger |-> t, pod |-> info, events |-> FALSE,
       diagnosis |-> "", logPaths |-> pwLogs, phase |-> ""] \in Investigations
  BY <1>2, <1>6, <1>7 DEF Investigations, infos
<1> QED
  BY <1>2, <1>8 DEF NewInvestigation, t, info

(* PwReturn and PwInvestigated leave the PodWatcher in shape.              *)
LEMMA ReturnType ==
  ASSUME TypeOK, pw # "idle", PwReturn \/ PwInvestigated
  PROVE  /\ pwPod' \in PodObjects /\ pwInv' \in InvObjects /\ pwLogs' \in LogLists
         /\ pw' \in {"idle", "removeFinalizer"}
         /\ pw' # "idle" => Exists(pwPod')
BY DEF TypeOK, PwReturn, PwInvestigated, PodObjects, InvObjects, LogLists

(* So does Examine with a pod at hand.                                     *)
LEMMA ExamineType ==
  ASSUME TypeOK, NEW p \in RunnerPods, Examine(p)
  PROVE  /\ pwPod' \in PodObjects /\ pwInv' \in InvObjects /\ pwLogs' \in LogLists
         /\ pw' \in {"idle", "collect", "lookup"}
         /\ pw' # "idle" => pwPod' = p
         /\ pw' = "lookup" => detectAnomaly(pwPod'.status) # ""
BY DEF TypeOK, Examine, PwReturn, PodObjects, InvObjects, LogLists

(* One step of either controller or of the cluster.                        *)
LEMMA TypeStep ==
  ASSUME TypeInv, [Next]_vars
  PROVE  TypeInv'
<1> USE DEF server, caches, podWatcher, correlator
<1>0. TypeOK /\ HandlersHold
  BY DEF TypeInv
<1>a. Gone \in PodObjects /\ Gone \in InvObjects /\ ~Exists(Gone)
  BY DEF PodObjects, InvObjects, Exists
<1>b. /\ \A p \in PodObjects : Exists(p) => p \in RunnerPods
      /\ \A i \in InvObjects : Exists(i) => i \in Investigations
      /\ \A p \in RunnerPods : p \in PodObjects /\ Exists(p)
      /\ \A i \in Investigations : i \in InvObjects /\ Exists(i)
  BY GoneApart DEF PodObjects, InvObjects, Exists
<1>c. pwLogs \in LogLists
  BY <1>0 DEF TypeOK, LogLists
<1>d. ASSUME UNCHANGED <<inv, invs, pw, pwPod, pwInv, pwLogs, co, coInv>>
      PROVE  HandlersHold'
  BY <1>0, <1>d DEF HandlersHold, Deleting
<1>1. CASE PwStart
  <2>1. CASE ~Exists(podCache) /\ PwReturn
    BY <1>0, <1>1, <1>a, <2>1
       DEF PwStart, PwReturn, TypeInv, TypeOK, HandlersHold, Deleting
  <2>2. CASE /\ Exists(podCache) /\ pw' = "addFinalizer" /\ pwPod' = podCache
             /\ UNCHANGED <<pwInv, pwLogs>>
    BY <1>0, <1>1, <2>2 DEF PwStart, TypeInv, TypeOK, HandlersHold
  <2>3. CASE Exists(podCache) /\ Examine(podCache)
    <3>1. podCache \in RunnerPods
      BY <1>0, <1>b, <2>3 DEF TypeOK
    <3> QED
      BY <1>0, <1>1, <2>3, <3>1, <1>b, ExamineType
         DEF PwStart, TypeInv, TypeOK, HandlersHold, LogLists
  <2> QED
    BY <1>1, <2>1, <2>2, <2>3 DEF PwStart
<1>2. CASE PwAddFinalizer
  <2>1. pod \in RunnerPods
    BY <1>0, <1>2, <1>b DEF PwAddFinalizer, TypeOK
  <2>2. pod' \in RunnerPods /\ Examine(pod')
    BY <1>2, <2>1, PodWrites DEF PwAddFinalizer
  <2> QED
    BY <1>0, <1>2, <2>2, <1>b, ExamineType
       DEF PwAddFinalizer, TypeInv, TypeOK, HandlersHold, LogLists
<1>3. CASE PwCollect
  <2>1. CASE pw' = "lookup"
    <3>1. logs \in 0..MaxLogs /\ logs < MaxLogs /\ logs' = logs + 1 /\ pwLogs' = <<logs'>>
      BY <1>0, <1>3, <2>1 DEF PwCollect, TypeOK
    <3>2. logs' \in 1..MaxLogs /\ logs' \in 0..MaxLogs
      BY <3>1, ForensicsAssumption
    <3>3. pwLogs' \in LogLists /\ pwLogs' # <<>>
      BY <3>1, <3>2 DEF LogLists
    <3> QED
      BY <1>0, <1>3, <2>1, <3>2, <3>3
         DEF PwCollect, TypeInv, TypeOK, HandlersHold, LogLists, Deleting
  <2>2. CASE pw' = "removeFinalizer" /\ UNCHANGED <<pwLogs, logs>>
    BY <1>0, <1>3, <2>2 DEF PwCollect, TypeInv, TypeOK, HandlersHold
  <2> QED
    BY <1>3, <2>1, <2>2 DEF PwCollect
<1>4. CASE PwLookup
  <2>1. CASE pw' = "create" /\ UNCHANGED <<pwPod, pwInv, pwLogs>>
    BY <1>0, <1>4, <2>1 DEF PwLookup, TypeInv, TypeOK, HandlersHold, Deleting
  <2>2. CASE PwInvestigated \/ PwReturn
    BY <1>0, <1>4, <2>2, ReturnType
       DEF PwLookup, TypeInv, TypeOK, HandlersHold, LogLists
  <2>3. CASE /\ Exists(invCache) /\ Deleting
             /\ pw' = "update" /\ pwInv' = invCache /\ UNCHANGED <<pwPod, pwLogs>>
    BY <1>0, <1>4, <2>3 DEF PwLookup, TypeInv, TypeOK, HandlersHold, Deleting
  <2> QED
    BY <1>4, <2>1, <2>2, <2>3 DEF PwLookup
<1>5. CASE PwCreate
  <2>1. NewInvestigation \in Investigations /\ invs + 1 \in 1..MaxInvs
    BY <1>5, NewType DEF PwCreate, Stored
  <2>2. inv' = NewInvestigation /\ invs' = invs + 1
    BY <1>5 DEF PwCreate, Stored
  <2>3. NewInvestigation.phase = ""
    BY DEF NewInvestigation
  <2>4. invs' \in 0..MaxInvs
    BY <2>1, <2>2
  <2> QED
    BY <1>0, <1>5, <2>1, <2>2, <2>3, <2>4, <1>b
       DEF PwCreate, TypeInv, TypeOK, HandlersHold
<1>6. CASE PwCreateReplyLost
  <2>1. NewInvestigation \in Investigations /\ invs + 1 \in 1..MaxInvs
    BY <1>6, NewType DEF PwCreateReplyLost, Stored
  <2>2. inv' \in Investigations /\ invs' \in 0..MaxInvs
    BY <1>6, <2>1 DEF PwCreateReplyLost, Stored
  <2> QED
    BY <1>0, <1>6, <2>2, <1>b, ReturnType
       DEF PwCreateReplyLost, TypeInv, TypeOK, HandlersHold, LogLists
<1>7. CASE PwStatusUpdate
  <2>1. inv \in Investigations
    BY <1>0, <1>7, <1>b DEF PwStatusUpdate, TypeOK
  <2>2. inv' \in Investigations
    BY <1>7, <2>1, PhaseWrites DEF PwStatusUpdate
  <2> QED
    BY <1>0, <1>7, <2>2, <1>b, ReturnType
       DEF PwStatusUpdate, TypeInv, TypeOK, HandlersHold, LogLists
<1>8. CASE PwUpdate
  <2>1. inv \in Investigations /\ pwPod \in RunnerPods
    BY <1>0, <1>8, <1>b DEF PwUpdate, TypeOK
  <2>2. pwPod.status \in PodStatuses
    BY <2>1 DEF RunnerPods
  <2>3. inv' \in Investigations
    BY <1>8, <1>c, <2>1, <2>2, EvidenceWrites DEF PwUpdate
  <2> QED
    BY <1>0, <1>8, <2>3, <1>b, ReturnType
       DEF PwUpdate, TypeInv, TypeOK, HandlersHold, LogLists
<1>9. CASE PwError
  BY <1>0, <1>9, ReturnType
     DEF PwError, TypeInv, TypeOK, HandlersHold, LogLists
<1>10. CASE PwRemoveFinalizer
  <2>1. pod \in RunnerPods
    BY <1>0, <1>10, <1>b DEF PwRemoveFinalizer, TypeOK
  <2>2. pod' \in RunnerPods
    BY <1>10, <2>1, PodWrites DEF PwRemoveFinalizer
  <2> QED
    BY <1>0, <1>10, <2>2, <1>b, ReturnType
       DEF PwRemoveFinalizer, TypeInv, TypeOK, HandlersHold, LogLists
<1>11. CASE PwRequeue
  BY <1>0, <1>11, ReturnType
     DEF PwRequeue, TypeInv, TypeOK, HandlersHold, LogLists
<1>12. CASE CoStart
  BY <1>0, <1>12, <1>a DEF CoStart, CoReturn, TypeInv, TypeOK, HandlersHold, Deleting
<1>13. CASE CoUpdate
  <2>1. inv \in Investigations
    BY <1>0, <1>13, <1>b DEF CoUpdate, TypeOK
  <2>2. inv' \in Investigations
    BY <1>13, <2>1, CorrelatedType DEF CoUpdate
  <2> QED
    BY <1>0, <1>13, <2>2, <1>a, <1>b
       DEF CoUpdate, TypeInv, TypeOK, HandlersHold, Deleting
<1>14. CASE CoRefetch
  BY <1>0, <1>14 DEF CoRefetch, TypeInv, TypeOK, HandlersHold, Deleting
<1>15. CASE CoComplete
  <2>1. inv \in Investigations
    BY <1>0, <1>15, <1>b DEF CoComplete, TypeOK
  <2>2. inv' \in Investigations
    BY <1>15, <2>1, PhaseWrites DEF CoComplete
  <2> QED
    BY <1>0, <1>15, <2>2, <1>a, <1>b
       DEF CoComplete, CoReturn, TypeInv, TypeOK, HandlersHold, Deleting
<1>16. CASE CoRequeue
  BY <1>0, <1>16, <1>a DEF CoRequeue, CoReturn, TypeInv, TypeOK, HandlersHold, Deleting
<1>17. CASE PodCreated
  <2>0. pods \in 0..MaxPods /\ pods < MaxPods /\ pods' = pods + 1
    BY <1>0, <1>17 DEF PodCreated, TypeOK
  <2>1. pods' \in 1..MaxPods /\ pods' \in 0..MaxPods
    BY <2>0, ForensicsAssumption
  <2>2. pod' \in RunnerPods
    BY <1>17, <2>1, ForensicsAssumption DEF PodCreated, RunnerPods
  <2> QED
    BY <1>0, <1>17, <2>1, <2>2, <1>b, <1>d DEF PodCreated, TypeInv, TypeOK
<1>18. CASE PodProgress \/ PodDelete
  <2>1. pod \in RunnerPods
    BY <1>0, <1>18, <1>b DEF PodProgress, PodDelete, TypeOK
  <2>2. pod' \in RunnerPods
    BY <1>18, <2>1, PodWrites DEF PodProgress, PodDelete
  <2> QED
    BY <1>0, <1>18, <2>2, <1>b, <1>d DEF PodProgress, PodDelete, TypeInv, TypeOK
<1>19. CASE PodGone
  BY <1>0, <1>19, <1>a, <1>d DEF PodGone, TypeInv, TypeOK
<1>20. CASE InvDeleted
  BY <1>0, <1>20, <1>a DEF InvDeleted, TypeInv, TypeOK, HandlersHold, Deleting
<1>21. CASE PodEvent
  BY <1>0, <1>21, <1>d DEF PodEvent, TypeInv, TypeOK
<1>22. CASE InvEvent
  <2>1. invQueued' \in BOOLEAN
    BY <1>0, <1>22 DEF InvEvent, TypeOK, Collecting
  <2> QED
    BY <1>0, <1>22, <2>1, <1>d DEF InvEvent, TypeInv, TypeOK
<1>23. CASE Resync
  <2>1. invQueued' \in BOOLEAN /\ podQueued' \in BOOLEAN
    BY <1>0, <1>23 DEF Resync, TypeOK, Collecting, Exists
  <2> QED
    BY <1>0, <1>23, <2>1, <1>d DEF Resync, TypeInv, TypeOK
<1>24. CASE Restart
  <2>1. invQueued' \in BOOLEAN /\ podQueued' \in BOOLEAN
    BY <1>0, <1>24 DEF Restart, TypeOK, Collecting, Exists
  <2> QED
    BY <1>0, <1>24, <2>1, <1>a
       DEF Restart, PwReturn, CoReturn, TypeInv, TypeOK, HandlersHold, Deleting
<1>25. CASE UNCHANGED vars
  BY <1>0, <1>25, <1>d DEF vars, TypeInv, TypeOK
<1> QED
  BY <1>1, <1>2, <1>3, <1>4, <1>5, <1>6, <1>7, <1>8, <1>9, <1>10, <1>11, <1>12,
     <1>13, <1>14, <1>15, <1>16, <1>17, <1>18, <1>19, <1>20, <1>21, <1>22,
     <1>23, <1>24, <1>25 DEF Next, PodWatcher, Correlator, Cluster

(* The first state has the type.                                           *)
LEMMA TypeInit == Init => TypeInv
<1> SUFFICES ASSUME Init PROVE TypeInv
  OBVIOUS
<1>1. Gone \in PodObjects /\ Gone \in InvObjects
  BY DEF PodObjects, InvObjects
<1>2. pods \in 0..MaxPods /\ invs \in 0..MaxInvs /\ logs \in 0..MaxLogs /\ invs < MaxInvs
  BY ForensicsAssumption DEF Init
<1> QED
  BY <1>1, <1>2 DEF Init, TypeInv, TypeOK, HandlersHold

(* Type and handlers' copies are in order in every state.                  *)
LEMMA TypeHolds == Spec => []TypeInv
BY TypeInit, TypeStep, PTL DEF Spec

(* Every call of both controllers, every error path and every restart      *)
(* keeps the state in shape: no handler writes from a copy it does not     *)
(* have, and every Investigation has a trigger that the PodWatcher knows.  *)
THEOREM TypeCorrect == Spec => []TypeOK
<1>1. TypeInv => TypeOK
  BY DEF TypeInv
<1> QED
  BY <1>1, TypeHolds, PTL
-----------------------------------------------------------------------------
(***************************************************************************)
(* What the writes do to the report.                                       *)
(***************************************************************************)

(* Only seven calls write the Investigation.                               *)
LEMMA OnlyWrites ==
  ASSUME [Next]_vars
  PROVE  \/ inv' = inv
         \/ pw = "create" /\ Stored
         \/ PwStatusUpdate \/ PwUpdate \/ CoUpdate \/ CoComplete \/ InvDeleted
<1> USE DEF server, caches, podWatcher, correlator
<1>1. CASE PwStart \/ PwAddFinalizer \/ PwCollect \/ PwLookup \/ PwError
           \/ PwRemoveFinalizer \/ PwRequeue
  BY <1>1 DEF PwStart, PwAddFinalizer, PwCollect, PwLookup, PwError,
              PwRemoveFinalizer, PwRequeue
<1>2. CASE PwCreate \/ PwCreateReplyLost
  BY <1>2 DEF PwCreate, PwCreateReplyLost
<1>3. CASE CoStart \/ CoRefetch \/ CoRequeue
  BY <1>3 DEF CoStart, CoRefetch, CoRequeue
<1>4. CASE PodCreated \/ PodProgress \/ PodDelete \/ PodGone \/ PodEvent
           \/ InvEvent \/ Resync \/ Restart \/ UNCHANGED vars
  BY <1>4 DEF PodCreated, PodProgress, PodDelete, PodGone, PodEvent, InvEvent,
              Resync, Restart, vars
<1> QED
  BY <1>1, <1>2, <1>3, <1>4 DEF Next, PodWatcher, Correlator, Cluster

(* The calls write to an Investigation that exists, and keep its uid.      *)
LEMMA WritesExisting ==
  ASSUME TypeInv, PwStatusUpdate \/ PwUpdate \/ CoUpdate \/ CoComplete
  PROVE  inv \in Investigations /\ Exists(inv)
BY DEF TypeInv, TypeOK, InvObjects, Exists,
       PwStatusUpdate, PwUpdate, CoUpdate, CoComplete

(* Status().Update of the PodWatcher hands over what was not yet.          *)
LEMMA StatusUpdateEffect ==
  ASSUME TypeInv, PwStatusUpdate
  PROVE  /\ inv.phase = "" /\ inv'.phase = "Collecting"
         /\ inv'.diagnosis = inv.diagnosis /\ inv'.logPaths = inv.logPaths
         /\ inv' \in Investigations
<1>1. inv \in Investigations
  BY WritesExisting
<1>2. inv.phase = "" /\ inv' = [inv EXCEPT !.phase = "Collecting"]
  BY DEF PwStatusUpdate, TypeInv, HandlersHold
<1>3. inv' \in Investigations
  BY <1>1, <1>2, PhaseWrites
<1> QED
  BY <1>1, <1>2, <1>3 DEF Investigations

(* Status().Update of the Correlator closes.                               *)
LEMMA CompleteEffect ==
  ASSUME TypeInv, CoComplete
  PROVE  /\ inv'.phase = "Complete"
         /\ inv'.diagnosis = inv.diagnosis /\ inv'.logPaths = inv.logPaths
         /\ inv' \in Investigations
<1>1. inv \in Investigations
  BY WritesExisting
<1>2. inv' = [inv EXCEPT !.phase = "Complete"]
  BY DEF CoComplete
<1>3. inv' \in Investigations
  BY <1>1, <1>2, PhaseWrites
<1> QED
  BY <1>1, <1>2, <1>3 DEF Investigations

(* The update on deletion lists one more log.                              *)
LEMMA UpdateEffect ==
  ASSUME TypeInv, PwUpdate
  PROVE  /\ inv'.phase = inv.phase /\ inv'.diagnosis = inv.diagnosis
         /\ \E l \in 1..MaxLogs : inv'.logPaths = Append(inv.logPaths, l)
         /\ inv' \in Investigations
<1>1. inv \in Investigations /\ pw = "update"
  BY WritesExisting DEF PwUpdate
<1>2. pwLogs \in LogLists /\ pwLogs # <<>>
  BY <1>1 DEF TypeInv, TypeOK, HandlersHold, Deleting, LogLists
<1>3. PICK l \in 1..MaxLogs : pwLogs = <<l>>
  BY <1>2 DEF LogLists
<1> DEFINE s == inv.logPaths
           paths == s \o pwLogs
           info == buildPodInfo(pwPod.status)
<1>4. inv' = [inv EXCEPT !.logPaths = paths, !.pod = info, !.events = FALSE]
  BY DEF PwUpdate
<1>5. s \in Seq(1..MaxLogs)
  BY <1>1 DEF Investigations
<1>6. paths = Append(s, l)
  BY <1>3, <1>5
<1>7. pwPod.status \in PodStatuses
  BY <1>1 DEF TypeInv, TypeOK, PodObjects, RunnerPods, Exists
<1>8. inv' \in Investigations
  BY <1>1, <1>2, <1>7, EvidenceWrites DEF PwUpdate
<1> HIDE DEF paths, info, s
<1>9. inv'.phase = inv.phase /\ inv'.diagnosis = inv.diagnosis /\ inv'.logPaths = paths
  BY <1>1, <1>4 DEF Investigations
<1> QED
  BY <1>6, <1>8, <1>9 DEF s

(* The update of the Correlator diagnoses what is being collected.         *)
LEMMA CorrelateEffect ==
  ASSUME TypeInv, CoUpdate
  PROVE  /\ inv.phase = "Collecting" /\ inv'.phase = "Collecting"
         /\ inv'.logPaths = inv.logPaths
         /\ inv'.diagnosis = Diagnosed(inv) /\ Diagnosed(inv) \in Diagnoses
         /\ inv.diagnosis # "" => Diagnosed(inv) = inv.diagnosis
         /\ inv'.trigger = inv.trigger /\ inv'.pod = inv.pod
         /\ inv' \in Investigations
<1>1. inv \in Investigations
  BY WritesExisting
<1>2. PICK b \in BOOLEAN : inv' = Correlated(inv, b)
  BY DEF CoUpdate
<1>3. inv' \in Investigations
  BY <1>1, <1>2, CorrelatedType
<1>4. inv.phase = "Collecting"
  BY DEF CoUpdate, TypeInv, HandlersHold
<1> DEFINE d == Diagnosed(inv)  e == inv.events \/ b
<1>5. inv' = [inv EXCEPT !.events = e, !.diagnosis = d]
  BY <1>2 DEF Correlated
<1>6. d \in Diagnoses /\ (inv.diagnosis # "" => d = inv.diagnosis)
  <2>1. inv.diagnosis \in Diagnoses \cup {""}
    BY <1>1 DEF Investigations
  <2> QED
    BY <2>1, ClassifyType DEF Diagnosed, Diagnoses
<1> HIDE DEF d, e
<1>7. /\ inv'.phase = inv.phase /\ inv'.logPaths = inv.logPaths
      /\ inv'.diagnosis = d /\ inv'.trigger = inv.trigger /\ inv'.pod = inv.pod
  BY <1>1, <1>5 DEF Investigations
<1> QED
  BY <1>3, <1>4, <1>6, <1>7 DEF d

(* No diagnosis is a diagnosis.                                            *)
LEMMA DiagnosesNamed == "" \notin Diagnoses
<1>1. DOMAIN FailureTypes = 1..7
  BY DEF FailureTypes
<1>2. ASSUME NEW i \in 1..7 PROVE FailureTypes[i] # ""
  <2>1. FailureTypes[i] \in {"pod-oomkilled", "pod-crashed",
          "pod-stuck-terminating", "pod-init-timeout", "runner-stuck-running",
          "runner-stuck-failed", "job-stuck-queued"}
    BY DEF FailureTypes
  <2> QED
    BY <2>1
<1> QED
  BY <1>1, <1>2 DEF Diagnoses

(* Appending keeps what is listed.                                         *)
LEMMA AppendKeeps ==
  ASSUME NEW S, NEW s \in Seq(S), NEW l \in S
  PROVE  \A i \in DOMAIN s :
           i \in DOMAIN Append(s, l) /\ Append(s, l)[i] = s[i]
OBVIOUS

(* No write of a handler takes back a diagnosis, a log or the end of an    *)
(* Investigation, also when it worked on a copy of an earlier one of the   *)
(* name (ensureInvestigation, createAnomalyInvestigation, Correlator).     *)
THEOREM ReportOnlyGrows == Spec => NothingTakenBack
<1> DEFINE Kept ==
      Exists(inv) /\ Exists(inv') /\ inv.uid = inv'.uid =>
        /\ inv.diagnosis # "" => inv'.diagnosis = inv.diagnosis
        /\ inv.phase = "Complete" => inv'.phase = "Complete"
        /\ \A i \in DOMAIN inv.logPaths :
             i \in DOMAIN inv'.logPaths /\ inv'.logPaths[i] = inv.logPaths[i]
<1>1. TypeInv /\ [Next]_vars => [Kept]_vars
  <2> SUFFICES ASSUME TypeInv, [Next]_vars PROVE Kept
    OBVIOUS
  <2>1. CASE inv' = inv
    BY <2>1
  <2>2. CASE Stored \/ InvDeleted
    BY <2>2 DEF Stored, InvDeleted, Exists
  <2>3. CASE PwStatusUpdate
    BY <2>3, StatusUpdateEffect
  <2>4. CASE PwUpdate
    <3>1. inv.logPaths \in Seq(1..MaxLogs)
      BY <2>4, WritesExisting DEF Investigations
    <3>2. PICK l \in 1..MaxLogs : inv'.logPaths = Append(inv.logPaths, l)
      BY <2>4, UpdateEffect
    <3>3. \A i \in DOMAIN inv.logPaths :
            i \in DOMAIN inv'.logPaths /\ inv'.logPaths[i] = inv.logPaths[i]
      BY <3>1, <3>2, AppendKeeps
    <3>4. inv'.phase = inv.phase /\ inv'.diagnosis = inv.diagnosis
      BY <2>4, UpdateEffect
    <3> QED
      BY <3>3, <3>4
  <2>5. CASE CoUpdate
    BY <2>5, CorrelateEffect
  <2>6. CASE CoComplete
    BY <2>6, CompleteEffect
  <2> QED
    BY <2>1, <2>2, <2>3, <2>4, <2>5, <2>6, OnlyWrites
<1> QED
  BY <1>1, TypeHolds, PTL DEF Spec, NothingTakenBack
-----------------------------------------------------------------------------
(***************************************************************************)
(* Without deletions, the refinement of InvestigationReport.  The          *)
(* Correlator's second Get may find a copy from before its Update; what    *)
(* makes the closing safe is that the object itself has been diagnosed     *)
(* from then on, and that a write from the old copy conflicts.             *)
(***************************************************************************)
Diagnosing ==
  co \in {"refetch", "complete"} =>
    Exists(inv) /\ inv.diagnosis # "" /\ inv.phase # ""

(* The Correlator's step into "refetch" is its Update; no other enters.    *)
LEMMA EntersByUpdate ==
  ASSUME [Next]_vars, co' \in {"refetch", "complete"}
  PROVE  co \in {"refetch", "complete"} \/ CoUpdate
<1> USE DEF server, caches, podWatcher, correlator
<1>1. CASE PodWatcher
  BY <1>1 DEF PodWatcher, PwStart, PwAddFinalizer, PwCollect, PwLookup,
              PwCreate, PwCreateReplyLost, PwStatusUpdate, PwUpdate, PwError,
              PwRemoveFinalizer, PwRequeue
<1>2. CASE Correlator
  BY <1>2 DEF Correlator, CoStart, CoReturn, CoRefetch, CoComplete, CoRequeue
<1>3. CASE Cluster
  BY <1>3 DEF Cluster, PodCreated, PodProgress, PodDelete, PodGone, InvDeleted,
              PodEvent, InvEvent, Resync, Restart, CoReturn
<1>4. CASE UNCHANGED vars
  BY <1>4 DEF vars
<1> QED
  BY <1>1, <1>2, <1>3, <1>4 DEF Next

(* Between its two writes the Correlator has an Investigation with a       *)
(* diagnosis: without deletions nobody takes it away.                      *)
LEMMA DiagnosingStep ==
  ASSUME ~Deletes, TypeInv, Diagnosing, [Next]_vars
  PROVE  Diagnosing'
<1> SUFFICES ASSUME co' \in {"refetch", "complete"}
             PROVE  Exists(inv') /\ inv'.diagnosis # "" /\ inv'.phase # ""
  BY DEF Diagnosing
<1>0. \A i \in Investigations : Exists(i)
  BY GoneApart DEF Exists
<1>1. CASE CoUpdate
  BY <1>0, <1>1, CorrelateEffect, DiagnosesNamed
<1>2. CASE Exists(inv) /\ inv.diagnosis # "" /\ inv.phase # ""
  <2>1. CASE inv' = inv
    BY <1>2, <2>1
  <2>2. ~Stored /\ ~InvDeleted
    BY <1>2 DEF Stored, InvDeleted
  <2>3. CASE PwStatusUpdate
    BY <1>2, <2>3, StatusUpdateEffect
  <2>4. CASE PwUpdate
    BY <1>0, <1>2, <2>4, UpdateEffect
  <2>5. CASE CoComplete
    BY <1>0, <1>2, <2>5, CompleteEffect
  <2> QED
    BY <1>1, <2>1, <2>2, <2>3, <2>4, <2>5, OnlyWrites
<1> QED
  BY <1>1, <1>2, EntersByUpdate DEF Diagnosing

(* Every step is a step of the report, or one its reader does not see.     *)
LEMMA ReportStep ==
  ASSUME ~Deletes, TypeInv, Diagnosing, [Next]_vars
  PROVE  [Report!Next]_Report!vars
<1>0. \A i \in Investigations : Exists(i)
  BY GoneApart DEF Exists
<1>1. CASE inv' = inv
  BY <1>1 DEF Report!vars
<1>2. CASE pw = "create" /\ Stored
  <2>1. ~Exists(inv) /\ inv' = NewInvestigation
    BY <1>2 DEF Stored
  <2>2. NewInvestigation \in Investigations
    BY <1>2, <2>1, NewType
  <2>3. Exists(inv')
    BY <1>0, <2>1, <2>2
  <2>4. inv'.phase = "" /\ inv'.diagnosis = "" /\ inv'.logPaths = pwLogs
    BY <2>1 DEF NewInvestigation
  <2>5. pwLogs \in {<<>>} \cup {<<l>> : l \in 1..MaxLogs}
    BY DEF TypeInv, TypeOK
  <2>6. Report!Open
    BY <2>1, <2>3, <2>4, <2>5 DEF Report!Open
  <2> QED
    BY <2>6 DEF Report!Next
<1>3. CASE PwStatusUpdate
  <2>1. Exists(inv) /\ Exists(inv')
    BY <1>0, <1>3, WritesExisting, StatusUpdateEffect
  <2>2. Report!HandOver
    BY <1>3, <2>1, StatusUpdateEffect DEF Report!HandOver
  <2> QED
    BY <2>2 DEF Report!Next
<1>4. CASE PwUpdate
  <2>1. Exists(inv) /\ Exists(inv')
    BY <1>0, <1>4, WritesExisting, UpdateEffect
  <2>2. inv.phase # "absent"
    BY <1>4, WritesExisting DEF Investigations
  <2>3. Report!ListLog
    BY <1>4, <2>1, <2>2, UpdateEffect DEF Report!ListLog
  <2> QED
    BY <2>3 DEF Report!Next
<1>5. CASE CoUpdate
  <2>1. Exists(inv) /\ Exists(inv')
    BY <1>0, <1>5, WritesExisting, CorrelateEffect
  <2>2. CASE inv.diagnosis = ""
    <3>1. Report!Diagnose
      BY <1>5, <2>1, <2>2, CorrelateEffect DEF Report!Diagnose
    <3> QED
      BY <3>1 DEF Report!Next
  <2>3. CASE inv.diagnosis # ""
    BY <1>5, <2>1, <2>3, CorrelateEffect DEF Report!vars
  <2> QED
    BY <2>2, <2>3
<1>6. CASE CoComplete
  <2>1. Exists(inv) /\ Exists(inv')
    BY <1>0, <1>6, WritesExisting, CompleteEffect
  <2>2. inv.phase \in {"Collecting", "Complete"} /\ inv.diagnosis # ""
    BY <1>6, WritesExisting DEF CoComplete, Diagnosing, Investigations
  <2>3. CASE inv.phase = "Collecting"
    <3>1. Report!Close
      BY <1>6, <2>1, <2>2, <2>3, CompleteEffect DEF Report!Close
    <3> QED
      BY <3>1 DEF Report!Next
  <2>4. CASE inv.phase = "Complete"
    BY <1>6, <2>1, <2>4, CompleteEffect DEF Report!vars
  <2> QED
    BY <2>2, <2>3, <2>4
<1>7. ~InvDeleted
  BY DEF InvDeleted
<1> QED
  BY <1>1, <1>2, <1>3, <1>4, <1>5, <1>6, <1>7, OnlyWrites

(* The two controllers, which write from stale copies and do not know of   *)
(* each other, implement one report that is opened, handed over, diagnosed *)
(* once and closed with its diagnosis, for as long as nobody deletes it.   *)
THEOREM ImplementsReport == ~Deletes /\ Spec => ReportSpec
<1> SUFFICES ASSUME ~Deletes PROVE Spec => ReportSpec
  OBVIOUS
<1>1. Init => Diagnosing
  BY DEF Init, Diagnosing
<1>2. TypeInv /\ Diagnosing /\ [Next]_vars => Diagnosing'
  BY DiagnosingStep
<1>3. Init => Report!Init
  BY DEF Init, Exists, Report!Init
<1>4. TypeInv /\ Diagnosing /\ [Next]_vars => [Report!Next]_Report!vars
  BY ReportStep
<1> QED
  BY <1>1, <1>2, <1>3, <1>4, TypeHolds, PTL DEF Spec, ReportSpec, Report!Spec
-----------------------------------------------------------------------------
(***************************************************************************)
(* The diagnosis belongs to the evidence beside it.                        *)
(***************************************************************************)

(* So far there has been one pod, or none, and nobody deleted it.          *)
Undisturbed == pods <= 1 /\ (pods = 1 => Exists(pod) /\ ~pod.deleting)

Alive(p) == Exists(p) => ~p.deleting

Matches(i) ==
  Exists(i) /\ i.diagnosis # "" => i.diagnosis = Classify(Evidence(i))

(* As long as that is so, no copy of the pod shows a deletion, the         *)
(* PodWatcher is in none of the calls that follow one, and nothing has     *)
(* replaced the evidence.                                                  *)
EvidenceInv ==
  /\ pods = 0 => ~Exists(pod)
  /\ Undisturbed =>
       /\ Alive(podCache) /\ Alive(pwPod) /\ pwLogs = <<>>
       /\ pw \notin {"collect", "update", "removeFinalizer"}
       /\ Matches(inv)

(* A pod that was deleted is never as good as new.                         *)
LEMMA StaysDisturbed ==
  ASSUME TypeInv, EvidenceInv, [Next]_vars
  PROVE  /\ Undisturbed' => Undisturbed
         /\ pods' = 0 => ~Exists(pod')
<1> USE DEF server, caches, podWatcher, correlator
<1>0. pods \in Nat /\ (Exists(pod) => pod \in RunnerPods /\ pods # 0)
  BY ForensicsAssumption
     DEF TypeInv, TypeOK, EvidenceInv, PodObjects, Exists
<1>1. CASE UNCHANGED <<pod, pods>>
  BY <1>1 DEF EvidenceInv, Undisturbed
<1>2. CASE PwAddFinalizer \/ PwRemoveFinalizer \/ PodProgress
  <2>1. Exists(pod) /\ pods' = pods
    BY <1>2 DEF PwAddFinalizer, PwRemoveFinalizer, PodProgress, TypeInv, TypeOK
  <2>2. pod'.deleting = pod.deleting
    BY <1>0, <1>2, <2>1
       DEF PwAddFinalizer, PwRemoveFinalizer, PodProgress, RunnerPods
  <2> QED
    BY <1>0, <2>1, <2>2 DEF Undisturbed
<1>3. CASE PodCreated
  <2>1. pods' = pods + 1 /\ ~Exists(pod)
    BY <1>3 DEF PodCreated
  <2> QED
    BY <1>0, <2>1 DEF Undisturbed
<1>4. CASE PodDelete
  <2>1. Exists(pod) /\ pods' = pods /\ pod' = [pod EXCEPT !.deleting = TRUE]
    BY <1>4 DEF PodDelete
  <2>2. pod'.deleting
    BY <1>0, <2>1 DEF RunnerPods
  <2> QED
    BY <1>0, <2>1, <2>2 DEF Undisturbed
<1>5. CASE PodGone
  <2>1. Exists(pod) /\ pods' = pods /\ ~Exists(pod')
    BY <1>5 DEF PodGone, Exists
  <2> QED
    BY <1>0, <2>1 DEF Undisturbed
<1>6. CASE PwStart \/ PwCollect \/ PwLookup \/ PwCreate \/ PwCreateReplyLost
           \/ PwStatusUpdate \/ PwUpdate \/ PwError \/ PwRequeue
  BY <1>1, <1>6 DEF PwStart, PwCollect, PwLookup, PwCreate, PwCreateReplyLost,
                    PwStatusUpdate, PwUpdate, PwError, PwRequeue
<1>7. CASE Correlator
  BY <1>1, <1>7 DEF Correlator, CoStart, CoUpdate, CoRefetch, CoComplete, CoRequeue
<1>8. CASE InvDeleted \/ PodEvent \/ InvEvent \/ Resync \/ Restart \/ UNCHANGED vars
  BY <1>1, <1>8 DEF InvDeleted, PodEvent, InvEvent, Resync, Restart, vars
<1> QED
  BY <1>2, <1>3, <1>4, <1>5, <1>6, <1>7, <1>8 DEF Next, PodWatcher, Cluster

(* In its calls, the PodWatcher holds a pod that nobody deleted.           *)
LEMMA WatcherUndisturbed ==
  ASSUME TypeInv, EvidenceInv, [Next]_vars, Undisturbed, Undisturbed'
  PROVE  /\ Alive(podCache)' /\ Alive(pwPod)' /\ pwLogs' = <<>>
         /\ pw' \notin {"collect", "update", "removeFinalizer"}
<1> USE DEF server, caches, podWatcher, correlator
<1>0. /\ Alive(podCache) /\ Alive(pwPod) /\ pwLogs = <<>> /\ ~Deleting
      /\ pw \notin {"collect", "update", "removeFinalizer"}
      /\ Alive(Gone)
  BY DEF EvidenceInv, Deleting, Alive, Exists
<1>1. Alive(pod) /\ Alive(pod')
  <2>1. pods \in Nat /\ pods' \in Nat
    BY TypeStep, ForensicsAssumption DEF TypeInv, TypeOK
  <2>2. pods' = 0 => ~Exists(pod')
    BY StaysDisturbed
  <2> QED
    BY <2>1, <2>2 DEF Undisturbed, EvidenceInv, Alive
<1>2. ASSUME NEW p, Exists(p), Alive(p), Examine(p)
      PROVE  /\ pw' \in {"idle", "lookup"} /\ Alive(pwPod') /\ pwLogs' = <<>>
  BY <1>0, <1>2 DEF Examine, PwReturn, Alive
<1>3. CASE PwStart
  <2>1. /\ pw' \in {"idle", "lookup", "addFinalizer"} /\ Alive(pwPod') /\ pwLogs' = <<>>
    BY <1>0, <1>2, <1>3 DEF PwStart, PwReturn
  <2> QED
    BY <1>0, <1>3, <2>1 DEF PwStart, Alive
<1>4. CASE PwAddFinalizer
  <2>1. pod' \in RunnerPods
    BY <1>4, PodWrites DEF PwAddFinalizer, TypeInv, TypeOK, PodObjects, Exists
  <2>2. Exists(pod')
    BY <2>1, GoneApart DEF Exists
  <2>3. pw' \in {"idle", "lookup"} /\ Alive(pwPod') /\ pwLogs' = <<>>
    BY <1>1, <1>2, <1>4, <2>2 DEF PwAddFinalizer
  <2> QED
    BY <1>0, <1>4, <2>3 DEF PwAddFinalizer, Alive
<1>5. CASE PwLookup \/ PwCreate \/ PwCreateReplyLost \/ PwStatusUpdate
           \/ PwError \/ PwRequeue
  BY <1>0, <1>5 DEF PwLookup, PwCreate, PwCreateReplyLost, PwStatusUpdate,
                    PwError, PwRequeue, PwInvestigated, PwReturn, Alive
<1>6. ~PwCollect /\ ~PwUpdate /\ ~PwRemoveFinalizer
  BY <1>0 DEF PwCollect, PwUpdate, PwRemoveFinalizer
<1>7. CASE Correlator
  BY <1>0, <1>7 DEF Correlator, CoStart, CoUpdate, CoRefetch, CoComplete,
                    CoRequeue, Alive
<1>8. CASE PodCreated \/ PodProgress \/ PodDelete \/ PodGone \/ InvDeleted
           \/ InvEvent \/ Resync \/ UNCHANGED vars
  BY <1>0, <1>8 DEF PodCreated, PodProgress, PodDelete, PodGone, InvDeleted,
                    InvEvent, Resync, vars, Alive
<1>9. CASE PodEvent \/ Restart
  BY <1>0, <1>1, <1>9 DEF PodEvent, Restart, PwReturn, Alive
<1> QED
  BY <1>3, <1>4, <1>5, <1>6, <1>7, <1>8, <1>9 DEF Next, PodWatcher, Cluster

(* While the pod is undisturbed no handler comes near its deletion, and    *)
(* the evidence stays what the diagnosis was made from.                    *)
LEMMA EvidenceStep ==
  ASSUME TypeInv, EvidenceInv, [Next]_vars
  PROVE  EvidenceInv'
<1>1. ASSUME Undisturbed' PROVE Matches(inv)'
  <2>0. Undisturbed
    BY <1>1, StaysDisturbed
  <2>1. Matches(inv) /\ ~PwUpdate
    BY <2>0 DEF EvidenceInv, PwUpdate
  <2>2. CASE inv' = inv
    BY <2>1, <2>2 DEF Matches
  <2>3. CASE Stored
    BY <2>3 DEF Stored, NewInvestigation, Matches
  <2>4. CASE InvDeleted
    BY <2>4 DEF InvDeleted, Matches, Exists
  <2>5. CASE PwStatusUpdate \/ CoComplete
    <3>1. inv \in Investigations /\ Exists(inv)
      BY <2>5, WritesExisting
    <3>2. inv'.diagnosis = inv.diagnosis /\ inv'.trigger = inv.trigger /\ inv'.pod = inv.pod
      BY <2>5, <3>1 DEF PwStatusUpdate, CoComplete, Investigations
    <3> QED
      BY <2>1, <3>1, <3>2 DEF Matches, Evidence
  <2>6. CASE CoUpdate
    <3>1. inv \in Investigations /\ Exists(inv)
      BY <2>6, WritesExisting
    <3>2. /\ inv'.diagnosis = Diagnosed(inv)
          /\ inv'.trigger = inv.trigger /\ inv'.pod = inv.pod
      BY <2>6, CorrelateEffect
    <3>3. Evidence(inv)' = Evidence(inv)
      BY <3>2 DEF Evidence
    <3>4. Diagnosed(inv) = Classify(Evidence(inv))
      BY <2>1, <3>1 DEF Diagnosed, Matches
    <3> QED
      BY <3>2, <3>3, <3>4 DEF Matches
  <2> QED
    BY <2>1, <2>2, <2>3, <2>4, <2>5, <2>6, OnlyWrites
<1> QED
  BY <1>1, StaysDisturbed, WatcherUndisturbed DEF EvidenceInv

(* Until the pod is deleted, the diagnosis is the classification of the    *)
(* evidence that is shown beside it, through further anomalies, conflicts, *)
(* retries and crashes (createAnomalyInvestigation, Correlator.Reconcile). *)
THEOREM DiagnosisOfEvidence == Spec => []DiagnosisMatchesEvidence
<1>1. Init => EvidenceInv
  BY DEF Init, EvidenceInv, Alive, Matches, Exists
<1>2. EvidenceInv => DiagnosisMatchesEvidence
  <2>1. Exists(pod) /\ pods = 1 /\ ~pod.deleting => Undisturbed
    BY DEF Undisturbed
  <2> QED
    BY <2>1 DEF EvidenceInv, Matches, DiagnosisMatchesEvidence
<1> QED
  BY <1>1, <1>2, EvidenceStep, TypeHolds, PTL DEF Spec
=============================================================================
