-------------------------- MODULE CorrelationProofs --------------------------
(***************************************************************************)
(* Theorems about Diagnosis and Correlation for pods with any number of    *)
(* containers, any set of pod statuses and EphemeralRunner phases.         *)
(***************************************************************************)
EXTENDS Correlation, DiagnosisProofs, TLAPS

(***************************************************************************)
(* Classify.                                                               *)
(***************************************************************************)

(* A failed pod is diagnosed as such, whatever else the evidence holds.    *)
LEMMA PodFailedNamed ==
  ASSUME NEW e, PodFailed(e), e.pod.phase # "Terminating"
  PROVE  Classify(e) \in PodFailures
<1>1. \E j \in Matching(e) : j \in {1, 2, 4}
  BY DEF PodFailed, Matching, FailureTypes
<1>2. 3 \notin Matching(e)
  BY DEF Matching, PodStuckTerminating
<1>3. PICK i \in Matching(e) : /\ Classify(e) = FailureTypes[i]
                               /\ \A j \in Matching(e) : i <= j
  BY <1>1, FirstMatch
<1>4. i \in 1..7
  BY DEF Matching, FailureTypes
<1>5. i \in {1, 2, 4}
  BY <1>1, <1>2, <1>3, <1>4
<1> QED
  BY <1>3, <1>5 DEF FailureTypes, PodFailures

(* An anomaly that the PodWatcher acts on is among the patterns of         *)
(* internal/diagnosis, for a pod with any number of containers.            *)
LEMMA AnomalyIsFailure ==
  ASSUME NEW p \in PodStatuses, detectAnomaly(p) # "",
         NEW e, e.pod = buildPodInfo(p)
  PROVE  PodFailed(e)
<1>1. PICK i \in DOMAIN p.containers : Anomaly(p.containers[i]) # ""
  BY DEF detectAnomaly, Anomalous
<1> DEFINE cs == p.containers[i]
           info == e.pod.containers[i]
<1>2. e.pod.phase = p.phase /\ e.pod.containers = ContainerInfos(p.containers)
  BY SnapshotFields
<1>b. i \in DOMAIN e.pod.containers /\ info = ContainerInfo(cs)
  BY <1>2 DEF ContainerInfos
<1> HIDE DEF cs, info
<1>c. /\ info.state = cs.state
      /\ cs.state # "running" => info.reason = cs.reason
      /\ cs.state = "terminated" => info.exitCode = cs.exitCode
      /\ info.oomKilled = OOMKilled(cs)
  BY <1>b DEF ContainerInfo, OOMKilled
<1>3. OOMKilled(cs) \/ Exited(cs) \/ PullFailed(cs)
  BY <1>1 DEF Anomaly, cs
<1>4. CASE OOMKilled(cs)
  <2>1. info.oomKilled
    BY <1>4, <1>c
  <2> QED
    BY <1>b, <2>1 DEF PodFailed, PodOOMKilled, SomeContainer, info
<1>5. CASE Exited(cs) /\ ~OOMKilled(cs)
  <2>1. info.state = "terminated" /\ info.exitCode # 0 /\ ~info.oomKilled
    BY <1>5, <1>c DEF Exited
  <2> QED
    BY <1>b, <2>1 DEF PodFailed, PodCrashed, SomeContainer, info
<1>6. CASE PullFailed(cs)
  <2>1. p.phase \in {"Pending", "Failed"}
    BY <1>1, <1>6, WorldAssumption DEF SomeContainer, cs
  <2>2. info.state = "waiting" /\ info.reason \in PullErrors
    BY <1>6, <1>c DEF PullFailed
  <2> QED
    BY <1>2, <1>b, <2>1, <2>2 DEF PodFailed, PodInitTimeout, SomeContainer, info
<1> QED
  BY <1>3, <1>4, <1>5, <1>6
------------------------------------------------------------------------------
(***************************************************************************)
(* Type correctness.                                                       *)
(***************************************************************************)

(* An Investigation that is not there yet, or a copy that was dropped.     *)
LEMMA EmptyType == Empty \in Evidence
BY DEF Evidence, Empty, ERs, AllJobs

(* What a watcher records is evidence.                                     *)
LEMMA RecordedType ==
  ASSUME TypeOK, NEW e, Record(e), e \in Evidence,
         UNCHANGED <<pod, er, job>>,
         deletion' \in {"none", "finalizing", "finalized"}
  PROVE  TypeOK'
BY DEF TypeOK, Record

(* Enrichment from the cluster keeps the evidence in shape.                *)
LEMMA EnrichedType ==
  ASSUME TypeOK, NEW s \in FindRunner(stored), NEW t \in FindPod(s)
  PROVE  t \in Evidence
<1>1. s \in Evidence
  BY DEF TypeOK, FindRunner, Evidence
<1>2. pod # NoPod =>
        buildPodInfo(pod) \in {buildPodInfo(p) : p \in PodStatuses} \cup {NoPod}
  BY DEF TypeOK, Pods
<1> QED
  BY <1>1, <1>2 DEF FindPod, Evidence

(* The state of the correlation of any runner keeps its shape.             *)
THEOREM TypeCorrect == Spec => []TypeOK
<1>1. Init => TypeOK
  BY EmptyType DEF Init, TypeOK
<1>2. TypeOK /\ [Next]_vars => TypeOK'
  <2> SUFFICES ASSUME TypeOK, [Next]_vars PROVE TypeOK'
    OBVIOUS
  <2> USE DEF world, investigation
  <2>1. CASE PodMoves
    BY <2>1 DEF PodMoves, TypeOK
  <2>2. CASE PodDeleted \/ RunnerMoves \/ JobMoves
    BY <2>2 DEF PodDeleted, RunnerMoves, JobMoves, TypeOK
  <2>3. CASE PodAnomaly
    <3>1. [Empty EXCEPT !.trigger = detectAnomaly(pod),
                        !.pod = buildPodInfo(pod)] \in Evidence
      <4>1. detectAnomaly(pod) \in PodTriggers
        BY <2>3, AnomalyType DEF PodAnomaly
      <4>2. pod \in PodStatuses
        BY <2>3 DEF PodAnomaly, TypeOK, Pods
      <4> QED
        BY <4>1, <4>2 DEF Evidence, Empty, ERs, AllJobs, PodTriggers
    <3> QED
      BY <2>3, <3>1, RecordedType DEF PodAnomaly, TypeOK
  <2>4. CASE PodDeletion
    <3>1. [Empty EXCEPT !.trigger = "pod-deletion",
                        !.pod = buildPodInfo(pod)] \in Evidence
      <4>1. pod \in PodStatuses
        BY <2>4 DEF PodDeletion, TypeOK, Pods
      <4> QED
        BY <4>1 DEF Evidence, Empty, ERs, AllJobs
    <3>2. [stored EXCEPT !.pod = buildPodInfo(pod)] \in Evidence
      BY <2>4 DEF PodDeletion, TypeOK, Pods, Evidence
    <3>3. /\ UNCHANGED <<pod, er, job>>
          /\ deletion' \in {"none", "finalizing", "finalized"}
      BY <2>4 DEF PodDeletion
    <3>4. CASE Record([Empty EXCEPT !.trigger = "pod-deletion",
                                    !.pod = buildPodInfo(pod)])
      BY <3>1, <3>3, <3>4, RecordedType
    <3>5. CASE ReplacePod
      BY <3>2, <3>3, <3>5 DEF ReplacePod, TypeOK
    <3>6. CASE UNCHANGED investigation
      BY <3>3, <3>6 DEF TypeOK
    <3> QED
      BY <2>4, <3>4, <3>5, <3>6 DEF PodDeletion, ensureInvestigation
  <2>5. CASE RunnerStuck
    <3>1. [Empty EXCEPT !.trigger = "runner-stuck", !.er = er] \in Evidence
      BY DEF TypeOK, Evidence, Empty, AllJobs
    <3> QED
      BY <2>5, <3>1, RecordedType DEF RunnerStuck, TypeOK
  <2>6. CASE JobQueued
    <3>1. [Empty EXCEPT !.trigger = "job-stuck-queued", !.job = job] \in Evidence
      BY DEF TypeOK, Evidence, Empty, ERs
    <3> QED
      BY <2>6, <3>1, RecordedType DEF JobQueued, TypeOK
  <2>7. CASE EnrichFromK8s
    <3>1. spec' \in Evidence
      <4>1. CASE spec' = stored
        BY <4>1 DEF TypeOK
      <4>2. CASE \E s \in FindRunner(stored) : spec' \in FindPod(s)
        BY <4>2, EnrichedType
      <4> QED
        BY <2>7, <4>1, <4>2 DEF EnrichFromK8s
    <3> QED
      BY <2>7, <3>1 DEF EnrichFromK8s, TypeOK
  <2>8. CASE EnrichFromGitHub
    <3>1. spec' \in Evidence
      BY <2>8 DEF EnrichFromGitHub, FindJob, TypeOK, Evidence
    <3> QED
      BY <2>8, <3>1 DEF EnrichFromGitHub, TypeOK
  <2>9. CASE Diagnose
    <3>1. diagnosis' \in {FailureTypes[i] : i \in DOMAIN FailureTypes}
                           \cup {"", "unknown"}
      BY <2>9, ClassifyType DEF Diagnose, TypeOK
    <3> QED
      BY <2>9, <3>1, EmptyType DEF Diagnose, TypeOK
  <2>10. CASE Complete \/ Conflict
    BY <2>10, EmptyType DEF Complete, Conflict, TypeOK
  <2>11. CASE UNCHANGED vars
    BY <2>11 DEF vars, TypeOK
  <2> QED
    BY <2>1, <2>2, <2>3, <2>4, <2>5, <2>6, <2>7, <2>8, <2>9, <2>10, <2>11
       DEF Next, Detect, Correlate
<1> QED
  BY <1>1, <1>2, PTL DEF Spec
------------------------------------------------------------------------------
(***************************************************************************)
(* The evidence bears its trigger out.  This is the inductive invariant:   *)
(* it says for every trigger which pattern the evidence keeps matching,    *)
(* and that a copy the API server would accept is about what is stored.    *)
(***************************************************************************)

(* A pattern about the pod depends on the pod's snapshot alone.            *)
LEMMA PodFailedDepends ==
  ASSUME NEW e, NEW f, e.pod = f.pod
  PROVE  PodFailed(e) = PodFailed(f)
BY DEF PodFailed, PodOOMKilled, PodCrashed, PodInitTimeout

(* A snapshot has a phase, so it is not mistaken for none.                 *)
LEMMA SnapshotIsPod ==
  ASSUME TypeOK, pod # NoPod
  PROVE  buildPodInfo(pod) # NoPod
<1>1. pod \in PodStatuses
  BY DEF TypeOK, Pods
<1>2. pod.phase # ""
  BY <1>1, WorldAssumption DEF PodStatus
<1>3. buildPodInfo(pod).phase = pod.phase
  BY DEF buildPodInfo
<1>4. NoPod.phase = ""
  BY DEF NoPod
<1> QED
  BY <1>2, <1>3, <1>4

(* Neither lookup of enrichFromK8s disturbs what is there.                 *)
LEMMA EnrichmentBearsOut ==
  ASSUME TypeOK, BearsOut(stored),
         NEW s \in FindRunner(stored), NEW t \in FindPod(s)
  PROVE  /\ BearsOut(t) /\ t.trigger = stored.trigger /\ t.job = stored.job
         /\ stored.pod # NoPod => t.pod = stored.pod
<1>1. ~stored.job.runner \/ stored.er # NoER
  <2>1. CASE stored.trigger = "runner-stuck"
    BY <2>1 DEF BearsOut
  <2>2. CASE stored.trigger = "job-stuck-queued"
    BY <2>2 DEF BearsOut
  <2>3. CASE stored.trigger \notin {"runner-stuck", "job-stuck-queued"}
    <3>1. stored.job = NoJob
      BY <2>3 DEF BearsOut
    <3>2. ~NoJob.runner
      BY DEF NoJob
    <3> QED
      BY <3>1, <3>2
  <2> QED
    BY <2>1, <2>2, <2>3
<1>2. s = stored
  BY <1>1 DEF FindRunner
<1>3. \/ t = stored
      \/ /\ stored.pod = NoPod /\ stored.er # NoER
         /\ t = [stored EXCEPT !.pod = buildPodInfo(pod)]
  BY <1>2 DEF FindPod
<1>4. CASE t = stored
  BY <1>4
<1>5. CASE /\ stored.pod = NoPod /\ stored.er # NoER
           /\ t = [stored EXCEPT !.pod = buildPodInfo(pod)]
  <2>1. /\ t.trigger = stored.trigger /\ t.job = stored.job
        /\ t.er = stored.er
    BY <1>5 DEF TypeOK, Evidence
  <2>2. stored.trigger = "runner-stuck"
    BY <1>5 DEF BearsOut
  <2> QED
    BY <1>5, <2>1, <2>2 DEF BearsOut, OfPod, PodTriggers
<1> QED
  BY <1>3, <1>4, <1>5

(* The job that enrichFromGitHub adds does not disturb it either.          *)
LEMMA JobBearsOut ==
  ASSUME TypeOK, BearsOut(spec), NEW t \in FindJob(spec)
  PROVE  /\ BearsOut(t) /\ t.trigger = spec.trigger
         /\ t.er = spec.er /\ t.pod = spec.pod
         /\ t.job = spec.job \/ (spec.job = NoJob /\ spec.er # NoER)
<1>1. t = spec \/ (/\ spec.job = NoJob /\ spec.er # NoER
                   /\ t = [spec EXCEPT !.job = job])
  BY DEF FindJob
<1>2. CASE t = spec
  BY <1>2
<1>3. CASE spec.job = NoJob /\ spec.er # NoER /\ t = [spec EXCEPT !.job = job]
  <2>1. t.trigger = spec.trigger /\ t.er = spec.er /\ t.pod = spec.pod
    BY <1>3 DEF TypeOK, Evidence
  <2>2. PodFailed(t) = PodFailed(spec)
    BY <2>1, PodFailedDepends
  <2>3. spec.trigger = "runner-stuck"
    BY <1>3 DEF BearsOut
  <2> QED
    BY <1>3, <2>1, <2>2, <2>3 DEF BearsOut
<1> QED
  BY <1>1, <1>2, <1>3

(* What an Investigation says when a watcher has just made it.             *)
LEMMA RecordBearsOut ==
  ASSUME NEW e, Record(e), BearsOut(e)
  PROVE  EnrichmentOnlyAdds'
BY DEF Record, EnrichmentOnlyAdds, BearsOut

(* The snapshot that replaces another is a pod's, and no copy of the       *)
(* Correlator counts as one of the Investigation any more.                 *)
LEMMA ReplaceBearsOut ==
  ASSUME TypeOK, EnrichmentOnlyAdds, ReplacePod, pod # NoPod
  PROVE  EnrichmentOnlyAdds'
<1>1. stage # "watching" => BearsOut(stored)
  BY DEF EnrichmentOnlyAdds
<1>2. /\ stored'.trigger = stored.trigger /\ stored'.er = stored.er
      /\ stored'.job = stored.job /\ stored'.pod = buildPodInfo(pod)
      /\ OfPod(stored.trigger)
  BY DEF ReplacePod, TypeOK, Evidence
<1>3. stored'.pod # NoPod
  BY <1>2, SnapshotIsPod
<1>4. replaced' /\ ~fresh' /\ UNCHANGED <<spec, stage>>
  BY DEF ReplacePod
<1>5. stage # "watching" => BearsOut(stored)'
  BY <1>1, <1>2, <1>3, <1>4 DEF BearsOut
<1>6. BearsOut(spec) => BearsOut(spec)'
  BY <1>4 DEF BearsOut
<1> QED
  BY <1>2, <1>4, <1>5, <1>6 DEF EnrichmentOnlyAdds

(* What the watchers record, and what the Correlator makes of it.          *)
THEOREM EvidenceStands == Spec => []EnrichmentOnlyAdds
<1>1. Init => EnrichmentOnlyAdds
  BY DEF Init, EnrichmentOnlyAdds
<1>2. TypeOK /\ EnrichmentOnlyAdds /\ [Next]_vars => EnrichmentOnlyAdds'
  <2> SUFFICES ASSUME TypeOK, EnrichmentOnlyAdds, [Next]_vars
               PROVE  EnrichmentOnlyAdds'
    OBVIOUS
  <2>1. ASSUME UNCHANGED investigation PROVE EnrichmentOnlyAdds'
    BY <2>1 DEF investigation, EnrichmentOnlyAdds, BearsOut
  <2>2. CASE PodMoves \/ PodDeleted \/ RunnerMoves \/ JobMoves \/ UNCHANGED vars
    BY <2>1, <2>2 DEF PodMoves, PodDeleted, RunnerMoves, JobMoves, vars,
                      investigation
  <2>3. CASE PodAnomaly
    <3> DEFINE e == [Empty EXCEPT !.trigger = detectAnomaly(pod),
                                  !.pod = buildPodInfo(pod)]
    <3>1. /\ e.trigger = detectAnomaly(pod) /\ e.pod = buildPodInfo(pod)
          /\ e.er = NoER /\ e.job = NoJob
      BY DEF Empty
    <3>2. /\ pod \in PodStatuses /\ pod # NoPod
          /\ detectAnomaly(pod) # "" /\ Record(e)
      BY <2>3 DEF PodAnomaly, TypeOK, Pods
    <3>3. detectAnomaly(pod) \in PodTriggers
      BY <3>2, AnomalyType
    <3>4. PodFailed(e)
      BY <3>1, <3>2, AnomalyIsFailure
    <3>5. e.pod # NoPod
      BY <3>1, <3>2, SnapshotIsPod
    <3>6. BearsOut(e)
      BY <3>1, <3>3, <3>4, <3>5 DEF BearsOut, PodTriggers
    <3> QED
      BY <3>2, <3>6, RecordBearsOut
  <2>4. CASE PodDeletion
    <3> DEFINE e == [Empty EXCEPT !.trigger = "pod-deletion",
                                  !.pod = buildPodInfo(pod)]
    <3>1. /\ e.trigger = "pod-deletion" /\ e.pod = buildPodInfo(pod)
          /\ e.er = NoER /\ e.job = NoJob
      BY DEF Empty
    <3>2. pod # NoPod /\ e.pod # NoPod
      BY <2>4, <3>1, SnapshotIsPod DEF PodDeletion
    <3>3. BearsOut(e)
      BY <3>1, <3>2 DEF BearsOut, PodTriggers
    <3> HIDE DEF e
    <3>4. Record(e) \/ ReplacePod \/ UNCHANGED investigation
      BY <2>4 DEF PodDeletion, ensureInvestigation, e
    <3> QED
      BY <2>1, <3>2, <3>3, <3>4, RecordBearsOut, ReplaceBearsOut
  <2>5. CASE RunnerStuck
    <3> DEFINE e == [Empty EXCEPT !.trigger = "runner-stuck", !.er = er]
    <3>1. er.phase \in {"Failed", "Running"} /\ er # NoER
      BY <2>5 DEF RunnerStuck, NoER
    <3>2. BearsOut(e)
      BY <3>1 DEF Empty, BearsOut, OfPod, PodTriggers
    <3> QED
      BY <2>5, <3>2, RecordBearsOut DEF RunnerStuck
  <2>6. CASE JobQueued
    <3> DEFINE e == [Empty EXCEPT !.trigger = "job-stuck-queued", !.job = job]
    <3>1. job.status = "queued" /\ ~job.runner
      <4>1. job.status = "queued"
        BY <2>6 DEF JobQueued
      <4>2. NoJob.status = "none"
        BY DEF NoJob
      <4>3. job \in Jobs
        BY <4>1, <4>2 DEF TypeOK, AllJobs
      <4> QED
        BY <4>1, <4>3, WorldAssumption
    <3>2. BearsOut(e)
      BY <3>1 DEF Empty, BearsOut, OfPod, PodTriggers
    <3> QED
      BY <2>6, <3>2, RecordBearsOut DEF JobQueued
  <2>7. CASE EnrichFromK8s
    <3>1. BearsOut(stored)
      BY <2>7 DEF EnrichFromK8s, EnrichmentOnlyAdds
    <3>2. /\ BearsOut(spec') /\ spec'.trigger = stored.trigger
          /\ spec'.job = stored.job
          /\ stored.pod # NoPod => spec'.pod = stored.pod
      BY <2>7, <3>1, EnrichmentBearsOut DEF EnrichFromK8s
    <3>3. /\ stored' = stored /\ replaced' = replaced /\ stage' = "k8s"
      BY <2>7 DEF EnrichFromK8s
    <3> QED
      BY <3>1, <3>2, <3>3 DEF EnrichmentOnlyAdds, BearsOut
  <2>8. CASE EnrichFromGitHub
    <3>1. /\ BearsOut(stored) /\ BearsOut(spec)
          /\ spec.trigger = stored.trigger
          /\ stored.job # NoJob => spec.job = stored.job
          /\ fresh /\ stored.pod # NoPod => spec.pod = stored.pod
      BY <2>8 DEF EnrichFromGitHub, EnrichmentOnlyAdds
    <3>2. /\ BearsOut(spec') /\ spec'.trigger = spec.trigger
          /\ spec'.pod = spec.pod
          /\ spec'.job = spec.job \/ spec.job = NoJob
      BY <2>8, <3>1, JobBearsOut DEF EnrichFromGitHub
    <3>3. /\ UNCHANGED <<stored, fresh, replaced>> /\ stage' = "github"
      BY <2>8 DEF EnrichFromGitHub
    <3> QED
      BY <3>1, <3>2, <3>3 DEF EnrichmentOnlyAdds, BearsOut
  <2>9. CASE Diagnose \/ Complete \/ Conflict
    BY <2>9 DEF Diagnose, Complete, Conflict, EnrichmentOnlyAdds, BearsOut
  <2> QED
    BY <2>2, <2>3, <2>4, <2>5, <2>6, <2>7, <2>8, <2>9
       DEF Next, Detect, Correlate
<1> QED
  BY <1>1, <1>2, TypeCorrect, PTL DEF Spec
------------------------------------------------------------------------------
(***************************************************************************)
(* The diagnosis.                                                          *)
(***************************************************************************)

(* Evidence that bears out a trigger other than a deletion matches a       *)
(* pattern, as long as the deletion has not replaced the snapshot.         *)
LEMMA BorneOutMatches ==
  ASSUME NEW e \in Evidence, BearsOut(e), e.trigger # "pod-deletion",
         ~(e.trigger \in PodTriggers /\ replaced)
  PROVE  Matching(e) # {}
<1>1. \/ e.trigger \in PodTriggers
      \/ e.trigger = "runner-stuck"
      \/ e.trigger = "job-stuck-queued"
  BY DEF Evidence, BearsOut, PodTriggers
<1>2. CASE e.trigger \in PodTriggers
  <2>1. PodFailed(e)
    BY <1>2 DEF BearsOut
  <2> QED
    BY <2>1 DEF PodFailed, Matching, FailureTypes
<1>3. CASE e.trigger = "runner-stuck"
  <2>1. RunnerStuckRunning(e) \/ RunnerStuckFailed(e)
    BY <1>3 DEF BearsOut, RunnerStuckRunning, RunnerStuckFailed
  <2> QED
    BY <2>1 DEF Matching, FailureTypes
<1>4. CASE e.trigger = "job-stuck-queued"
  <2>1. JobStuckQueued(e)
    BY <1>4 DEF BearsOut, JobStuckQueued, OfPod
  <2> QED
    BY <2>1 DEF Matching, FailureTypes
<1> QED
  BY <1>1, <1>2, <1>3, <1>4

(* Nothing is diagnosed before a watcher has recorded it.                  *)
Undiagnosed == stage = "watching" => diagnosis = ""

(* Nothing leads back to "watching".                                       *)
LEMMA WatchingUndiagnosed == Spec => []Undiagnosed
<1>1. Init => Undiagnosed
  BY DEF Init, Undiagnosed
<1>2. Undiagnosed /\ [Next]_vars => Undiagnosed'
  <2> SUFFICES ASSUME Undiagnosed, [Next]_vars PROVE Undiagnosed'
    OBVIOUS
  <2> USE DEF Undiagnosed, world, investigation
  <2>1. CASE PodMoves \/ PodDeleted \/ RunnerMoves \/ JobMoves
    BY <2>1 DEF PodMoves, PodDeleted, RunnerMoves, JobMoves
  <2>2. CASE Detect
    BY <2>2 DEF Detect, PodAnomaly, PodDeletion, ensureInvestigation,
                ReplacePod, RunnerStuck, JobQueued, Record
  <2>3. CASE Correlate
    BY <2>3 DEF Correlate, EnrichFromK8s, EnrichFromGitHub, Diagnose,
                Complete, Conflict
  <2>4. CASE UNCHANGED vars
    BY <2>4 DEF vars
  <2> QED
    BY <2>1, <2>2, <2>3, <2>4 DEF Next
<1> QED
  BY <1>1, <1>2, PTL DEF Spec

(* Every failure that a watcher reports is named by the Correlator, for    *)
(* any pods and whatever the cluster and GitHub do in between, unless the  *)
(* PodWatcher has replaced the evidence by what it saw on deletion.        *)
THEOREM EveryFailureNamed == Spec => []FailuresAreNamed
<1>1. Init => FailuresAreNamed
  BY DEF Init, FailuresAreNamed
<1>2. /\ TypeOK /\ EnrichmentOnlyAdds /\ Undiagnosed
      /\ FailuresAreNamed /\ [Next]_vars
      => FailuresAreNamed'
  <2> SUFFICES ASSUME TypeOK, EnrichmentOnlyAdds, Undiagnosed,
                      FailuresAreNamed, [Next]_vars
               PROVE  FailuresAreNamed'
    OBVIOUS
  <2> USE DEF world, investigation
  <2>1. CASE PodMoves \/ PodDeleted \/ RunnerMoves \/ JobMoves
    BY <2>1 DEF PodMoves, PodDeleted, RunnerMoves, JobMoves, FailuresAreNamed
  <2>2. ASSUME NEW e, Record(e) PROVE FailuresAreNamed'
    BY <2>2 DEF Record, Undiagnosed, FailuresAreNamed
  <2>3. CASE ReplacePod
    <3>1. /\ stored'.trigger = stored.trigger /\ diagnosis' = diagnosis
          /\ replaced'
      BY <2>3 DEF ReplacePod, TypeOK, Evidence
    <3> QED
      BY <3>1 DEF FailuresAreNamed
  <2>4. CASE PodDeletion /\ UNCHANGED investigation
    BY <2>4 DEF FailuresAreNamed
  <2>5. CASE PodAnomaly \/ PodDeletion \/ RunnerStuck \/ JobQueued
    BY <2>2, <2>3, <2>4, <2>5 DEF PodAnomaly, PodDeletion, RunnerStuck,
                                  JobQueued, ensureInvestigation
  <2>6. CASE Diagnose
    <3>1. /\ spec \in Evidence /\ BearsOut(spec)
          /\ spec.trigger = stored.trigger /\ stored' = spec
          /\ replaced' = replaced
          /\ diagnosis' = IF diagnosis = "" THEN Classify(spec) ELSE diagnosis
      BY <2>6 DEF Diagnose, TypeOK, EnrichmentOnlyAdds
    <3>2. \/ Classify(spec) # "unknown"
          \/ spec.trigger = "pod-deletion"
          \/ spec.trigger \in PodTriggers /\ replaced
      BY <3>1, BorneOutMatches, NamedIfMatching
    <3> QED
      BY <3>1, <3>2 DEF FailuresAreNamed
  <2>7. CASE EnrichFromK8s \/ EnrichFromGitHub \/ Complete \/ Conflict
    BY <2>7 DEF EnrichFromK8s, EnrichFromGitHub, Complete, Conflict,
                FailuresAreNamed
  <2>8. CASE UNCHANGED vars
    BY <2>8 DEF vars, FailuresAreNamed
  <2> QED
    BY <2>1, <2>5, <2>6, <2>7, <2>8 DEF Next, Detect, Correlate
<1> QED
  BY <1>1, <1>2, TypeCorrect, EvidenceStands, WatchingUndiagnosed, PTL DEF Spec

(* A snapshot never has the phase "Terminating": the API has no such       *)
(* phase, and buildPodInfo copies what the API has.                        *)
LEMMA NeverTerminating ==
  ASSUME NEW e \in Evidence
  PROVE  e.pod.phase # "Terminating"
<1>1. CASE e.pod = NoPod
  <2>1. NoPod.phase = ""
    BY DEF NoPod
  <2> QED
    BY <1>1, <2>1
<1>2. CASE e.pod \in {buildPodInfo(p) : p \in PodStatuses}
  <2>1. PICK p \in PodStatuses : e.pod = buildPodInfo(p)
    BY <1>2
  <2>2. p.phase \in {"Pending", "Running", "Succeeded", "Failed", "Unknown"}
    BY WorldAssumption DEF PodStatus
  <2> QED
    BY <2>1, <2>2, SnapshotFields
<1> QED
  BY <1>1, <1>2 DEF Evidence

(* Evidence of a pod alone matches a pattern of pods or none.              *)
LEMMA PodAloneClassified ==
  ASSUME NEW e \in Evidence, BearsOut(e), OfPod(e.trigger)
  PROVE  IF PodFailed(e) THEN Classify(e) \in PodFailures
                         ELSE Classify(e) = "unknown"
<1>1. CASE PodFailed(e)
  BY <1>1, NeverTerminating, PodFailedNamed
<1>2. CASE ~PodFailed(e)
  <2>1. e.er = NoER /\ e.job = NoJob
    BY DEF BearsOut, OfPod, PodTriggers
  <2>2. /\ NoER.phase \notin {"Running", "Failed"}
        /\ NoJob.status # "queued"
    BY DEF NoER, NoJob
  <2>3. /\ ~RunnerStuckRunning(e) /\ ~RunnerStuckFailed(e)
        /\ ~JobStuckQueued(e)
    BY <2>1, <2>2 DEF RunnerStuckRunning, RunnerStuckFailed, JobStuckQueued
  <2>4. ~PodStuckTerminating(e)
    BY NeverTerminating DEF PodStuckTerminating
  <2>5. Matching(e) = {}
    BY <1>2, <2>3, <2>4 DEF PodFailed, Matching
  <2> QED
    BY <1>2, <2>5 DEF Classify
<1> QED
  BY <1>1, <1>2

(* The diagnosis of a pod's Investigation is that of the snapshot stored   *)
(* when it is written, for pods with any number of containers and however  *)
(* often the snapshot was replaced under the Correlator.                   *)
THEOREM LatestEvidenceDecides == Spec => PodEvidenceDecides
<1> DEFINE Decides == diagnosis' # diagnosis /\ OfPod(stored.trigger) =>
                        IF PodFailed(stored) THEN diagnosis' \in PodFailures
                                             ELSE diagnosis' = "unknown"
<1>1. TypeOK /\ EnrichmentOnlyAdds /\ [Next]_vars => [Decides]_vars
  <2> SUFFICES ASSUME TypeOK, EnrichmentOnlyAdds, [Next]_vars,
                      diagnosis' # diagnosis, OfPod(stored.trigger)
               PROVE  IF PodFailed(stored) THEN diagnosis' \in PodFailures
                                           ELSE diagnosis' = "unknown"
    OBVIOUS
  <2>1. Diagnose
    <3>1. CASE PodMoves \/ PodDeleted \/ RunnerMoves \/ JobMoves
      BY <3>1 DEF PodMoves, PodDeleted, RunnerMoves, JobMoves, investigation
    <3>2. CASE Detect
      BY <3>2 DEF Detect, PodAnomaly, PodDeletion, ensureInvestigation,
                  ReplacePod, RunnerStuck, JobQueued, Record, investigation
    <3>3. CASE EnrichFromK8s \/ EnrichFromGitHub \/ Complete \/ Conflict
      BY <3>3 DEF EnrichFromK8s, EnrichFromGitHub, Complete, Conflict
    <3>4. CASE UNCHANGED vars
      BY <3>4 DEF vars
    <3> QED
      BY <3>1, <3>2, <3>3, <3>4 DEF Next, Correlate
  <2>2. /\ stage = "github" /\ fresh
        /\ diagnosis' = Classify(spec)
    BY <2>1 DEF Diagnose
  <2>3. /\ spec \in Evidence /\ BearsOut(spec) /\ BearsOut(stored)
        /\ spec.trigger = stored.trigger
        /\ stored.pod # NoPod => spec.pod = stored.pod
    BY <2>2 DEF TypeOK, EnrichmentOnlyAdds
  <2>4. spec.pod = stored.pod
    BY <2>3 DEF BearsOut
  <2>5. PodFailed(spec) = PodFailed(stored)
    BY <2>4, PodFailedDepends
  <2> QED
    BY <2>2, <2>3, <2>5, PodAloneClassified
<1> QED
  BY <1>1, TypeCorrect, EvidenceStands, PTL DEF Spec, PodEvidenceDecides

(* Without the job that the Correlator itself looked up, the same patterns *)
(* match.                                                                  *)
THEOREM GitHubNotNeeded == Spec => []GitHubOptional
<1>1. TypeOK /\ EnrichmentOnlyAdds => GitHubOptional
  <2> SUFFICES ASSUME TypeOK, EnrichmentOnlyAdds,
                      stage = "github", stored.job = NoJob
               PROVE  Classify(spec) = Classify([spec EXCEPT !.job = NoJob])
    BY DEF GitHubOptional
  <2> DEFINE e == [spec EXCEPT !.job = NoJob]
  <2>1. /\ e.trigger = spec.trigger /\ e.pod = spec.pod
        /\ e.er = spec.er /\ e.job = NoJob
    BY DEF TypeOK, Evidence
  <2>2. /\ BearsOut(stored) /\ BearsOut(spec)
        /\ spec.trigger = stored.trigger
    BY DEF EnrichmentOnlyAdds
  <2>3. spec.trigger # "job-stuck-queued"
    <3>1. NoJob.status # "queued"
      BY DEF NoJob
    <3> QED
      BY <2>2, <3>1 DEF BearsOut
  <2>4. e.job = spec.job \/ (spec.trigger = "runner-stuck" /\ spec.er # NoER)
    BY <2>1, <2>2, <2>3 DEF BearsOut
  <2> HIDE DEF e
  <2>5. /\ PodOOMKilled(e) = PodOOMKilled(spec)
        /\ PodCrashed(e) = PodCrashed(spec)
        /\ PodStuckTerminating(e) = PodStuckTerminating(spec)
        /\ PodInitTimeout(e) = PodInitTimeout(spec)
    BY <2>1 DEF PodOOMKilled, PodCrashed, PodStuckTerminating, PodInitTimeout
  <2>6. /\ RunnerStuckRunning(e) = RunnerStuckRunning(spec)
        /\ RunnerStuckFailed(e) = RunnerStuckFailed(spec)
        /\ JobStuckQueued(e) = JobStuckQueued(spec)
    BY <2>1, <2>4 DEF RunnerStuckRunning, RunnerStuckFailed, JobStuckQueued
  <2>7. Matching(e) = Matching(spec)
    BY <2>5, <2>6 DEF Matching
  <2> QED
    BY <2>7 DEF Classify, e
<1> QED
  BY <1>1, TypeCorrect, EvidenceStands, PTL

(* No pod is ever diagnosed as stuck in termination, whatever its status   *)
(* and however long it is being deleted: PodStuckTerminating looks for a   *)
(* phase that buildPodInfo cannot copy from any pod.                       *)
THEOREM StuckTerminatingNeverNamed ==
  Spec => [](diagnosis # "pod-stuck-terminating")
<1> DEFINE Other == diagnosis # "pod-stuck-terminating"
<1>1. Init => Other
  BY DEF Init
<1>2. TypeOK /\ Other /\ [Next]_vars => Other'
  <2> SUFFICES ASSUME TypeOK, Other, [Next]_vars PROVE Other'
    OBVIOUS
  <2>1. CASE PodMoves \/ PodDeleted \/ RunnerMoves \/ JobMoves
    BY <2>1 DEF PodMoves, PodDeleted, RunnerMoves, JobMoves, investigation
  <2>2. CASE Detect
    BY <2>2 DEF Detect, PodAnomaly, PodDeletion, ensureInvestigation,
                ReplacePod, RunnerStuck, JobQueued, Record, investigation
  <2>3. CASE EnrichFromK8s \/ EnrichFromGitHub \/ Complete \/ Conflict
    BY <2>3 DEF EnrichFromK8s, EnrichFromGitHub, Complete, Conflict
  <2>4. CASE Diagnose
    <3>1. 3 \notin Matching(spec)
      <4>1. spec.pod.phase # "Terminating"
        BY NeverTerminating DEF TypeOK
      <4> QED
        BY <4>1 DEF Matching, PodStuckTerminating
    <3>2. CASE Matching(spec) = {}
      BY <2>4, <3>2 DEF Diagnose, Classify
    <3>3. CASE Matching(spec) # {}
      <4>1. PICK i \in Matching(spec) : Classify(spec) = FailureTypes[i]
        BY <3>3, FirstMatch
      <4>2. i \in 1..7 /\ i # 3
        BY <3>1 DEF Matching, FailureTypes
      <4>3. Classify(spec) # "pod-stuck-terminating"
        BY <4>1, <4>2 DEF FailureTypes
      <4> QED
        BY <2>4, <4>3 DEF Diagnose
    <3> QED
      BY <3>2, <3>3
  <2>5. CASE UNCHANGED vars
    BY <2>5 DEF vars
  <2> QED
    BY <2>1, <2>2, <2>3, <2>4, <2>5 DEF Next, Correlate
<1> QED
  BY <1>1, <1>2, TypeCorrect, PTL DEF Spec
==============================================================================
