----------------------------- MODULE Correlation -----------------------------
(***************************************************************************)
(* From a failure to a diagnosis, for one runner: its pod, its             *)
(* EphemeralRunner of the same name, and the GitHub job it may have run.   *)
(* A watcher records what it sees in an Investigation; later, while the    *)
(* cluster and GitHub move on, Correlator.Reconcile adds what is missing   *)
(* and classifies the evidence.  Meanwhile the PodWatcher may put another  *)
(* snapshot of the pod in its place, when the pod is deleted.  One         *)
(* Investigation is followed.                                              *)
(***************************************************************************)
EXTENDS Diagnosis

CONSTANTS
  PodStatuses,    \* statuses the pod goes through
  ERPhases,       \* phases of the EphemeralRunner
  Jobs            \* states of the GitHub job: [status, runner], where runner
                  \* says that the job names this runner

(* What Kubernetes and GitHub guarantee: a runner pod, whose containers    *)
(* are never restarted, with a container that could not start for want of  *)
(* its image has not left phase Pending, unless the pod failed as a whole; *)
(* and a queued job has no runner yet.                                     *)
ASSUME WorldAssumption ==
  /\ PodStatuses \subseteq PodStatus
  /\ \A p \in PodStatuses :
       SomeContainer(p, PullFailed) => p.phase \in {"Pending", "Failed"}
  /\ Jobs \subseteq [status : {"queued", "in_progress", "completed"},
                     runner : BOOLEAN]
  /\ \A j \in Jobs : j.status = "queued" => ~j.runner
  /\ "none" \notin ERPhases

VARIABLES
  pod, deletion,  \* the pod's status in the cluster; "none" before it is
                  \* deleted, then "finalizing" until the PodWatcher's
                  \* finalizer is removed, then "finalized"
  er,             \* the EphemeralRunner in the cluster
  job,            \* the job at GitHub
  stored,         \* the evidence in the API server's Investigation
  spec, fresh,    \* the Correlator's copy of it, and whether the copy has
                  \* the resourceVersion that the API server has
  stage,          \* how far the Investigation has got
  diagnosis,
  replaced        \* history: the pod's deletion has replaced stored.pod

vars == <<pod, deletion, er, job, stored, spec, fresh, stage, diagnosis,
          replaced>>
world == <<pod, deletion, er, job>>
investigation == <<stored, spec, fresh, stage, diagnosis, replaced>>

Pods == PodStatuses \cup {NoPod}
ERs == {[phase |-> p] : p \in ERPhases} \cup {NoER}
AllJobs == Jobs \cup {NoJob}

Empty == [trigger |-> "", pod |-> NoPod, er |-> NoER, job |-> NoJob]

Init ==
  /\ pod \in Pods /\ deletion = "none"
  /\ er \in ERs
  /\ job \in AllJobs
  /\ stored = Empty /\ spec = Empty /\ fresh = FALSE
  /\ stage = "watching"
  /\ diagnosis = "" /\ replaced = FALSE
------------------------------------------------------------------------------
(***************************************************************************)
(* The world moves on between any two steps.                               *)
(***************************************************************************)

(* A pod that is gone may be followed by another of its name.              *)
PodMoves == /\ pod' \in Pods
            /\ deletion' = IF pod' = NoPod THEN "none" ELSE deletion
            /\ UNCHANGED <<er, job, investigation>>

PodDeleted == /\ pod # NoPod /\ deletion = "none"
              /\ deletion' = "finalizing"
              /\ UNCHANGED <<pod, er, job, investigation>>

RunnerMoves == /\ er' \in ERs
               /\ UNCHANGED <<pod, deletion, job, investigation>>

JobMoves == /\ job' \in AllJobs
            /\ UNCHANGED <<pod, deletion, er, investigation>>
------------------------------------------------------------------------------
(***************************************************************************)
(* Detection.  Each watcher records its own side only.                     *)
(***************************************************************************)

Record(evidence) ==
  /\ stage = "watching"
  /\ stored' = evidence
  /\ stage' = "collecting"
  /\ UNCHANGED <<spec, fresh, diagnosis, replaced>>

(* PodWatcher.createAnomalyInvestigation                                   *)
PodAnomaly ==
  /\ pod # NoPod /\ detectAnomaly(pod) # ""
  /\ deletion # "finalizing"
  /\ Record([Empty EXCEPT !.trigger = detectAnomaly(pod),
                          !.pod = buildPodInfo(pod)])
  /\ UNCHANGED world

(* The Investigations that bear the pod's name.                            *)
OfPod(trigger) == trigger \in PodTriggers \cup {"pod-deletion"}

(* PodWatcher.ensureInvestigation: another snapshot for the Investigation  *)
(* there is, at any stage; a copy the Correlator has of it is stale now.   *)
ReplacePod ==
  /\ OfPod(stored.trigger)
  /\ stored' = [stored EXCEPT !.pod = buildPodInfo(pod)]
  /\ fresh' = FALSE
  /\ replaced' = TRUE
  /\ UNCHANGED <<spec, stage, diagnosis>>

ensureInvestigation ==
  \/ Record([Empty EXCEPT !.trigger = "pod-deletion",
                          !.pod = buildPodInfo(pod)])
  \/ ReplacePod

(* The deletion branch of PodWatcher.Reconcile.  Without logs, or when the *)
(* API server refuses, nothing is recorded; the finalizer goes all the     *)
(* same, unless its own Update fails and all of this is done again.        *)
PodDeletion ==
  /\ pod # NoPod /\ deletion = "finalizing"
  /\ ensureInvestigation \/ UNCHANGED investigation
  /\ deletion' \in {"finalizing", "finalized"}
  /\ UNCHANGED <<pod, er, job>>

(* EphemeralRunnerWatcher.handleFailed and handleRunning, past their       *)
(* thresholds                                                              *)
RunnerStuck ==
  /\ er.phase \in {"Failed", "Running"}
  /\ Record([Empty EXCEPT !.trigger = "runner-stuck", !.er = er])
  /\ UNCHANGED world

(* GitHubPoller.checkJob, past the queued threshold                        *)
JobQueued ==
  /\ job.status = "queued"
  /\ Record([Empty EXCEPT !.trigger = "job-stuck-queued", !.job = job])
  /\ UNCHANGED world
------------------------------------------------------------------------------
(***************************************************************************)
(* Correlator.Reconcile.  A List that fails, or finds nothing, leaves the  *)
(* evidence as it is.                                                      *)
(***************************************************************************)

(* enrichFromK8s: the EphemeralRunner by the job's runner name, ...        *)
FindRunner(s) ==
  IF s.job.runner /\ s.er = NoER THEN {s, [s EXCEPT !.er = er]} ELSE {s}

(* ... then the pod by the EphemeralRunner's name.                         *)
FindPod(s) ==
  IF s.er # NoER /\ s.pod = NoPod /\ pod # NoPod
  THEN {s, [s EXCEPT !.pod = buildPodInfo(pod)]} ELSE {s}

(* A variant that looks the pod up again although the watcher recorded it. *)
EnrichFromK8sAgain ==
  /\ stage = "collecting"
  /\ spec' = IF pod # NoPod THEN [stored EXCEPT !.pod = buildPodInfo(pod)]
                            ELSE stored
  /\ fresh' = TRUE
  /\ stage' = "k8s"
  /\ UNCHANGED <<world, stored, diagnosis, replaced>>

(* The Get of an Investigation in phase Collecting, and enrichFromK8s.     *)
EnrichFromK8s ==
  /\ stage = "collecting"
  /\ IF stored.er = NoER \/ stored.pod = NoPod
     THEN \E s \in FindRunner(stored) : spec' \in FindPod(s)
     ELSE spec' = stored
  /\ fresh' = TRUE
  /\ stage' = "k8s"
  /\ UNCHANGED <<world, stored, diagnosis, replaced>>

(* enrichFromGitHub: the job by the EphemeralRunner's name.  An error of   *)
(* the GitHub client is swallowed.                                         *)
FindJob(s) ==
  IF s.job = NoJob /\ s.er # NoER /\ job.runner
  THEN {s, [s EXCEPT !.job = job]} ELSE {s}

EnrichFromGitHub ==
  /\ stage = "k8s"
  /\ spec' \in FindJob(spec)
  /\ stage' = "github"
  /\ UNCHANGED <<world, stored, fresh, diagnosis, replaced>>

(* A variant whose Update does not carry a resourceVersion.                *)
DiagnoseUnconditionally ==
  /\ stage = "github"
  /\ stored' = spec
  /\ diagnosis' = IF diagnosis = "" THEN Classify(spec) ELSE diagnosis
  /\ spec' = Empty /\ fresh' = FALSE
  /\ stage' = "written"
  /\ UNCHANGED <<world, replaced>>

(* A diagnosis that is there already stays.  The Update is refused if the  *)
(* Investigation has changed since the Get.                                *)
Diagnose ==
  /\ stage = "github" /\ fresh
  /\ stored' = spec
  /\ diagnosis' = IF diagnosis = "" THEN Classify(spec) ELSE diagnosis
  /\ spec' = Empty /\ fresh' = FALSE
  /\ stage' = "written"
  /\ UNCHANGED <<world, replaced>>

(* The second Get and the update of the phase.                             *)
Complete ==
  /\ stage = "written"
  /\ stage' = "complete"
  /\ UNCHANGED <<world, stored, spec, fresh, diagnosis, replaced>>

(* One of the two updates fails, above all because the PodWatcher has      *)
(* written meanwhile: the copy is dropped, and Reconcile starts again from *)
(* what is stored by then.                                                 *)
Conflict ==
  /\ stage \in {"github", "written"}
  /\ spec' = Empty /\ fresh' = FALSE
  /\ stage' = "collecting"
  /\ UNCHANGED <<world, stored, diagnosis, replaced>>

Detect == PodAnomaly \/ PodDeletion \/ RunnerStuck \/ JobQueued

Correlate ==
  EnrichFromK8s \/ EnrichFromGitHub \/ Diagnose \/ Complete \/ Conflict

Next == \/ PodMoves \/ PodDeleted \/ RunnerMoves \/ JobMoves
        \/ Detect \/ Correlate

Spec == Init /\ [][Next]_vars

(* The watcher is not starved, and Reconcile is retried until it succeeds. *)
FairSpec == /\ Spec
            /\ WF_vars(Detect)
            /\ WF_vars(EnrichFromK8s)
            /\ WF_vars(EnrichFromGitHub)
            /\ SF_vars(Diagnose)
            /\ SF_vars(Complete)
------------------------------------------------------------------------------
(***************************************************************************)
(* Properties.                                                             *)
(***************************************************************************)

(* The evidence comes from the world's sets, through buildPodInfo.         *)
Evidence ==
  [trigger : {"", "pod-oomkill", "pod-crash", "pod-init-timeout",
              "pod-deletion", "runner-stuck", "job-stuck-queued"},
   pod : {buildPodInfo(p) : p \in PodStatuses} \cup {NoPod},
   er : ERs, job : AllJobs]

TypeOK ==
  /\ pod \in Pods /\ er \in ERs /\ job \in AllJobs
  /\ deletion \in {"none", "finalizing", "finalized"}
  /\ stored \in Evidence /\ spec \in Evidence
  /\ fresh \in BOOLEAN /\ replaced \in BOOLEAN
  /\ stage \in {"watching", "collecting", "k8s", "github", "written", "complete"}
  /\ diagnosis \in {FailureTypes[i] : i \in DOMAIN FailureTypes}
                     \cup {"", "unknown"}

PodFailed(e) == PodOOMKilled(e) \/ PodCrashed(e) \/ PodInitTimeout(e)

(* The evidence bears its trigger out; of a pod's trigger, that can only   *)
(* be said until the pod's deletion replaces the snapshot.                 *)
BearsOut(e) ==
  /\ e.trigger # ""
  /\ OfPod(e.trigger) => e.pod # NoPod
  /\ e.trigger \in PodTriggers => PodFailed(e) \/ replaced
  /\ e.trigger = "runner-stuck" <=> e.er # NoER
  /\ e.trigger = "runner-stuck" => e.er.phase \in {"Failed", "Running"}
  /\ e.trigger = "job-stuck-queued" => e.job.status = "queued" /\ ~e.job.runner
  /\ e.trigger \notin {"runner-stuck", "job-stuck-queued"} => e.job = NoJob

(* Enrichment, from a cluster and a GitHub that have moved on since the    *)
(* watcher looked, adds to the evidence and never contradicts it: the      *)
(* trigger stays borne out by what is stored, but for the pod's snapshot   *)
(* after ensureInvestigation replaced it; and a copy that the API server   *)
(* would accept keeps every part that is stored.                           *)
EnrichmentOnlyAdds ==
  /\ stage # "watching" => BearsOut(stored)
  /\ stage \in {"k8s", "github"} =>
       /\ BearsOut(spec)
       /\ spec.trigger = stored.trigger
       /\ stored.job # NoJob => spec.job = stored.job
       /\ fresh /\ stored.pod # NoPod => spec.pod = stored.pod

(* Whatever a watcher reports as a failure, the Correlator can name: the   *)
(* patterns of internal/diagnosis cover what the watchers look for, also   *)
(* after the evidence was enriched from a world that has moved on.  It     *)
(* says "unknown" only of a pod that was deleted: without an anomaly, or   *)
(* with one that the snapshot taken on deletion has replaced.              *)
FailuresAreNamed ==
  diagnosis = "unknown" =>
    \/ stored.trigger = "pod-deletion"
    \/ stored.trigger \in PodTriggers /\ replaced

(* The diagnosis of a pod's Investigation is that of the snapshot stored   *)
(* when it is written: a snapshot that the PodWatcher put there while      *)
(* Reconcile was under way is never classified over.                       *)
PodEvidenceDecides ==
  [][diagnosis' # diagnosis /\ OfPod(stored.trigger) =>
       IF PodFailed(stored) THEN diagnosis' \in PodFailures
                            ELSE diagnosis' = "unknown"]_vars

(* Reconcile swallows the errors of the GitHub client and completes the    *)
(* Investigation without the job.  That never costs it its diagnosis: the  *)
(* job the Correlator itself looked up does not decide.                    *)
GitHubOptional ==
  stage = "github" /\ stored.job = NoJob =>
    Classify(spec) = Classify([spec EXCEPT !.job = NoJob])

(* "arc-detective watches runner pods ... to detect: pod-stuck-terminating *)
(* | Pod stuck in Terminating phase" (README.md): a pod that stays in      *)
(* deletion, and whose Investigation is completed, is diagnosed so.        *)
StuckTerminatingDetected ==
  <>[](deletion # "none") /\ <>(stage = "complete")
    => <>(diagnosis = "pod-stuck-terminating")
==============================================================================
