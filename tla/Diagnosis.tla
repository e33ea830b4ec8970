------------------------------ MODULE Diagnosis ------------------------------
(***************************************************************************)
(* What the watchers look for in a pod and how an Investigation is         *)
(* classified: internal/diagnosis, with detectAnomaly and buildPodInfo of  *)
(* the PodWatcher.  Pure functions of the evidence.                        *)
(*                                                                         *)
(* A pod status is [phase, containers]; a container is in one of the       *)
(* states Kubernetes defines, with a reason and an exit code.  The         *)
(* evidence of an Investigation is [trigger, pod, er, job], a part that is *)
(* nil being a None of its own.                                            *)
(***************************************************************************)
EXTENDS Integers, Sequences, FiniteSetsExt

NoPod == [phase |-> "", containers |-> <<>>]
NoER == [phase |-> "none"]
NoJob == [status |-> "none", runner |-> FALSE]

PullErrors == {"ImagePullBackOff", "ErrImagePull"}

Containers == [state : {"waiting", "running", "terminated"},
               reason : STRING, exitCode : Int]

PodStatus == [phase : {"Pending", "Running", "Succeeded", "Failed", "Unknown"},
              containers : Seq(Containers)]
------------------------------------------------------------------------------
(***************************************************************************)
(* PodWatcher.detectAnomaly: the first container with an anomaly decides.  *)
(***************************************************************************)

OOMKilled(cs) == cs.state = "terminated" /\ cs.reason = "OOMKilled"
Exited(cs) == cs.state = "terminated" /\ cs.exitCode # 0
PullFailed(cs) == cs.state = "waiting" /\ cs.reason \in PullErrors

(* A variant that answers with the reason of a container that is waiting.  *)
AnomalyOrReason(cs) == CASE OOMKilled(cs)  -> "pod-oomkill"
                         [] ~OOMKilled(cs) /\ Exited(cs) -> "pod-crash"
                         [] PullFailed(cs) -> cs.reason
                         [] OTHER          -> ""

Anomaly(cs) == CASE OOMKilled(cs)  -> "pod-oomkill"
                 [] ~OOMKilled(cs) /\ Exited(cs) -> "pod-crash"
                 [] PullFailed(cs) -> "pod-init-timeout"
                 [] OTHER          -> ""

Anomalous(pod) ==
  {i \in DOMAIN pod.containers : Anomaly(pod.containers[i]) # ""}

detectAnomaly(pod) ==
  IF Anomalous(pod) = {} THEN ""
  ELSE Anomaly(pod.containers[Min(Anomalous(pod))])

(* buildPodInfo and buildPodInfoFromPod: exit code and OOMKilled are       *)
(* recorded of terminated containers only.                                 *)
NoExit == 0

ContainerInfo(cs) ==
  [state     |-> cs.state,
   reason    |-> IF cs.state = "running" THEN "" ELSE cs.reason,
   exitCode  |-> IF cs.state = "terminated" THEN cs.exitCode ELSE NoExit,
   oomKilled |-> OOMKilled(cs)]

ContainerInfos(cs) == [i \in DOMAIN cs |-> ContainerInfo(cs[i])]

buildPodInfo(pod) ==
  [phase |-> pod.phase, containers |-> ContainerInfos(pod.containers)]
------------------------------------------------------------------------------
(***************************************************************************)
(* KnownPatterns, in the order in which Classify tries them.               *)
(***************************************************************************)

SomeContainer(pod, P(_)) == \E i \in DOMAIN pod.containers : P(pod.containers[i])

PodOOMKilled(spec) ==
  SomeContainer(spec.pod, LAMBDA cs :
    cs.oomKilled \/ (cs.state = "terminated" /\ cs.exitCode = 137))

PodCrashed(spec) ==
  SomeContainer(spec.pod, LAMBDA cs :
    cs.state = "terminated" /\ cs.exitCode # 0 /\ ~cs.oomKilled)

PodStuckTerminating(spec) == spec.pod.phase = "Terminating"

PodInitTimeout(spec) ==
  /\ spec.pod.phase \in {"Pending", "Failed"}
  /\ SomeContainer(spec.pod, LAMBDA cs :
       cs.state = "waiting" /\ cs.reason \in PullErrors)

(* A variant that only knows of jobs that completed.                       *)
JobDoneRunnerStuckRunning(spec) ==
  spec.er.phase = "Running" /\ spec.job.status = "completed"

RunnerStuckRunning(spec) ==
  /\ spec.er.phase = "Running"
  /\ spec.job.status = "completed" \/ spec.trigger = "runner-stuck"

RunnerStuckFailed(spec) == spec.er.phase = "Failed"

JobStuckQueued(spec) == spec.job.status = "queued" /\ spec.er = NoER

FailureTypes == <<"pod-oomkilled", "pod-crashed", "pod-stuck-terminating",
                  "pod-init-timeout", "runner-stuck-running",
                  "runner-stuck-failed", "job-stuck-queued">>

Matching(spec) ==
  {i \in DOMAIN FailureTypes :
     \/ i = 1 /\ PodOOMKilled(spec)
     \/ i = 2 /\ PodCrashed(spec)
     \/ i = 3 /\ PodStuckTerminating(spec)
     \/ i = 4 /\ PodInitTimeout(spec)
     \/ i = 5 /\ RunnerStuckRunning(spec)
     \/ i = 6 /\ RunnerStuckFailed(spec)
     \/ i = 7 /\ JobStuckQueued(spec)}

(* Classify, with the "unknown" that Correlator.Reconcile falls back to.   *)
Classify(spec) ==
  IF Matching(spec) = {} THEN "unknown" ELSE FailureTypes[Min(Matching(spec))]

PodTriggers == {"pod-oomkill", "pod-crash", "pod-init-timeout"}
PodFailures == {"pod-oomkilled", "pod-crashed", "pod-init-timeout"}
==============================================================================
