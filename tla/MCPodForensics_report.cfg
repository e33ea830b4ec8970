SPECIFICATION Spec
CONSTANTS
  PodStatuses <- MCTwice
  FirstStatus <- Pulling
  Kubelet <- MCTwiceKubelet
  ApiErrors = TRUE
  AtCap = TRUE
  Crashes = TRUE
  Deletes = FALSE
  MaxPods = 2
  MaxInvs = 1
  MaxLogs = 2
INVARIANT DiagnosisMatchesEvidence
PROPERTY ReportSpec
