SPECIFICATION Spec
CONSTANTS
  PodStatuses <- MCShort
  FirstStatus <- Up
  Kubelet <- MCShortKubelet
  ApiErrors = FALSE
  AtCap = FALSE
  Crashes = TRUE
  Deletes = FALSE
  MaxPods = 1
  MaxInvs = 1
  MaxLogs = 1
INVARIANT PhaseKnown
