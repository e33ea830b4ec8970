SPECIFICATION FairSpec
CONSTANTS
  PodStatuses <- MCShort
  FirstStatus <- Up
  Kubelet <- MCShortKubelet
  ApiErrors = TRUE
  AtCap = TRUE
  Crashes = FALSE
  Deletes = TRUE
  MaxPods = 1
  MaxInvs = 2
  MaxLogs = 1
INVARIANT TypeOK
PROPERTIES NothingTakenBack DeletionNotBlocked CollectingEnds
