SPECIFICATION FairSpec
CONSTANTS
  Pods <- MCPods
  Containers <- MCContainers
  Size <- MCSize
  maxBytes = 1
  Undeletable <- MCUndeletable
  MaxTime = 1
  MaxInvs = 1
INVARIANT TypeOK
PROPERTIES LossJustified LimitEnforced
