SPECIFICATION FairSpec
CONSTANTS
  PodStatuses <- MCRunning
  ERPhases = {}
  Jobs = {}
PROPERTY StuckTerminatingDetected
