SPECIFICATION FailoverSpec
CONSTANTS
  max = 1
  Creators = {"PodWatcher", "EphemeralRunnerWatcher"}
  Names = {"pod-a", "er-c"}
  Owner <- MCOwner
  OutsideDeletes = FALSE
  MaxLost = 0
PROPERTY OvershootByMissed
