SPECIFICATION Spec
CONSTANTS
  max = 2
  Creators = {"PodWatcher", "EphemeralRunnerWatcher"}
  Names = {"pod-a", "pod-b", "er-c"}
  Owner <- MCOwner
  OutsideDeletes = TRUE
  MaxLost = 1
INVARIANTS TypeOK Accounted
PROPERTY OvershootBounded
