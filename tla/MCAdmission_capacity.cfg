SPECIFICATION FairSpec
CONSTANTS
  max = 2
  Creators = {"PodWatcher", "EphemeralRunnerWatcher"}
  Names = {"pod-a", "pod-b", "er-c"}
  Owner <- MCOwner
  OutsideDeletes = FALSE
  MaxLost = 0
INVARIANT CounterExact
PROPERTIES RegistrySpec CapacityReturns
