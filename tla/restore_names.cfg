SPECIFICATION Spec
CONSTANTS
  MaxLives = 2
  MaxCrashes = 0
  Staging = FALSE
  Specs <- InTurn
CHECK_DEADLOCK FALSE
INVARIANTS OwnPodOnly
PROPERTIES RestoreFinal RecordedContainerKilled KeepsRestoreLifecycle
