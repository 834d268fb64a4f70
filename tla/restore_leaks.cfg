SPECIFICATION Spec
CONSTANTS
  MaxLives = 1
  MaxCrashes = 0
  Staging = FALSE
  Specs <- PinnedWay
CHECK_DEADLOCK FALSE
INVARIANT TornDownBeforeGone
