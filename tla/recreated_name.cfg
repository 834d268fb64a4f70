SPECIFICATION Spec
CONSTANTS
  Dump = {d1, d2}
  NoDump = NoDump
  MaxLives = 2
  MaxCrashes = 0
  Specs <- DefaultSpecs
  Nodes <- UpgradedNode
CHECK_DEADLOCK FALSE
PROPERTY ReentryFindsOwn
