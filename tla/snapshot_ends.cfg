SPECIFICATION FairSpec
CONSTANTS
  Dump = {d1}
  NoDump = NoDump
  MaxLives = 1
  MaxCrashes = 1
  Specs <- EndingSpecs
  Nodes <- UpgradedNode
CHECK_DEADLOCK FALSE
PROPERTIES SnapshotEnds DeletionEnds
