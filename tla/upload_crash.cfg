SPECIFICATION Spec
CONSTANTS
  Dump = {d1, d2}
  NoDump = NoDump
  MaxLives = 1
  MaxCrashes = 1
  Specs <- KubeletTarSpecs
  Nodes <- OldNode
CHECK_DEADLOCK FALSE
PROPERTY CommittedNeverFails
