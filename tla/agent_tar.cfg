SPECIFICATION Spec
CONSTANTS
  Dump = {d1, d2}
  NoDump = NoDump
  MaxLives = 1
  MaxCrashes = 0
  Specs <- AgentTarSpecs
  Nodes <- UpgradedNode
CHECK_DEADLOCK FALSE
INVARIANT TarFallsBack
