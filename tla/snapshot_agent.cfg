SPECIFICATION Spec
CONSTANTS
  Dump = {d1, d2}
  NoDump = NoDump
  MaxLives = 1
  MaxCrashes = 1
  Specs <- AgentSpecs
  Nodes <- UpgradedNode
CHECK_DEADLOCK FALSE
SYMMETRY Sym
INVARIANTS TypeOK DumpedParked CommittedWhole CompletedIsCommitted
