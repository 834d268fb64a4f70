SPECIFICATION Spec
CONSTANTS
  Dump = {d1, d2}
  NoDump = NoDump
  MaxLives = 1
  MaxCrashes = 1
  Specs <- KubeletSpecs
  Nodes <- OldNode
CHECK_DEADLOCK FALSE
SYMMETRY Sym
INVARIANTS CommittedWhole PublishesRecordedTar
PROPERTIES KubeletPhasesForward KeepsLifecycle
