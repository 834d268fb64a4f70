SPECIFICATION FairSpec
CONSTANTS
  a100 = a100
  d1 = d1
  d2 = d2
  c1 = c1
  Nodes = {n1}
  NoNode = NoNode
  Values = {a100, d1, d2, c1}
  Empty = Empty
  NoProbe = NoProbe
  Machines <- AllMachines
  Pins <- SomePins
  MaxChanges = 1
  MaxBlind = 2
  MaxEdits = 1
CHECK_DEADLOCK FALSE
INVARIANTS TypeOK LabelTrusted
PROPERTIES SelectedNotRejected LabelCatchesUp
