SPECIFICATION FairSpec
CONSTANTS
  MaxLives = 2
  Revisions = {"r1"}
  Specs <- AnyBuild
CHECK_DEADLOCK FALSE
INVARIANTS TypeOK OwnBuildPod GPUFreed 
PROPERTIES ResultKept BuildEnds BuildDeletionEnds
