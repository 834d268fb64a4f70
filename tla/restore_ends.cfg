SPECIFICATION FairSpec
CONSTANTS
  MaxLives = 1
  MaxCrashes = 1
  Staging = FALSE
  Specs <- Ending
CHECK_DEADLOCK FALSE
INVARIANT TypeOK
PROPERTIES RestoreEnds RestoreDeletionEnds DeathNoticed
