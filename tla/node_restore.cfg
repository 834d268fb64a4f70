SPECIFICATION FairSpec
CONSTANTS
  Files = {f1, f2}
  NoFile = NoFile
  Workers = {w1, w2}
  MaxUploads = 1
  MaxDeletes = 1
  MaxRestarts = 1
  Modes <- AgentModes
  StaleModes <- LateModes
CHECK_DEADLOCK FALSE
INVARIANTS TypeOK FilesCommitted FetchedAll StagedReadWhole
PROPERTIES ImagesLast PrefetchEnds RestoredResumes
