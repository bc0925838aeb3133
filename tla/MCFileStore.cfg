CONSTANTS
  NumWorkers = 2
  NoJob = NoJob
  Requests <- MCRequests
  MaxCaptures = 2
  MaxPackets = 2
  StartTime = 5
  MaxTime = 6
  MaxCrashes = 1
  MaxFaults = 1
  Minute = 6
  MaxBytes = 1
  BatchCount = 2
  BatchSize = 1
  RemoveSource = TRUE
  KeepTime = 3
  MaxTotal = 2
  RecordMax = 1
  RecordFiles = 2
  OldArchives <- MCOldArchives
  OldRecords <- MCOldRecords
SPECIFICATION Spec
INVARIANTS
  TypeOK
  NothingLost
  RecordsKept
PROPERTIES
  PruneExact
  BatchedFilesArchived
CHECK_DEADLOCK FALSE
