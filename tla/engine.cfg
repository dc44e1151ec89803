\* One call of every kind: three cores, batches around every threshold, a device that comes or
\* goes once.
SPECIFICATION BatchSpec
CONSTANTS
  Cores = 3
  MaxWorkers = 3
  DefaultChunk = 2
  DefaultMinBytes = 4
  DefaultMinItems = 4
  MaxChanges = 1
  Builds <- AllBuilds
  Requests <- Calls
INVARIANTS
  BatchTypeOK
  NoSlotShared
  NoWorkerOutlivesCall
  ReportTruthful
  StrictIsAccelerated
PROPERTY ImplementsHashCall
CHECK_DEADLOCK FALSE
