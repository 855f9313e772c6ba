SPECIFICATION FairSpec
CONSTANTS
  NumWorkers = 4
  Jobs = {j1, j2, j3}
  NoJob = NoJob
  EagerRelease = TRUE
  SpuriousWakeups = TRUE
INVARIANTS IInv StopSound
PROPERTIES ReleaseReturns ImplementsTaskPool
CHECK_DEADLOCK FALSE
