SPECIFICATION Spec
CONSTANTS
  NumWorkers = 2
  Jobs = {j1}
  NoJob = NoJob
  EagerRelease = FALSE
  SpuriousWakeups = FALSE
INVARIANT WorkersDestroyed
CHECK_DEADLOCK FALSE
