SPECIFICATION FairSpec
CONSTANTS
  Workers = {w1, w2}
  Producers = {p1}
  Main = main
  Jobs = {j1, j2}
  NoJob = NoJob
  Nobody = Nobody
  EagerRelease = FALSE
  SpuriousWakeups = FALSE
PROPERTY StopReturns
CHECK_DEADLOCK FALSE
