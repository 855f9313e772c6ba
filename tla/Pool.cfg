SPECIFICATION FairSpec
CONSTANTS
  Workers = {w1, w2, w3}
  Producers = {p1, p2}
  Main = main
  Jobs = {j1, j2, j3}
  NoJob = NoJob
  Nobody = Nobody
  EagerRelease = FALSE
  SpuriousWakeups = TRUE
INVARIANTS TypeOK JobPlaces CountersExact NoWakeupLost WaitSound
PROPERTIES PoolQuiesces ImplementsTaskPool
