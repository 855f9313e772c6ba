SPECIFICATION StorageSpec
CONSTANTS
  Lists = {main, aux}
  Threads = {t1, t2}
  Nodes = {n1, n2, n3}
  Items <- MCItems
  Key <- MCKey
  Null = Null
  Nobody = Nobody
  WordBits = 4
  Blocks = 10
  Sizes = {3, 11, 12, 24, 40}
  FileSize = 7
  BufSiz = 3
  PageSize = 2
  MaxEnd = 8
INVARIANTS ListsSound SortSorts SharedOnlyUnmasked BlocksExact RemovedExactly NothingLost OldOrNew
PROPERTIES ImplementsSequences LocksReturned
CHECK_DEADLOCK FALSE
