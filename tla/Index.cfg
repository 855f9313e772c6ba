SPECIFICATION Spec
CONSTANTS
  Lists <- MCLists
  ReadSize = 5
  BufSiz = 8
  Workers = 2
  ShortWrites = TRUE
  MaxDigits = 2
  LongMax = 99999
  Spelled <- MCSpelled
  NoFile = NoFile
INVARIANTS WholeLines LoadRight InsideRead
