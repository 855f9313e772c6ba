SPECIFICATION Spec
CONSTANTS
  Files <- MCFiles
  ReadSize = 7
  Margin = 2
  Contexts = 3
INVARIANTS TypeOK OffsetsInStep MessagesFound
PROPERTY ScanEnds

