SPECIFICATION Spec
CONSTANTS
  Sources <- MCSources
  Patterns <- MCPatterns
  HeapBytes <- MCHeapBytes
  LowerCase <- MCLowerCase
  MaxMessages = 2
  None = None
INVARIANTS SenderIsFrom
CHECK_DEADLOCK FALSE
