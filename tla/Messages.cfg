SPECIFICATION MessagesSpec
CONSTANTS
  Sources <- MCSources
  Patterns <- MCPatterns
  HeapBytes <- MCHeapBytes
  LowerCase <- MCLetters
  MaxMessages = 2
  None = None
  Cases <- MCCases
  LocalOffsets = {0, 3600}
INVARIANTS HeadersFound SenderFound FilterRight InText FieldsRight 
CHECK_DEADLOCK FALSE
