SPECIFICATION DateSpec
CONSTANTS
  Cases <- WholeCases
  LocalOffsets = {0}
  LowerCase <- MCLetters
INVARIANTS FieldsRead
