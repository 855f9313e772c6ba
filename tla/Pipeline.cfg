SPECIFICATION FairSpec
CONSTANTS
  Contexts = 3
  ParseThreads = 2
  Messages = 4
INVARIANTS ClientsKeepOff ParsedRight
PROPERTIES ArrayMovedAlone ParseReturns
