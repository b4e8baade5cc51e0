SPECIFICATION FairStreamSpec
CONSTANTS
  MaxTokens = 5
  CHANNEL = 2
  WINDOW = 2
INVARIANTS
  NormalEndIsComplete
  StreamInv
PROPERTIES
  GenerationEnds
CHECK_DEADLOCK FALSE
