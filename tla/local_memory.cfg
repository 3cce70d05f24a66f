SPECIFICATION Spec
CONSTANTS
  MaxMessages = 5
  MaxUtterances = 4
  Tokens <- OneEach
  SummaryTokens = 1
  MaxContextTokens = 3
  ShortMemoryTokens = 1
  Summarizers = {k1, k2}
  MaxFaults = 1
INVARIANTS TypeOK NoUtteranceTwice HeldStays
PROPERTY LogSpec
CHECK_DEADLOCK FALSE
