SPECIFICATION FairSpec
CONSTANTS
  MaxMessages = 3
  Tokens <- OneEach
  SummaryTokens = 1
  MaxContextTokens = 1
  ShortMemoryTokens = 2
  Pump = pump
  Answerers = {}
  Api = api
  Workers = {k1, k2}
  MaxFaults = 2
INVARIANT MutualExclusion
 
CHECK_DEADLOCK FALSE
