SPECIFICATION FairSpec
CONSTANTS
  MaxMessages = 4
  Tokens <- OneEach
  SummaryTokens = 1
  MaxContextTokens = 3
  ShortMemoryTokens = 1
  Pump = pump
  Answerers = {a1}
  Api = api
  Workers = {k1}
  MaxFaults = 0
PROPERTY OverLimitIsHandled
CHECK_DEADLOCK FALSE
