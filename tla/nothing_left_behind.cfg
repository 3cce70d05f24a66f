SPECIFICATION Spec
CONSTANTS
  MaxMessages = 2
  Tokens <- OneEach
  SummaryTokens = 1
  MaxContextTokens = 2
  ShortMemoryTokens = 2
  Pump = pump
  Answerers = {a1}
  Api = api
  Workers = {}
  MaxFaults = 0
INVARIANT NothingLeftBehind
CHECK_DEADLOCK FALSE
