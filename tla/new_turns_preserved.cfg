SPECIFICATION Spec
CONSTANTS
  MaxMessages = 4
  Tokens <- OneEach
  SummaryTokens = 1
  MaxContextTokens = 2
  ShortMemoryTokens = 2
  Pump = pump
  Answerers = {}
  Api = api
  Workers = {k1}
  MaxFaults = 0
PROPERTY NewTurnsPreserved
CHECK_DEADLOCK FALSE
