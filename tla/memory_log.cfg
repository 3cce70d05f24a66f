SPECIFICATION Spec
CONSTANTS
  MaxMessages = 3
  Tokens <- Alternating
  SummaryTokens = 1
  MaxContextTokens = 3
  ShortMemoryTokens = 2
  Pump = pump
  Answerers = {a1}
  Api = api
  Workers = {k1, k2}
  MaxFaults = 1
INVARIANTS TypeOK SummarizesSomeNotAll
PROPERTY LogSpec
CHECK_DEADLOCK FALSE
