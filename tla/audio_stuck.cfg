SPECIFICATION FairSpec
CONSTANTS
  AudioBuffer = 2
  EventBuffer = 2
  MaxChunks = 8
  SocketBuffer = 1
  ServiceKeepsReading = FALSE
  Words <- TwoPhrases
PROPERTY ProviderIsClosed
CHECK_DEADLOCK FALSE
