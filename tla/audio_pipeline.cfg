SPECIFICATION FairSpec
CONSTANTS
  AudioBuffer = 2
  EventBuffer = 2
  MaxChunks = 12
  SocketBuffer = 1
  ServiceKeepsReading = TRUE
  Words <- TwoPhrases
INVARIANTS TypeOK NoPanic PhraseByPhrase
PROPERTIES StreamSpec SendAudioReturns ProviderIsClosed
CHECK_DEADLOCK FALSE
