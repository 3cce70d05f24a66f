SPECIFICATION FairSpec
CONSTANTS
  Answers = {a1}
  MaxConcurrent = 1
  SendBuffer = 1
  MaxDrops = 1
  AudioBuffer = 1
  Sequences = {1}
  MaxEvents = 0
  MaxFrames = 0
  MaxChunks = 1
  StreamBuffer = 1
PROPERTY IsCleanedUp
CHECK_DEADLOCK FALSE
