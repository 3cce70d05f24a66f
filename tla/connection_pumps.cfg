SPECIFICATION FairSpec
CONSTANTS
  Answers = {}
  MaxConcurrent = 1
  SendBuffer = 2
  MaxDrops = 1
  AudioBuffer = 1
  Sequences = {0, 1, 2}
  MaxEvents = 2
  MaxFrames = 2
  MaxChunks = 1
  StreamBuffer = 1
INVARIANTS PumpsAreOver TranscriptsAreRecorded OnlyAnswersReuseWait TranscriptsInOrder
PROPERTIES IsCleanedUp SlowClientIsCutOff UseSpec
CHECK_DEADLOCK FALSE
