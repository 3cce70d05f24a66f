SPECIFICATION FairSpec
CONSTANTS
  Answers = {a1, a2}
  MaxConcurrent = 1
  SendBuffer = 1
  MaxDrops = 0
  AudioBuffer = 1
  Sequences = {1}
  MaxEvents = 0
  MaxFrames = 0
  MaxChunks = 2
  StreamBuffer = 1
INVARIANTS AnswersAreLimited AnswersAreWhole DropsAreBounded TypeOK
PROPERTY AnswersEnd
CHECK_DEADLOCK FALSE
