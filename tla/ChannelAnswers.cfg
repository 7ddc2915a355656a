SPECIFICATION FairSpec
CONSTANTS
  MaxCommand = 2
  QueueLength = 1
  Fifo = 1
  Others = {"WIFI"}
  Overlap = FALSE
  Impatient = FALSE
  StartFails = FALSE
INVARIANT CommandIsInOnePlace
PROPERTY AnswerSpec
PROPERTY EveryCommandIsAnswered
PROPERTY AnsweredWhileFed
