SPECIFICATION FairSpec
CONSTANTS
  Size = 5
  LaneSize = 2
  Bits = 3
  MaxByte = 10
  Overlap = FALSE
INVARIANTS
  TypeOK
PROPERTIES
  QueueSpec
  EveryByteIsTaken
