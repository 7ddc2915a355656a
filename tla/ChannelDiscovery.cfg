SPECIFICATION FairSpec
CONSTANTS
  MaxCommand = 2
  QueueLength = 1
  Fifo = 1
  Others = {"WIFI"}
  Overlap = FALSE
  Impatient = FALSE
  StartFails = FALSE
PROPERTY DiscoveryIsAnswered
