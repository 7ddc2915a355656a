SPECIFICATION FairSpec
CONSTANTS
  Capacity = 6
  LaneBytes = 2
  StartFill = 3
  IdleExit = 2
  Timeout = 3
  Hasty = FALSE
  Overlap = FALSE
  Sampling = FALSE
  Failures <- AnyFailure
INVARIANTS
  EverythingIsUndone
  IsMonitored
PROPERTIES
  PlaysBeforeItEnds
  TransmissionEnds
