SPECIFICATION Spec
CONSTANTS
  Capacity = 6
  LaneBytes = 2
  StartFill = 3
  IdleExit = 2
  Timeout = 3
  Hasty = TRUE
  Overlap = TRUE
  Sampling = TRUE
  Failures <- AnyFailure
INVARIANTS
  SilentWhenOver
