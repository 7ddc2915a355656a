SPECIFICATION FairSpec
CONSTANTS
  Socket = {"a", "b"}
  NoSocket = "none"
  MaxEvents = 4
  MaxAsleep = 2
  Backoff = FALSE
INVARIANT OneClient
INVARIANT StatusIsTrue
INVARIANT NoStandstill
PROPERTY KeepsTrying
