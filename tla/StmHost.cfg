\* A host that waits for each answer, collects its frames sooner or later and
\* stops the sampler before it transmits.
SPECIFICATION FairSpec
CONSTANTS
  MaxCommand = 3
  Lanes = 2
  RxLanes = 2
  MaxFeed = 3
  Stalls = TRUE
  Prompt = FALSE
  Mixed = FALSE
  FlashFails = FALSE
INVARIANT HeldBackHasACarrier
PROPERTY AnswerSpec
PROPERTY EveryCommandIsAnswered
