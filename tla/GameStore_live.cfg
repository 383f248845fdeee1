\* Fair scheduling, no failures: every request ends, and each win scores once.
SPECIFICATION FairSpec
CONSTANTS
  Handlers = {h1, h2}
  MaxInodes = 3
  Leftover <- SomeLeftover
  None = None
  SendCanFail = FALSE
  CanInterrupt = FALSE
INVARIANT ScoredOnce
PROPERTY EveryRequestEnds
