\* Server calls and terminal writes fail, signals arrive at any time; one
\* queue slot.
CONSTANTS
  r = r
  a = a
  b = b
  g = g
  Root = r
  Workflow <- TwoChildren
  History <- AbandonedHistory
  InitialLength <- AbandonedNow
  Archived = {}
  Concurrency = 2
  QueueCap = 1
  Depth <- Unlimited
  FetchAll = TRUE
  FoldStatus = {}
  MayFail = TRUE
  MayInterrupt = TRUE
SPECIFICATION FairSpec
INVARIANTS DoneMeansNoError
PROPERTIES ImplementsSession FailureEnds TraceEnds
