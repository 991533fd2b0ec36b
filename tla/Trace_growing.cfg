\* Histories grow while the trace runs, or never again; nothing fails; two
\* workers for three executions; --depth 1.
CONSTANTS
  r = r
  a = a
  b = b
  g = g
  Root = r
  Workflow <- Growing
  History <- GrowingHistory
  InitialLength <- GrowingNow
  Archived = {}
  Concurrency = 2
  QueueCap = 3
  Depth = 1
  FetchAll = FALSE
  FoldStatus = {"Completed"}
  MayFail = FALSE
  MayInterrupt = FALSE
SPECIFICATION FairSpec
INVARIANTS TreeInv DoneMeansSettled DoneCoversTree DoneShowsFinalState ParentFirst UpToDateCoversRoot
PROPERTIES EventuallyUpToDate
