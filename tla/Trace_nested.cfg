\* Complete histories, three levels deep, one of them archived.
CONSTANTS
  r = r
  a = a
  b = b
  g = g
  Root = r
  Workflow <- Nested
  History <- NestedHistory
  InitialLength <- NestedNow
  Archived = {a}
  Concurrency = 2
  QueueCap = 4
  Depth <- Unlimited
  FetchAll = FALSE
  FoldStatus = {"Completed", "Terminated"}
  MayFail = FALSE
  MayInterrupt = FALSE
SPECIFICATION Spec
INVARIANTS TypeOK DoneCoversTree SubmittedOnce SkippedStayFolded
PROPERTIES EndedJobsStayEnded
