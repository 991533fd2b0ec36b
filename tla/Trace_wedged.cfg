\* One worker and a queue of one.
CONSTANTS
  r = r
  a = a
  b = b
  g = g
  Root = r
  Workflow <- TwoChildren
  History <- TwoChildrenHistory
  InitialLength <- TwoChildrenNow
  Archived = {}
  Concurrency = 1
  QueueCap = 1
  Depth <- Unlimited
  FetchAll = TRUE
  FoldStatus = {}
  MayFail = FALSE
  MayInterrupt = FALSE
SPECIFICATION Spec
INVARIANTS SubmittersNotWedged
