\* LastWorkflowTask in pages of two.
CONSTANTS
  MaxRuns = 1
  MaxEvents = 7
  PageSize = 2
  Option <- LastOptions
SPECIFICATION Spec
INVARIANTS LastTaskIsLast
