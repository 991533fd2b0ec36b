\* Histories of up to two pages of four events, growing under the command.
CONSTANTS
  MaxRuns = 2
  MaxEvents = 7
  PageSize = 4
  Option <- AllOptions
SPECIFICATION Spec
INVARIANTS TypeOK FirstTaskIsFirst LastTaskOfShortHistory PreviousRunAtItsEnd ResetOfRunRead
