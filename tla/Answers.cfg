CONSTANTS
  ListCommands <- ListsGiven
  RowCount = 3
  PageRows = 2
  TableRows = 2
  Readers <- ReadersGiven
  FirstRuns <- RunsGiven
  MaxRuns = 3
  MaxEvents = 3
  Histories <- HistoriesGiven
  Activities = {"a", "b"}
  Timers = {"timer"}
  Child = "child"
  Editor = {"e1", "e2"}
  Creator = {"maker"}
  Edits <- EditsGiven
  Creation <- CreationGiven
  Description = {"text", "old text"}
  Namespace = {"ns", "old ns"}
  TaskQueue = {"queue", "old queue"}
  Url = {"url"}
  Initial <- InitialEndpoint
  User = {"u", "v"}
  Changes <- ChangesGiven
  FirstRules <- RulesGiven
  Sizes <- TerminalSizes
  Frames <- FrameShapes
  MaxFrames = 3
SPECIFICATION Spec
INVARIANTS
  TypeOK OutputReadable LastRunShown StateMatchesHistory
PROPERTIES
  PollAnswered ChangedAsSeen
CHECK_DEADLOCK FALSE
