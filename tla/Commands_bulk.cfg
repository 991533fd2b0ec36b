SPECIFICATION Spec
CONSTANTS
  Sessions <- BulkUpdates
  Declared <- DeclaredFlags
  HandlerSteps <- RunHandler
  Unused <- UnusedFlags
  NeedConsent <- Consent
INVARIANTS
  MasksCarryValues
CHECK_DEADLOCK FALSE
