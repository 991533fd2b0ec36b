SPECIFICATION Spec
CONSTANTS
  Sessions <- CommandSessions
  Declared <- DeclaredFlags
  HandlerSteps <- RunHandler
  Unused <- UnusedFlags
  NeedConsent <- Consent
INVARIANTS
  TypeOK ConfirmedBeforeSent NothingDropped OneDocument  EnvironmentFollowed
CHECK_DEADLOCK FALSE
