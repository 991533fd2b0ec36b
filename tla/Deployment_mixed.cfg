\* Concurrent changes of a deployment.
CONSTANTS
  c1 = c1
  c2 = c2
  c3 = c3
  c4 = c4
  c5 = c5
  c6 = c6
  c7 = c7
  Client = {c1, c2, c3, c4, c5, c6, c7}
  Command <- Mixed
  BuildId = {"b1"}
  Identity = {"me", "you"}
  Percent = {0, 10}
  Initial <- Existing
SPECIFICATION Spec
INVARIANTS TypeOK OneWinner ChangesConfirmed
PROPERTIES ImplementsConditionalUpdate
