CONSTANTS
  Clients = {k1, k2}
  NGrams = {"a", "b"}
  MaxErrors = 1
  MaxFaults = 1
  Score <- MCScore
  Newlines <- MCNewlines
  Settings <- MCSettings
SPECIFICATION Spec
INVARIANTS
  ScoresTrue
  ConnsOwned
PROPERTIES
  ServerResponds
CHECK_DEADLOCK FALSE
