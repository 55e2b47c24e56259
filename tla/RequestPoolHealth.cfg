\* Can a health check report a database that is up as down?
SPECIFICATION Spec
CONSTANTS
  Requests = {r1, r2, r3}
  Kinds = {"read", "write", "health"}
  Threads = 2
  Connections = 1
SYMMETRY Symmetry
CHECK_DEADLOCK FALSE
INVARIANTS
  HealthTellsTheTruth
