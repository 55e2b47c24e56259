\* Can an exhausted pool fail a request whose change is committed?
SPECIFICATION Spec
CONSTANTS
  Requests = {r1, r2, r3}
  Kinds = {"read", "write", "health"}
  Threads = 2
  Connections = 1
SYMMETRY Symmetry
CHECK_DEADLOCK FALSE
INVARIANTS
  FailureRollsBack
