\* More requests than threads, more threads than connections, as many requests
\* as threads and connections together.
SPECIFICATION PatientSpec
CONSTANTS
  Requests = {r1, r2, r3}
  Kinds = {"read", "write", "health"}
  Threads = 2
  Connections = 1
CHECK_DEADLOCK FALSE
INVARIANTS
  OnlyGridlockStops
  NothingLeaks
  OnePlaceAtATime
PROPERTIES
  EveryRequestAnswered
  LightLoadAnswered
