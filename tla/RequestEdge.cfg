\* Four requests to a route that lets two through in two ticks, or to others.
SPECIFICATION Spec
CONSTANTS
  Requests = {r1, r2, r3, r4}
  Keys = {alice}
  NoKey = NoKey
  NoId = NoId
  NoResponse = NoResponse
  Limit <- TwoPerWindow
  Window = 2
  MaxClock = 2
  MaxLost = 1
SYMMETRY Symmetry
CHECK_DEADLOCK FALSE
INVARIANTS
  IInv
  LogTellsAnswer
  OnlyCrashesAreBare
  SlidingBound
  RefusedForCause
