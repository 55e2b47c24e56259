\* The answer to an exception that nothing inside the middleware handles.
SPECIFICATION Spec
CONSTANTS
  Requests = {r1, r2}
  Keys = {alice}
  NoKey = NoKey
  NoId = NoId
  NoResponse = NoResponse
  Limit <- TwoPerWindow
  Window = 2
  MaxClock = 1
  MaxLost = 1
SYMMETRY Symmetry
CHECK_DEADLOCK FALSE
INVARIANT
  EveryAnswerCarriesHeaders
