\* Can one refresh token be exchanged twice?  A login and two refreshes.
SPECIFICATION Spec
CONSTANTS
  Users = {u1}
  Requests = {r1, r2, r3}
  Pairs = {p1, p2, p3}
  NoUser = NoUser
  NoPair = NoPair
  Root = Root
  Second = 1
  AccessTTL = 1
  RefreshTTL = 2
  MaxTime = 0
  Faults = FALSE
SYMMETRY Symmetry
CHECK_DEADLOCK FALSE
INVARIANTS
  SingleUse
