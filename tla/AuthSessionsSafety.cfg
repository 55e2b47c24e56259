\* Three requests of two users in every order, each of whom may send the
\* other's refresh token, with Redis errors, killed workers,
\* half-second ticks, expiry of both tokens, accounts that come and go.
SPECIFICATION Spec
CONSTANTS
  Users = {u1, u2}
  Requests = {r1, r2, r3}
  Pairs = {p1, p2, p3}
  NoUser = NoUser
  NoPair = NoPair
  Root = Root
  Second = 2
  AccessTTL = 1
  RefreshTTL = 2
  MaxTime = 2
  Faults = TRUE
SYMMETRY Symmetry
CHECK_DEADLOCK FALSE
INVARIANTS
  IInv
  SessionsEndForCause
  RevocationIsFinal
  RefusedForCause
  ReplacedNotStored
  RejectedStaysRevoked
  OnlyOwnerEndsSession
PROPERTY
  ImplementsLedger
