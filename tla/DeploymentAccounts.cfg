\* Two fair replicas on an empty database and two requests, with one failure.
SPECIFICATION FairSpec
CONSTANTS
  Requests = {r1, r2}
  Replicas = {p1, p2}
  Names = {admin, alice}
  FirstSuperuser = admin
  NoOne = NoOne
  NoName = NoName
  FirstPassword = "strong"
  MaxFaults = 1
  MaxEdits = 1
CHECK_DEADLOCK FALSE
INVARIANTS
  IInv
  OneAccountPerName
  SuperuserNameReserved
  SomeoneHasTheName
PROPERTIES
  RestartsHaveCause
  SessionsKeepAdminColumns
  OnlyAskedPasswordsChange
  ImplementsRegistry
  EveryoneIsServed
