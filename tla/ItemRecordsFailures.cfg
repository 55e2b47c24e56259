\* Two fair requests of a plain user and a superuser on one item, with
\* every kind of failure: who waits for the row lock, and what is promised.
SPECIFICATION FairSpec
CONSTANTS
  Requests = {r1, r2}
  Items = {i1}
  Users = {u1, u2}
  Superusers = {u2}
  Fields = {title, description}
  Required = {title}
  Values = {v1}
  Null = Null
  NoUser = NoUser
  NoItem = NoItem
  NoRequest = NoRequest
  Failing = {"statement", "commit", "refresh", "worker"}
CHECK_DEADLOCK FALSE
PROPERTIES
  ImplementsStore
  OnlyPermittedChange
  EveryRequestAnswered
