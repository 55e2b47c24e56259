\* Three requests on one item with two columns, in every order.
SPECIFICATION Spec
CONSTANTS
  Requests = {r1, r2, r3}
  Items = {i1}
  Users = {u1}
  Superusers = {}
  Fields = {title, description}
  Required = {}
  Values = {v1}
  Null = Null
  NoUser = NoUser
  NoItem = NoItem
  NoRequest = NoRequest
  Failing = {}
SYMMETRY Symmetry
CHECK_DEADLOCK FALSE
INVARIANTS
  IInv
  WaitsAreShort
  UpdateTookEffect
  GoneAfterDelete
PROPERTIES
  DeletedStaysDeleted
  OnlyAskedColumnsChange
