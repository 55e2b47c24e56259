----------------------------- MODULE ItemStore -----------------------------
(***************************************************************************)
(* What the items service promises of the item table, with sessions, locks *)
(* and the ORM abstracted away: a request changes one row, at most once,   *)
(* in one step and only as it was asked to; a deleted item stays deleted   *)
(* and keeps its owner, who alone (or a superuser) may touch it; nothing   *)
(* is acknowledged before it is in the table.                              *)
(* ItemRecords implements this specification.                              *)
(***************************************************************************)
CONSTANTS
  Requests, Items, Users,
  Superusers,
  Fields,    \* the updatable columns
  Values,    \* what a column may hold
  NoUser

VARIABLES
  table,     \* the committed row of each item
  order,     \* what each request asks for
  outcome    \* "open", "applied", "acknowledged" or "failed"

storeVars == <<table, order, outcome>>

Contents == [Fields -> Values]
Rows == [ state : {"absent", "live", "deleted"}, owner : Users \union {NoUser},
          fields : Contents ]
Changes == UNION { [F -> Values] : F \in SUBSET Fields }
Orders == [ op : {"none", "create", "get", "update", "delete"},
            item : Items, user : Users \union {NoUser}, change : Changes ]

StoreTypeOK ==
  /\ table \in [Items -> Rows]
  /\ order \in [Requests -> Orders]
  /\ outcome \in [Requests -> {"open", "applied", "acknowledged", "failed"}]

StoreInit ==
  /\ \A i \in Items : table[i].state # "deleted"
  /\ table \in [Items -> Rows]
  /\ \A r \in Requests : order[r].op = "none"
  /\ order \in [Requests -> Orders]
  /\ outcome = [r \in Requests |-> "open"]

\* A request arrives; a create with the id its row will get.
Ask(r) ==
  /\ order[r].op = "none"
  /\ order'[r] \in Orders
  /\ order' = [order EXCEPT ![r] = order'[r]]
  /\ UNCHANGED <<table, outcome>>

\* Rows are touched by their owner or a superuser.
Permitted(o, row) == o.user \in Superusers \/ row.owner = o.user

\* The row a request leaves behind: an update may skip columns that already
\* held the value asked for, and never touches a column it was not given.
Outcomes(o, row) ==
  CASE o.op = "create" /\ row.state = "absent" ->
         { [state |-> "live", owner |-> o.user, fields |-> c] :
             c \in { x \in Contents : \A f \in DOMAIN o.change : x[f] = o.change[f] } }
    [] o.op = "update" /\ row.state # "absent" /\ Permitted(o, row) ->
         { [row EXCEPT !.fields =
             [f \in Fields |-> IF f \in F THEN o.change[f] ELSE row.fields[f]]] :
             F \in SUBSET DOMAIN o.change }
    [] o.op = "delete" /\ row.state # "absent" /\ Permitted(o, row) -> { [row EXCEPT !.state = "deleted"] }
    [] OTHER -> {}

\* The change is made; its success or, when the reply to COMMIT was lost, its
\* failure may be reported with it.
Apply(r) ==
  /\ outcome[r] = "open"
  /\ \E row \in Outcomes(order[r], table[order[r].item]) :
       table' = [table EXCEPT ![order[r].item] = row]
  /\ \E o \in {"applied", "acknowledged", "failed"} : outcome' = [outcome EXCEPT ![r] = o]
  /\ UNCHANGED order

\* A success is reported of what was applied, or of a read.
Acknowledge(r) ==
  /\ \/ outcome[r] = "applied"
     \/ outcome[r] = "open" /\ order[r].op = "get"
  /\ outcome' = [outcome EXCEPT ![r] = "acknowledged"]
  /\ UNCHANGED <<table, order>>

\* A failure is reported, possibly after the change was made.
Fail(r) ==
  /\ order[r].op # "none"
  /\ outcome[r] \in {"open", "applied"}
  /\ outcome' = [outcome EXCEPT ![r] = "failed"]
  /\ UNCHANGED <<table, order>>

StoreNext ==
  \E r \in Requests : Ask(r) \/ Apply(r) \/ Acknowledge(r) \/ Fail(r)

StoreSpec == StoreInit /\ [][StoreNext]_storeVars
=============================================================================
