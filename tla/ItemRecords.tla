---------------------------- MODULE ItemRecords ----------------------------
(***************************************************************************)
(* The items service over SQLAlchemy sessions and PostgreSQL: create, get, *)
(* update and delete of items (app/modules/items/service.py) as concurrent *)
(* requests.  A request is one session: it loads rows into objects, flush  *)
(* sends the UPDATE of the columns whose value differs from the loaded     *)
(* one, commit publishes it, refresh reads the row again.                  *)
(*                                                                         *)
(* PostgreSQL runs at its default, READ COMMITTED: a SELECT sees what is   *)
(* committed, an UPDATE waits for the row lock and then applies to the     *)
(* latest committed row.  The user of a request has been authenticated     *)
(* (AuthSessions).  Every request is made once.                            *)
(***************************************************************************)
EXTENDS Integers

CONSTANTS
  Requests, Items, Users,
  Superusers,      \* users whose is_superuser is set
  Fields,          \* updatable columns: title, description
  Required,        \* those that are NOT NULL
  Values, Null,    \* what a column may hold
  NoUser, NoItem, NoRequest,
  Failing          \* which database operations may fail

ASSUME RecordsAssumption ==
  /\ Items # {}
  /\ Superusers \subseteq Users
  /\ Required \subseteq Fields
  /\ Null \notin Values
  /\ NoUser \notin Users
  /\ NoItem \notin Items
  /\ NoRequest \notin Requests
  /\ Failing \subseteq {"statement", "commit", "refresh", "worker"}

VARIABLES
  row,       \* committed rows of table item
  used,      \* ids the sequence has given out; others no client can name
  lock,      \* row lock: the request whose transaction updated the row
  pc, op, user, item,
  body,      \* fields the client sent explicitly (exclude_unset)
  loaded,    \* the object in the session: its columns when it was selected
  dirty,     \* columns flush has written, not yet committed
  answer,
  applied,   \* history: requests whose changes were committed
  held,      \* history: fields whose requested value the row has held since the load
  tombs      \* history: items whose deletion was answered before the request began

rowVars  == <<row, used, lock>>
callVars == <<op, user, item, body>>
history  == <<applied, held, tombs>>
vars == <<rowVars, pc, callVars, loaded, dirty, answer, history>>

Contents == [Fields -> Values \union {Null}]
Bodies == UNION { [F -> Values \union {Null}] : F \in SUBSET Fields }
Blank == [f \in Fields |-> Null]
NoChange == [f \in {} |-> Null]

Rows == [ state : {"absent", "live", "deleted"}, owner : Users \union {NoUser},
          fields : Contents ]
NoRow == [state |-> "absent", owner |-> NoUser, fields |-> Blank]

Answers ==
  { "none", "ok200", "created201", "noContent204", "denied403", "notFound404",
    "error500", "lost" }

TypeOK ==
  /\ row \in [Items -> Rows]
  /\ used \subseteq Items
  /\ lock \in [Items -> Requests \union {NoRequest}]
  /\ pc \in [Requests -> {"new", "load", "insert", "flush", "commit", "refresh", "done"}]
  /\ op \in [Requests -> {"none", "create", "get", "update", "delete"}]
  /\ user \in [Requests -> Users \union {NoUser}]
  /\ item \in [Requests -> Items \union {NoItem}]
  /\ body \in [Requests -> Bodies]
  /\ loaded \in [Requests -> Contents]
  /\ dirty \in [Requests -> Bodies]
  /\ answer \in [Requests -> Answers]
  /\ applied \subseteq Requests
  /\ held \in [Requests -> SUBSET Fields]
  /\ tombs \in [Requests -> SUBSET Items]

\* Columns of a stored row are complete where NOT NULL.
Complete(c) == \A f \in Required : c[f] # Null

Init ==
  /\ row \in [Items -> {NoRow} \union
                [ state : {"live"}, owner : Users,
                  fields : {c \in Contents : Complete(c)} ]]
  /\ used = {i \in Items : row[i] # NoRow}
  /\ lock = [i \in Items |-> NoRequest]
  /\ pc = [r \in Requests |-> "new"]
  /\ op = [r \in Requests |-> "none"]
  /\ user = [r \in Requests |-> NoUser]
  /\ item = [r \in Requests |-> NoItem]
  /\ body = [r \in Requests |-> NoChange]
  /\ loaded = [r \in Requests |-> Blank]
  /\ dirty = [r \in Requests |-> NoChange]
  /\ answer = [r \in Requests |-> "none"]
  /\ applied = {}
  /\ held = [r \in Requests |-> {}]
  /\ tombs = [r \in Requests |-> {}]

-----------------------------------------------------------------------------
(* Helpers.                                                                *)

Goto(r, step) ==
  /\ pc' = [pc EXCEPT ![r] = step]
  /\ UNCHANGED answer

\* The session is closed: what was not committed is rolled back.
Answer(r, a) ==
  /\ pc' = [pc EXCEPT ![r] = "done"]
  /\ answer' = [answer EXCEPT ![r] = a]

\* Faulty variant: the session is never closed, its locks are kept.
StillLocked(r) == lock

\* The transaction of r ends, with its row locks.
Unlocked(r) == [i \in Items |-> IF lock[i] = r THEN NoRequest ELSE lock[i]]

\* Faulty variant: fields sent as null are left out (exclude_none).
ChangedNotNull(r) ==
  [ f \in { g \in DOMAIN body[r] : body[r][g] \notin {loaded[r][g], Null} } |-> body[r][f] ]

\* setattr of every field sent, as seen by the unit of work: only a column
\* whose value differs from the loaded one is in the UPDATE.
ChangedColumns(r) ==
  [ f \in { g \in DOMAIN body[r] : body[r][g] # loaded[r][g] } |-> body[r][f] ]

\* The latest committed row with this transaction's columns applied.
Merged(c, change) == [ f \in Fields |-> IF f \in DOMAIN change THEN change[f] ELSE c[f] ]

\* Fields whose requested value these columns hold.
Matching(r, c) == { f \in DOMAIN body[r] : body[r][f] = c[f] }

\* The sequence gives a create its id here and not with the INSERT: no other
\* request can tell.
Begin(r, o, u, i, b) ==
  /\ pc[r] = "new"
  /\ used' = used \union {i}
  /\ op' = [op EXCEPT ![r] = o]
  /\ user' = [user EXCEPT ![r] = u]
  /\ item' = [item EXCEPT ![r] = i]
  /\ body' = [body EXCEPT ![r] = b]
  /\ tombs' = [tombs EXCEPT ![r] =
       { item[s] : s \in { t \in Requests : answer[t] = "noContent204" } }]
  /\ Goto(r, IF o = "create" THEN "insert" ELSE "load")
  /\ UNCHANGED <<row, lock, loaded, dirty, applied, held>>

-----------------------------------------------------------------------------
(* The steps of a session.                                                 *)

\* Faulty variant: soft-deleted rows are found too.
FoundInTable(r) == row[item[r]].state # "absent"

\* RepositoryBase.get: by id, deleted_at IS NULL.
Found(r) == row[item[r]].state = "live"

\* Faulty variant: any user may touch any item.
MayTouchAny(r) == user[r] \in Users

\* _check_owner.
MayTouch(r) == user[r] \in Superusers \/ row[item[r]].owner = user[r]

\* _get_item_or_404 and _check_owner, then the end of a get.
Load(r) ==
  /\ pc[r] = "load"
  /\ \/ ~Found(r) /\ Answer(r, "notFound404") /\ UNCHANGED <<loaded, held>>
     \/ Found(r) /\ ~MayTouch(r) /\ Answer(r, "denied403") /\ UNCHANGED <<loaded, held>>
     \/ /\ Found(r) /\ MayTouch(r)
        /\ loaded' = [loaded EXCEPT ![r] = row[item[r]].fields]
        /\ held' = [held EXCEPT ![r] = Matching(r, row[item[r]].fields)]
        /\ IF op[r] = "get" THEN Answer(r, "ok200") ELSE Goto(r, "flush")
  /\ UNCHANGED <<rowVars, callVars, dirty, applied, tombs>>

\* item_repository.create.
Insert(r) ==
  /\ pc[r] = "insert"
  /\ lock' = [lock EXCEPT ![item[r]] = r]
  /\ dirty' = [dirty EXCEPT ![r] = body[r]]
  /\ Goto(r, "commit")
  /\ UNCHANGED <<row, used, callVars, loaded, history>>

\* item_repository.update: no UPDATE is sent when no column has changed, and
\* NOT NULL is checked before the row lock is asked for.
FlushUpdate(r) ==
  /\ pc[r] = "flush" /\ op[r] = "update"
  /\ LET changed == ChangedColumns(r)
     IN \/ /\ DOMAIN changed = {}
           /\ Goto(r, "commit") /\ UNCHANGED <<lock, dirty>>
        \/ /\ \E f \in Required \intersect DOMAIN changed : changed[f] = Null
           /\ Answer(r, "error500") /\ UNCHANGED <<lock, dirty>>
        \/ /\ DOMAIN changed # {}
           /\ \A f \in Required \intersect DOMAIN changed : changed[f] # Null
           /\ lock[item[r]] = NoRequest
           /\ lock' = [lock EXCEPT ![item[r]] = r]
           /\ dirty' = [dirty EXCEPT ![r] = changed]
           /\ Goto(r, "commit")
  /\ UNCHANGED <<row, used, callVars, loaded, history>>

\* item_repository.soft_delete: deleted_at always differs from the loaded None.
FlushDelete(r) ==
  /\ pc[r] = "flush" /\ op[r] = "delete"
  /\ lock[item[r]] = NoRequest
  /\ lock' = [lock EXCEPT ![item[r]] = r]
  /\ Goto(r, "commit")
  /\ UNCHANGED <<row, used, callVars, loaded, dirty, history>>

\* Faulty variant: an update writes back the whole object it had loaded.
PublishedObject(r) ==
  CASE op[r] = "create" ->
         [state |-> "live", owner |-> user[r], fields |-> dirty[r]]
    [] op[r] = "update" ->
         [row[item[r]] EXCEPT !.state = "live", !.fields = Merged(loaded[r], dirty[r])]
    [] OTHER -> [row[item[r]] EXCEPT !.state = "deleted"]

\* The row that the commit of r publishes.
Published(r) ==
  CASE op[r] = "create" ->
         [state |-> "live", owner |-> user[r], fields |-> dirty[r]]
    [] op[r] = "update" ->
         [row[item[r]] EXCEPT !.fields = Merged(@, dirty[r])]
    [] OTHER -> [row[item[r]] EXCEPT !.state = "deleted"]

\* COMMIT makes it the row that every later statement sees.
Publish(r) ==
  /\ row' = [row EXCEPT ![item[r]] = Published(r)]
  /\ held' = [s \in Requests |->
       IF item[s] = item[r] /\ pc[s] \in {"flush", "commit", "refresh"}
       THEN held[s] \union Matching(s, Published(r).fields) ELSE held[s]]
  /\ applied' = applied \union {r}

\* safe_commit after a delete, the commit of commit_and_refresh otherwise.
Commit(r) ==
  /\ pc[r] = "commit"
  /\ Publish(r)
  /\ lock' = Unlocked(r)
  /\ IF op[r] = "delete" THEN Answer(r, "noContent204") ELSE Goto(r, "refresh")
  /\ UNCHANGED <<used, callVars, loaded, dirty, tombs>>

\* session.refresh: a SELECT by primary key alone, deleted or not.
Refresh(r) ==
  /\ pc[r] = "refresh"
  /\ Answer(r, IF op[r] = "create" THEN "created201" ELSE "ok200")
  /\ UNCHANGED <<rowVars, callVars, loaded, dirty, history>>

-----------------------------------------------------------------------------
(* Failures.                                                               *)

\* A statement raises before the commit: the transaction is rolled back.
StatementError(r) ==
  /\ "statement" \in Failing
  /\ pc[r] \in {"load", "insert", "flush"}
  /\ Answer(r, "error500")
  /\ UNCHANGED <<rowVars, callVars, loaded, dirty, history>>

\* COMMIT raises: it was refused, or it was done and its reply lost.
CommitError(r) ==
  /\ "commit" \in Failing
  /\ pc[r] = "commit"
  /\ \/ Publish(r) \/ UNCHANGED <<row, held, applied>>
  /\ lock' = Unlocked(r)
  /\ Answer(r, "error500")
  /\ UNCHANGED <<used, callVars, loaded, dirty, tombs>>

\* The SELECT of session.refresh raises; the rollback that follows has
\* nothing left to undo.
RefreshError(r) ==
  /\ "refresh" \in Failing
  /\ pc[r] = "refresh"
  /\ Answer(r, "error500")
  /\ UNCHANGED <<rowVars, callVars, loaded, dirty, history>>

\* The worker process is killed: the server rolls its transaction back.
WorkerKilled(r) ==
  /\ "worker" \in Failing
  /\ pc[r] \notin {"new", "done"}
  /\ lock' = Unlocked(r)
  /\ Answer(r, "lost")
  /\ UNCHANGED <<row, used, callVars, loaded, dirty, history>>

-----------------------------------------------------------------------------
\* The calls a client can make: a create sends every column, an update any.
Call(r) ==
  \E u \in Users :
    \/ \E i \in Items \ used, b \in Contents : Complete(b) /\ Begin(r, "create", u, i, b)
    \/ \E i \in used, b \in Bodies : Begin(r, "update", u, i, b)
    \/ \E i \in used, o \in {"get", "delete"} : Begin(r, o, u, i, NoChange)

Proceed(r) ==
  \/ Load(r) \/ Insert(r) \/ FlushUpdate(r) \/ FlushDelete(r)
  \/ Commit(r) \/ Refresh(r)

Failure(r) ==
  StatementError(r) \/ CommitError(r) \/ RefreshError(r) \/ WorkerKilled(r)

Next == \E r \in Requests : Call(r) \/ Proceed(r) \/ Failure(r)

Spec == Init /\ [][Next]_vars

\* PostgreSQL grants a free row lock, and a session that can go on does.
Fairness == \A r \in Requests : WF_vars(Proceed(r))

FairSpec == Spec /\ Fairness

-----------------------------------------------------------------------------
(* What the item requests promise.                                         *)

\* A deleted item never comes back, whatever update had loaded it before the
\* DELETE (items/service.py:38-42): the UPDATE names the changed columns only
\* and deleted_at is none of them.
DeletedStaysDeleted ==
  [][ \A i \in Items : row[i].state = "deleted" => row'[i].state = "deleted" ]_vars

\* No lost update across columns: a column changes only by a commit of a
\* request whose body sent that column, so a request that loaded the row
\* earlier never puts an old value back (items/service.py:40, exclude_unset).
OnlyAskedColumnsChange ==
  [][ \A i \in Items, f \in Fields :
        row[i].fields[f] # row'[i].fields[f] =>
          \E r \in applied' \ applied : item'[r] = i /\ f \in DOMAIN body[r] ]_vars

\* A row is changed only for a user who may change it at that moment, although
\* the owner is checked at the load and the row is written at the commit; and
\* it keeps its owner and its place in the table (items/service.py:16-20).
OnlyPermittedChange ==
  [][ \A i \in Items :
        row[i].state # "absent" /\ row'[i] # row[i] =>
          /\ row'[i].owner = row[i].owner /\ row'[i].state # "absent"
          /\ \E r \in applied' \ applied :
               item[r] = i /\ (user[r] \in Superusers \/ user[r] = row[i].owner) ]_vars

\* An update answered 200 was real: each value it sent was in the table at
\* some moment between its load and its answer, even when flush skipped the
\* column because the loaded value was the same (repositories/base.py:78-82).
UpdateTookEffect ==
  \A r \in Requests :
    op[r] = "update" /\ answer[r] = "ok200" => held[r] = DOMAIN body[r]

\* An item whose deletion was answered before a request began is gone for
\* that request: it is told 404 (items/service.py:10-14, base.py:40-45).
GoneAfterDelete ==
  \A r \in Requests : item[r] \in tombs[r] => answer[r] \notin {"ok200", "noContent204", "denied403"}

\* What Proceed waits for: a flush that sends no statement waits for no lock.
CanProceed(r) ==
  \/ pc[r] \in {"load", "insert", "commit", "refresh"}
  \/ pc[r] = "flush" /\ lock[item[r]] = NoRequest
  \/ /\ pc[r] = "flush" /\ op[r] = "update"
     /\ \/ DOMAIN ChangedColumns(r) = {}
        \/ \E f \in Required \intersect DOMAIN ChangedColumns(r) : ChangedColumns(r)[f] = Null

\* Row locks make no chains, let alone circles: whoever waits for a row waits
\* for a session that has nothing left to do but its commit, and that session
\* holds the lock of no other row (items/service.py:34-47, transaction.py:20).
WaitsAreShort ==
  \A r \in Requests :
    pc[r] \notin {"new", "done"} /\ ~CanProceed(r) =>
      \E s \in Requests :
        /\ s # r /\ lock[item[r]] = s /\ pc[s] = "commit"
        /\ \A i \in Items : lock[i] = s => i = item[r]

\* Every request is answered, those that wait for a row lock included.
EveryRequestAnswered ==
  \A r \in Requests : pc[r] # "new" ~> pc[r] = "done"

-----------------------------------------------------------------------------
(* Why they hold: the inductive invariant.                                 *)

\* Which operation a request performs follows from its step; it is answered
\* only when done, and has changed the table before it refreshes.
StepsFollowOperation ==
  \A r \in Requests :
    /\ pc[r] = "new" <=> op[r] = "none"
    /\ pc[r] # "new" => user[r] \in Users /\ item[r] \in used
    /\ pc[r] = "load" => op[r] \in {"get", "update", "delete"}
    /\ pc[r] = "insert" => op[r] = "create"
    /\ pc[r] = "flush" => op[r] \in {"update", "delete"}
    /\ pc[r] = "commit" => op[r] \in {"create", "update", "delete"}
    /\ pc[r] = "refresh" => op[r] \in {"create", "update"} /\ r \in applied
    /\ pc[r] # "done" => answer[r] = "none"
    /\ r \in applied => pc[r] \in {"refresh", "done"}
    /\ op[r] = "create" => DOMAIN body[r] = Fields

\* An id belongs to one create, and its row appears with that create's commit.
IdsAreFresh ==
  /\ \A i \in Items \ used : row[i].state = "absent"
  /\ \A r, s \in Requests :
       op[r] = "create" /\ op[s] = "create" /\ item[r] = item[s] => r = s
  /\ \A r \in Requests :
       op[r] = "create" /\ pc[r] \in {"insert", "commit"} => row[item[r]].state = "absent"

\* A row that was loaded stays in the table, and its owner does not change.
LoadedRowsStay ==
  \A r \in Requests :
    op[r] \in {"update", "delete"} /\ pc[r] \in {"flush", "commit"}
      => row[item[r]].state # "absent" /\ MayTouch(r)

\* What a transaction has written is what was asked for and differed from the
\* loaded object; the values it skipped were in the row when it was loaded.
WritesAreAsked ==
  \A r \in Requests :
    /\ pc[r] \in {"new", "load", "flush"} => dirty[r] = NoChange
    /\ op[r] = "create" /\ pc[r] = "commit" => dirty[r] = body[r]
    /\ op[r] = "update" /\ pc[r] = "commit" => dirty[r] = ChangedColumns(r)
    /\ op[r] = "update" /\ pc[r] \in {"flush", "commit"} =>
         Matching(r, loaded[r]) \subseteq held[r] /\ held[r] \subseteq DOMAIN body[r]
    /\ op[r] = "update" /\ pc[r] = "refresh" => held[r] = DOMAIN body[r]

\* A deletion that was answered is in the table, and no later request has got
\* past loading the item.
TombsAreDeleted ==
  \A r \in Requests :
    /\ answer[r] = "noContent204" => row[item[r]].state = "deleted"
    /\ \A i \in tombs[r] : row[i].state = "deleted"
    /\ item[r] \in tombs[r] => pc[r] \in {"load", "done"}

\* Whoever holds a row lock has only its commit to do, and only its own item.
LockHoldersCommit ==
  \A i \in Items :
    lock[i] # NoRequest => pc[lock[i]] = "commit" /\ item[lock[i]] = i

IInv ==
  /\ TypeOK
  /\ StepsFollowOperation
  /\ IdsAreFresh
  /\ LoadedRowsStay
  /\ WritesAreAsked
  /\ TombsAreDeleted
  /\ UpdateTookEffect
  /\ GoneAfterDelete

-----------------------------------------------------------------------------
(* The store it implements.                                                *)

OrderOf(r) ==
  IF op[r] = "none"
  THEN [op |-> "none", item |-> CHOOSE i \in Items : TRUE, user |-> NoUser, change |-> NoChange]
  ELSE [op |-> op[r], item |-> item[r], user |-> user[r], change |-> body[r]]

OutcomeOf(r) ==
  IF answer[r] \in {"ok200", "created201", "noContent204"} THEN "acknowledged"
  ELSE IF pc[r] = "done" THEN "failed"
  ELSE IF r \in applied THEN "applied" ELSE "open"

Store ==
  INSTANCE ItemStore WITH
    Values  <- Values \union {Null},
    table   <- row,
    order   <- [r \in Requests |-> OrderOf(r)],
    outcome <- [r \in Requests |-> OutcomeOf(r)]

\* Sessions, locks and partial UPDATEs implement the store: each request
\* changes one row once, atomically and only as asked, and a success is
\* reported only of what is in the table.
ImplementsStore == Store!StoreSpec
=============================================================================
