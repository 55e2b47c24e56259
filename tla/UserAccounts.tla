---------------------------- MODULE UserAccounts ----------------------------
(***************************************************************************)
(* The users service (app/modules/users) over the table user: sessions     *)
(* that create an account, for a signup or for the first superuser, and    *)
(* sessions that change a profile.  Creating is a SELECT by username and   *)
(* an INSERT, two statements under READ COMMITTED, against the UNIQUE      *)
(* index that the migration creates: an INSERT waits for the transaction   *)
(* that has inserted the same key, and fails once that key is committed.   *)
(*                                                                         *)
(* The actions say what one session does; Deployment makes a system of     *)
(* them, with the replicas that start the program.                         *)
(***************************************************************************)
CONSTANTS
  Requests,          \* HTTP requests: signup, PUT /users/me
  Replicas,          \* containers, each running bootstrap_db when it starts
  Names, FirstSuperuser,
  NoOne, NoName

Sessions == Requests \union Replicas

ASSUME AccountsAssumption ==
  /\ FirstSuperuser \in Names
  /\ NoName \notin Names
  /\ NoOne \notin Sessions
  /\ Requests \intersect Replicas = {}

VARIABLES
  table,     \* committed rows of table user
  pc,
  call,      \* what the session was asked to do
  loaded,    \* the current_user object of a profile update, as it was selected
  answer

accountVars == <<table, pc, call, loaded, answer>>

\* A session inserts one row, which it names: the id stands for the primary
\* key.  The password hash is named by the session that made it: bcrypt salts
\* each hash, no two are equal.
Rows == [ id : Sessions, name : Names, is_superuser : BOOLEAN,
          is_active : BOOLEAN, deleted : BOOLEAN, hash : Sessions ]

\* A password is strong or weak to validate_password_strength; a profile
\* update may also send null, or none.
Passwords == {"strong", "weak", "null", "unsent"}
Calls == [ op : {"none", "signup", "superuser", "profile"},
           name : Names \union {NoName}, account : Sessions \union {NoOne},
           password : Passwords ]
NoCall == [op |-> "none", name |-> NoName, account |-> NoOne, password |-> "unsent"]

\* "duplicate500": the IntegrityError of the UNIQUE index, which nothing
\* handles.  "failed": any other 500, or no answer at all.
Answers ==
  { "none", "created201", "ok200", "invalid400", "unauthorized401",
    "conflict409", "duplicate500", "failed" }

AccountsTypeOK ==
  /\ table \subseteq Rows
  /\ pc \in [Sessions -> {"new", "check", "insert", "load", "flush", "commit", "refresh", "done"}]
  /\ call \in [Sessions -> Calls]
  /\ loaded \in [Sessions -> SUBSET Rows]
  /\ answer \in [Sessions -> Answers]

AccountsInit ==
  /\ table = {}
  /\ pc = [s \in Sessions |-> "new"]
  /\ call = [s \in Sessions |-> NoCall]
  /\ loaded = [s \in Sessions |-> {}]
  /\ answer = [s \in Sessions |-> "none"]

-----------------------------------------------------------------------------
(* Helpers.                                                                *)

Goto(s, step) ==
  /\ pc' = [pc EXCEPT ![s] = step]
  /\ UNCHANGED <<loaded, answer>>

\* The session is closed, its objects are gone; what it has not committed is
\* rolled back.
Answer(s, a) ==
  /\ pc' = [pc EXCEPT ![s] = "done"]
  /\ loaded' = [loaded EXCEPT ![s] = {}]
  /\ answer' = [answer EXCEPT ![s] = a]

Creates(s) == call[s].op \in {"signup", "superuser"}

\* get_by_username: deleted_at IS NULL.
Registered(n) == \E a \in table : a.name = n /\ ~a.deleted

\* Faulty variant: the index covers the rows that are not deleted.
IndexedIfLive(n) == \E a \in table : a.name = n /\ ~a.deleted

\* The UNIQUE index covers every row, soft-deleted ones included.
Indexed(n) == \E a \in table : a.name = n

\* Sessions whose INSERT of this name is not yet committed.
Inserting(n) == { s \in Sessions : pc[s] = "commit" /\ Creates(s) /\ call[s].name = n }

\* Sessions that hold the lock of this account's row.
Updating(i) == { s \in Sessions : pc[s] = "commit" /\ call[s].op = "profile" /\ call[s].account = i }

\* Sessions begin with their call.
Begin(s, c, step) ==
  /\ pc[s] = "new"
  /\ call' = [call EXCEPT ![s] = c]
  /\ Goto(s, step)
  /\ UNCHANGED table

-----------------------------------------------------------------------------
(* Creating an account.                                                    *)

\* _validate_and_build_user_data.
Check(s) ==
  /\ pc[s] = "check"
  /\ \/ Registered(call[s].name) /\ Answer(s, "conflict409")
     \/ ~Registered(call[s].name) /\ call[s].password = "weak" /\ Answer(s, "invalid400")
     \/ ~Registered(call[s].name) /\ call[s].password = "strong" /\ Goto(s, "insert")
  /\ UNCHANGED <<table, call>>

\* Faulty variant: an INSERT that meets another one is refused at once.
InsertNoWait(s) ==
  /\ pc[s] = "insert"
  /\ IF Indexed(call[s].name) \/ Inserting(call[s].name) # {}
     THEN Answer(s, "duplicate500") ELSE Goto(s, "commit")
  /\ UNCHANGED <<table, call>>

\* RepositoryBase.create: add and flush.
Insert(s) ==
  /\ pc[s] = "insert"
  /\ Inserting(call[s].name) = {}
  /\ IF Indexed(call[s].name) THEN Answer(s, "duplicate500") ELSE Goto(s, "commit")
  /\ UNCHANGED <<table, call>>

\* Faulty variant: create_superuser forgets is_superuser.
NewPlainRow(s) ==
  [ id |-> s, name |-> call[s].name, is_superuser |-> FALSE,
    is_active |-> TRUE, deleted |-> FALSE, hash |-> s ]

\* create_user and create_superuser, with the defaults of User.
NewRow(s) ==
  [ id |-> s, name |-> call[s].name, is_superuser |-> call[s].op = "superuser",
    is_active |-> TRUE, deleted |-> FALSE, hash |-> s ]

-----------------------------------------------------------------------------
(* Changing a profile.                                                     *)

\* get_current_active_user: the row of the token's user, by primary key.
Load(s) ==
  /\ pc[s] = "load"
  /\ \/ \E a \in table :
          /\ a.id = call[s].account /\ ~a.deleted /\ a.is_active
          /\ pc' = [pc EXCEPT ![s] = "flush"]
          /\ loaded' = [loaded EXCEPT ![s] = {a}]
          /\ UNCHANGED answer
     \/ /\ ~ \E a \in table : a.id = call[s].account /\ ~a.deleted /\ a.is_active
        /\ Answer(s, "unauthorized401")
  /\ UNCHANGED <<table, call>>

\* update_user up to the flush.  The schema lets null through and
\* validate_password_strength cannot iterate over it.  Without a password
\* the full name may be unchanged, and then no UPDATE is sent.
Flush(s) ==
  /\ pc[s] = "flush"
  /\ \/ call[s].password = "weak" /\ Answer(s, "invalid400")
     \/ call[s].password = "null" /\ Answer(s, "failed")
     \/ call[s].password = "unsent" /\ Goto(s, "refresh")
     \/ /\ call[s].password \in {"strong", "unsent"}
        /\ Updating(call[s].account) = {}
        /\ Goto(s, "commit")
  /\ UNCHANGED <<table, call>>

\* Faulty variant: the UPDATE writes every column of the loaded object.
ChangedObject(s, a) ==
  LET b == CHOOSE b \in loaded[s] : TRUE
  IN  [b EXCEPT !.hash = IF call[s].password = "strong" THEN s ELSE @]

\* The UPDATE names the hash, if a password was sent, and full_name, which is
\* not modelled; the other columns are those of the latest committed row.
Changed(s, a) == [a EXCEPT !.hash = IF call[s].password = "strong" THEN s ELSE @]

-----------------------------------------------------------------------------
(* The end of either.                                                      *)

\* COMMIT publishes the row.
Committed(s) ==
  IF Creates(s)
  THEN table \union {NewRow(s)}
  ELSE { IF a.id = call[s].account THEN Changed(s, a) ELSE a : a \in table }

\* The commit of commit_and_refresh; it expires the session's objects.
Commit(s) ==
  /\ pc[s] = "commit"
  /\ table' = Committed(s)
  /\ pc' = [pc EXCEPT ![s] = "refresh"]
  /\ loaded' = [loaded EXCEPT ![s] = {}]
  /\ UNCHANGED <<call, answer>>

\* Its refresh: a SELECT by primary key alone, deleted or not.
Refresh(s) ==
  /\ pc[s] = "refresh"
  /\ Answer(s, IF Creates(s) THEN "created201" ELSE "ok200")
  /\ UNCHANGED <<table, call>>

Proceed(s) ==
  Check(s) \/ Insert(s) \/ Load(s) \/ Flush(s) \/ Commit(s) \/ Refresh(s)

\* A statement raises, the process is killed, or COMMIT fails: it was
\* refused, or it was done and its reply lost.
Fault(s) ==
  /\ pc[s] \notin {"new", "done"}
  /\ table' \in IF pc[s] = "commit" THEN {table, Committed(s)} ELSE {table}
  /\ Answer(s, "failed")
  /\ UNCHANGED call

-----------------------------------------------------------------------------
(* The administrator works on the table itself: no endpoint deletes or     *)
(* deactivates a user, but every query minds both.                         *)

\* RepositoryBase.soft_delete.
SoftDelete(a) ==
  /\ ~a.deleted /\ Updating(a.id) = {}
  /\ table' = (table \ {a}) \union {[a EXCEPT !.deleted = TRUE]}
  /\ UNCHANGED <<pc, call, loaded, answer>>

SetActive(a) ==
  /\ Updating(a.id) = {}
  /\ table' = (table \ {a}) \union {[a EXCEPT !.is_active = ~@]}
  /\ UNCHANGED <<pc, call, loaded, answer>>
=============================================================================
