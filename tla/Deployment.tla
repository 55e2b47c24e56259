---------------------------- MODULE Deployment ----------------------------
(***************************************************************************)
(* The replicas of the program (scripts/entrypoint.sh, restart: always) on *)
(* an empty database, and the requests they serve.  A container migrates   *)
(* the schema, runs bootstrap_db, which looks for the first superuser and  *)
(* creates it by a session of UserAccounts, and then serves; when one of   *)
(* these commands fails it exits (set -e) and is started again.            *)
(* Replicas start together, and crash.                                     *)
(***************************************************************************)
EXTENDS UserAccounts, Naturals

CONSTANTS
  FirstPassword,   \* "strong" or "weak": FIRST_SUPERUSER_PASSWORD
  MaxFaults,       \* bound: how many times a statement or a process fails
  MaxEdits         \* bound: how many times the administrator edits a row

ASSUME DeploymentAssumption ==
  /\ FirstPassword \in {"strong", "weak"}
  /\ MaxFaults \in Nat
  /\ MaxEdits \in Nat

VARIABLES
  schema,    \* the tables of revision 0001 are committed
  phase,     \* what each container is doing
  faults,    \* failures so far
  edits      \* edits so far

deployVars == <<schema, phase, faults, edits>>
vars == <<accountVars, deployVars>>

Phases == {"down", "revision", "tables", "version", "find", "create", "serving"}

TypeOK ==
  /\ AccountsTypeOK
  /\ schema \in BOOLEAN
  /\ phase \in [Replicas -> Phases]
  /\ faults \in 0..MaxFaults
  /\ edits \in 0..MaxEdits

Init ==
  /\ AccountsInit
  /\ schema = FALSE
  /\ phase = [p \in Replicas |-> "down"]
  /\ faults = 0
  /\ edits = 0

-----------------------------------------------------------------------------
(* A container's start, in the order of entrypoint.sh.                     *)

Enter(p, step) == phase' = [phase EXCEPT ![p] = step]

Start(p) ==
  /\ phase[p] = "down"
  /\ Enter(p, "revision")
  /\ UNCHANGED <<accountVars, schema, faults, edits>>

\* Faulty variant: the schema is created whatever the revision.
IgnoreRevision(p) ==
  /\ phase[p] = "revision"
  /\ Enter(p, "tables")
  /\ UNCHANGED <<accountVars, schema, faults, edits>>

\* alembic upgrade head reads the revision of the database.
ReadRevision(p) ==
  /\ phase[p] = "revision"
  /\ Enter(p, IF schema THEN "find" ELSE "tables")
  /\ UNCHANGED <<accountVars, schema, faults, edits>>

\* Replicas whose CREATE TABLEs are not yet committed.
Migrating == { p \in Replicas : phase[p] = "version" }

\* upgrade: one transaction, whose CREATE TABLE waits for another's, and
\* fails when that one commits.
CreateTables(p) ==
  /\ phase[p] = "tables"
  /\ Migrating = {}
  /\ Enter(p, IF schema THEN "down" ELSE "version")
  /\ UNCHANGED <<accountVars, schema, faults, edits>>

CommitSchema(p) ==
  /\ phase[p] = "version"
  /\ schema' = TRUE
  /\ Enter(p, "find")
  /\ UNCHANGED <<accountVars, faults, edits>>

\* Faulty variant: the superuser is left to be created later.
FindAndServe(p) ==
  /\ phase[p] = "find"
  /\ Enter(p, "serving")
  /\ UNCHANGED <<accountVars, schema, faults, edits>>

\* bootstrap_db.main: skip, or create_superuser in the same session.
FindSuperuser(p) ==
  /\ phase[p] = "find"
  /\ \/ Registered(FirstSuperuser) /\ Enter(p, "serving") /\ UNCHANGED accountVars
     \/ /\ ~Registered(FirstSuperuser)
        /\ Enter(p, "create")
        /\ Begin(p, [NoCall EXCEPT !.op = "superuser", !.name = FirstSuperuser,
                                   !.password = FirstPassword], "check")
  /\ UNCHANGED <<schema, faults, edits>>

\* Faulty variant: without set -e the script goes on after a failure.
BootEndsAnyhow(p) ==
  /\ phase[p] = "create" /\ pc[p] = "done"
  /\ Enter(p, "serving")
  /\ pc' = [pc EXCEPT ![p] = "new"]
  /\ call' = [call EXCEPT ![p] = NoCall]
  /\ answer' = [answer EXCEPT ![p] = "none"]
  /\ UNCHANGED <<table, loaded, schema, faults, edits>>

\* The process of bootstrap_db ends, and its session with it.
BootEnds(p) ==
  /\ phase[p] = "create" /\ pc[p] = "done"
  /\ Enter(p, IF answer[p] = "created201" THEN "serving" ELSE "down")
  /\ pc' = [pc EXCEPT ![p] = "new"]
  /\ call' = [call EXCEPT ![p] = NoCall]
  /\ answer' = [answer EXCEPT ![p] = "none"]
  /\ UNCHANGED <<table, loaded, schema, faults, edits>>

Boot(p) ==
  \/ Start(p) \/ ReadRevision(p) \/ CreateTables(p) \/ CommitSchema(p)
  \/ FindSuperuser(p) \/ BootEnds(p)

-----------------------------------------------------------------------------
(* Failures and requests.                                                  *)

\* A container is killed outside a session of bootstrap_db.
Crash(p) ==
  /\ phase[p] \notin {"down", "create"}
  /\ faults < MaxFaults
  /\ faults' = faults + 1
  /\ Enter(p, "down")
  /\ UNCHANGED <<accountVars, schema, edits>>

SessionFails(s) ==
  /\ faults < MaxFaults
  /\ faults' = faults + 1
  /\ Fault(s)
  /\ UNCHANGED <<schema, phase, edits>>

\* POST /auth/signup and PUT /users/me reach a replica that serves.
Request(r) ==
  /\ \E p \in Replicas : phase[p] = "serving"
  /\ \/ \E n \in Names, w \in {"strong", "weak"} :
          Begin(r, [NoCall EXCEPT !.op = "signup", !.name = n, !.password = w], "check")
     \/ \E a \in table, w \in Passwords :
          Begin(r, [NoCall EXCEPT !.op = "profile", !.account = a.id, !.password = w], "load")
  /\ UNCHANGED deployVars

Step(s) == Proceed(s) /\ UNCHANGED deployVars

Administer ==
  /\ edits < MaxEdits
  /\ edits' = edits + 1
  /\ \E a \in table : SoftDelete(a) \/ SetActive(a)
  /\ UNCHANGED <<schema, phase, faults>>

Next ==
  \/ \E p \in Replicas : Boot(p) \/ Crash(p)
  \/ \E r \in Requests : Request(r)
  \/ \E s \in Sessions : Step(s) \/ SessionFails(s)
  \/ Administer

Spec == Init /\ [][Next]_vars

\* While some command or statement can go on, or a container that has exited
\* can be started again, one of them does.
Progress == (\E p \in Replicas : Boot(p)) \/ (\E s \in Sessions : Step(s))

Fairness == WF_vars(Progress)

FairSpec == Spec /\ Fairness

-----------------------------------------------------------------------------
(* What accounts and replicas promise.                                     *)

\* Two sessions that both find a name free (users/service.py:14) never both
\* give it: a name is in the table once, soft-deleted accounts included.
OneAccountPerName ==
  \A a, b \in table : a.name = b.name => a = b

\* The superuser's name is never an ordinary account's, and no other account
\* is a superuser: no request is served before the row is there, and that row
\* keeps the name even when it is soft-deleted (entrypoint.sh:5-13).
SuperuserNameReserved ==
  \A a \in table :
    /\ a.name = FirstSuperuser <=> a.id \in Replicas
    /\ a.is_superuser <=> a.id \in Replicas

\* Concurrent signups for one name cannot all be refused: who is told 409, or
\* gets the 500 of the UNIQUE index, lost to an account that exists, and who
\* is told 201 has it (users/service.py:15, :29).
SomeoneHasTheName ==
  \A r \in Requests :
    /\ answer[r] \in {"conflict409", "duplicate500"} =>
         \E a \in table : a.name = call[r].name /\ a.id # r
    /\ answer[r] = "created201" => \E a \in table : a.name = call[r].name /\ a.id = r

\* What the administrator decides stays: no session removes an account, or
\* changes its name, its deletion, its activation or its privilege, though a
\* profile update holds an object loaded before (users/service.py:48).
SessionsKeepAdminColumns ==
  [][ pc' # pc =>
        \A a \in table : \E b \in table' : b = [a EXCEPT !.hash = b.hash] ]_vars

\* A password changes only to a strong one, and only by the commit of a
\* session that was asked to change this account's: an update of the full
\* name alone never puts an older hash back (users/service.py:41-46).
OnlyAskedPasswordsChange ==
  [][ \A a \in table, b \in table' :
        a.id = b.id /\ a.hash # b.hash =>
          /\ pc[b.hash] = "commit" /\ pc'[b.hash] # "commit"
          /\ call[b.hash].account = a.id
          /\ call[b.hash].password = "strong" ]_vars

\* The superuser's row is there, but not as this replica's session made it:
\* another replica's, or one that the administrator has deleted.
LostSuperuser(p) ==
  \E a \in table : a.name = FirstSuperuser /\ (a.id # p \/ a.deleted)

\* A container is never restarted for nothing: it was killed, or a statement
\* of its bootstrap_db failed, or the configured password is weak, or it lost
\* the migration or the superuser's name to another replica, or that name is
\* a deleted account's (entrypoint.sh:2-13, bootstrap_db.py:14-24).
RestartsHaveCause ==
  [][ \A p \in Replicas :
        phase[p] # "down" /\ phase'[p] = "down" =>
          \/ faults' > faults
          \/ phase[p] = "tables" /\ schema /\ Replicas # {p}
          \/ /\ phase[p] = "create"
             /\ \/ answer[p] = "failed" /\ faults > 0
                \/ answer[p] = "invalid400" /\ FirstPassword = "weak"
                \/ answer[p] \in {"conflict409", "duplicate500"} /\ LostSuperuser(p) ]_vars

\* What the steps of Progress wait for: locks of the schema, of the index and
\* of rows.
CanBoot(p) ==
  \/ phase[p] \in {"down", "revision", "version"}
  \/ phase[p] = "tables" /\ Migrating = {}
  \/ phase[p] = "find" /\ pc[p] = "new"
  \/ phase[p] = "create" /\ pc[p] = "done"

CanStep(s) ==
  \/ pc[s] \in {"load", "commit", "refresh"}
  \/ pc[s] = "check" /\ (Registered(call[s].name) \/ call[s].password \in {"strong", "weak"})
  \/ pc[s] = "insert" /\ Inserting(call[s].name) = {}
  \/ /\ pc[s] = "flush"
     /\ call[s].password \in {"weak", "null", "unsent"} \/ Updating(call[s].account) = {}

\* Replicas and sessions never block one another for good: when none of them
\* can go on, all replicas serve and all calls are answered.
OnlyServedStandStill ==
  ~ (\E p \in Replicas : CanBoot(p)) /\ ~ (\E s \in Sessions : CanStep(s)) =>
    /\ \A p \in Replicas : phase[p] = "serving"
    /\ \A s \in Sessions : pc[s] \in {"new", "done"}

SuperuserDeleted == \E a \in table : a.name = FirstSuperuser /\ a.deleted

\* Replicas that start together, lose races or crash all come to serve and go
\* on, and whoever waits for another session's INSERT or row lock is answered,
\* unless the superuser was soft-deleted: then bootstrap_db finds no superuser,
\* cannot insert one, and containers restart for ever (bootstrap_db.py:14-24).
EveryoneIsServed ==
  \/ <>[]( /\ \A p \in Replicas : phase[p] = "serving"
           /\ \A r \in Requests : pc[r] \in {"new", "done"} )
  \/ <>SuperuserDeleted

-----------------------------------------------------------------------------
(* Why they hold: the inductive invariant.                                 *)

\* Where a session is says what it was called for; a replica has a session
\* exactly while it creates the superuser.
SessionsFollowCalls ==
  /\ \A s \in Sessions :
       /\ pc[s] = "new" <=> call[s].op = "none"
       /\ pc[s] \in {"check", "insert"} => Creates(s)
       /\ pc[s] \in {"load", "flush"} => call[s].op = "profile"
       /\ pc[s] # "done" => answer[s] = "none"
       /\ answer[s] \in {"created201", "conflict409", "duplicate500"} => Creates(s)
       /\ pc[s] = "commit" /\ call[s].op = "profile" => call[s].password \in {"strong", "unsent"}
       /\ IF Creates(s) THEN call[s].name \in Names ELSE call[s].name = NoName
  /\ \A r \in Requests : call[r].op # "superuser"
  /\ \A p \in Replicas :
       /\ call[p].op \in {"none", "superuser"}
       /\ call[p].op = "superuser" <=> phase[p] = "create"
       /\ call[p].op = "superuser" => call[p].name = FirstSuperuser

\* An INSERT that was accepted is alone with its name until it ends.
InsertsAreAlone ==
  \A s \in Sessions :
    pc[s] = "commit" /\ Creates(s) =>
      /\ ~Indexed(call[s].name)
      /\ \A t \in Sessions :
           pc[t] = "commit" /\ Creates(t) /\ call[t].name = call[s].name => t = s

\* A row was inserted by the session it is named after, which has committed.
RowsHaveMakers ==
  /\ \A a, b \in table : a.id = b.id => a = b
  /\ \A a \in table :
       a.id \in Requests =>
         Creates(a.id) /\ pc[a.id] \in {"refresh", "done"} /\ a.name = call[a.id].name
  /\ \A s \in Sessions :
       Creates(s) /\ (pc[s] = "refresh" \/ answer[s] = "created201") =>
         \E a \in table : a.id = s /\ a.name = call[s].name

\* No request, and no serving replica, before the superuser's row.
SuperuserFirst ==
  (\E p \in Replicas : phase[p] = "serving") \/ (\E r \in Requests : pc[r] # "new")
    => Indexed(FirstSuperuser)

\* What bootstrap_db was called with, and what its end tells: until its INSERT
\* its own row can be there only deleted.
BootsHaveCause ==
  \A p \in Replicas :
    /\ phase[p] \in {"tables", "version"} /\ schema => Replicas # {p}
    /\ phase[p] = "create" =>
         /\ call[p].password = FirstPassword
         /\ pc[p] = "done" =>
              answer[p] \in {"created201", "invalid400", "conflict409", "duplicate500", "failed"}
         /\ pc[p] \in {"check", "insert"} => \A a \in table : a.id = p => a.deleted
         /\ answer[p] = "failed" => faults > 0
         /\ answer[p] = "invalid400" => FirstPassword = "weak"
         /\ answer[p] \in {"conflict409", "duplicate500"} => LostSuperuser(p)

IInv ==
  /\ TypeOK
  /\ SessionsFollowCalls
  /\ InsertsAreAlone
  /\ RowsHaveMakers
  /\ SuperuserFirst
  /\ OneAccountPerName
  /\ SuperuserNameReserved
  /\ SomeoneHasTheName

-----------------------------------------------------------------------------
(* The registry it implements.                                             *)

HolderOf(n) ==
  IF Indexed(n) THEN (CHOOSE a \in table : a.name = n).id ELSE NoOne

ToldTo(r) ==
  IF ~Creates(r) \/ answer[r] = "none" THEN "nothing"
  ELSE IF answer[r] = "created201" THEN "yours"
  ELSE IF answer[r] \in {"conflict409", "duplicate500"} THEN "taken" ELSE "failed"

Registry ==
  INSTANCE AccountRegistry WITH
    Applicants <- Requests, Founders <- Replicas, Reserved <- FirstSuperuser,
    Nobody <- NoOne,
    holder <- [n \in Names |-> HolderOf(n)],
    asked  <- [r \in Requests |-> call[r].name],
    told   <- [r \in Requests |-> ToldTo(r)],
    open   <- { p \in Replicas : phase[p] = "serving" }

\* Sessions, index and restarts implement the registry: a name is given once
\* and atomically, answers agree with it, and nobody is served before the
\* superuser's name is given.
ImplementsRegistry == Registry!RegistrySpec
=============================================================================
