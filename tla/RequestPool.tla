---------------------------- MODULE RequestPool ----------------------------
(***************************************************************************)
(* One worker process under load.  Every sync dependency and endpoint runs *)
(* in a thread of a bounded pool (Starlette's run_in_threadpool, served in *)
(* order of arrival) and every session borrows one connection of the       *)
(* bounded SQLAlchemy QueuePool of app/core/database.py from its first     *)
(* statement to its commit or close.  A request goes through the thread    *)
(* pool several times and keeps its connection while it queues in between. *)
(*                                                                         *)
(* A thread that finds no free connection blocks, in its thread, until one *)
(* is returned or pool_timeout has passed.                                 *)
(***************************************************************************)
EXTENDS Naturals, Sequences, FiniteSets

CONSTANTS
  Requests,
  Kinds,        \* endpoints in use: a subset of {"read", "write", "health"}
  Threads,      \* tokens of the thread limiter (40)
  Connections   \* pool_size + max_overflow (15)

ASSUME PoolAssumption ==
  /\ Kinds \subseteq {"read", "write", "health"}
  /\ IsFiniteSet(Requests)
  /\ Threads \in Nat \ {0}
  /\ Connections \in Nat \ {0}

VARIABLES
  kind,       \* endpoint of each request
  pc,         \* work each request has next
  queue,      \* requests waiting for a thread, oldest first
  running,    \* requests that occupy a thread
  conn,       \* requests whose session holds a connection
  committed,  \* requests whose transaction was committed
  answer

vars == <<kind, pc, queue, running, conn, committed, answer>>

\* get_current_user, the endpoint up to its commit, the refresh after the
\* commit, the validation of the response, sending it; a health check has the
\* stage "health" before the last two.
Stages == {"new", "auth", "endpoint", "refresh", "validate", "send", "health", "done"}

Answers ==
  {"none", "ok200", "unauthorized401", "rejected4xx", "error500", "databaseDown503"}

TypeOK ==
  /\ kind \in [Requests -> Kinds \union {"none"}]
  /\ pc \in [Requests -> Stages]
  /\ queue \in Seq(Requests) /\ Len(queue) <= Cardinality(Requests)
  /\ running \subseteq Requests
  /\ conn \subseteq Requests
  /\ committed \subseteq Requests
  /\ answer \in [Requests -> Answers]

Init ==
  /\ kind = [r \in Requests |-> "none"]
  /\ pc = [r \in Requests |-> "new"]
  /\ queue = <<>>
  /\ running = {}
  /\ conn = {}
  /\ committed = {}
  /\ answer = [r \in Requests |-> "none"]

-----------------------------------------------------------------------------
Goto(r, stage) == pc' = [pc EXCEPT ![r] = stage] /\ UNCHANGED answer

\* run_in_threadpool: the request waits for a thread behind the others.
Enqueue(r) == queue' = Append(queue, r)

\* Faulty variant: the session is left open.
ReleaseNothing(r) == UNCHANGED conn

\* The session of r is closed, or committed: its connection goes back.
Release(r) == conn' = conn \ {r}

\* An answer ends the request: get_session's exit closes its session, in a
\* thread that is not counted against the limit.
Finish(r, a) ==
  /\ pc' = [pc EXCEPT ![r] = "done"]
  /\ answer' = [answer EXCEPT ![r] = a]
  /\ Release(r)

LeaveThread(r) == running' = running \ {r}

\* The stages whose first statement needs a connection.
NeedsConnection(r) ==
  r \in running /\ r \notin conn /\ pc[r] \in {"auth", "refresh", "health"}

-----------------------------------------------------------------------------
Arrive(r, k) ==
  /\ pc[r] = "new"
  /\ kind' = [kind EXCEPT ![r] = k]
  /\ Goto(r, IF k = "health" THEN "health" ELSE "auth")
  /\ Enqueue(r)
  /\ UNCHANGED <<running, conn, committed>>

\* A thread takes the oldest waiting piece of work.
StartThread ==
  /\ queue # <<>> /\ Cardinality(running) < Threads
  /\ running' = running \union {Head(queue)}
  /\ queue' = Tail(queue)
  /\ UNCHANGED <<kind, pc, conn, committed, answer>>

\* QueuePool hands out a connection.
Checkout(r) ==
  /\ NeedsConnection(r)
  /\ Cardinality(conn) < Connections
  /\ conn' = conn \union {r}
  /\ UNCHANGED <<kind, pc, queue, running, committed, answer>>

\* Faulty variant: only the health check's wait is limited.
PoolTimeoutOfProbe(r) ==
  /\ NeedsConnection(r) /\ pc[r] = "health"
  /\ Cardinality(conn) = Connections
  /\ LeaveThread(r)
  /\ Finish(r, "databaseDown503")
  /\ UNCHANGED <<kind, queue, committed>>

\* pool_timeout has passed: sqlalchemy.exc.TimeoutError.  The health endpoint
\* catches it; commit_and_refresh rolls back, which undoes no commit.
PoolTimeout(r) ==
  /\ NeedsConnection(r)
  /\ Cardinality(conn) = Connections
  /\ LeaveThread(r)
  /\ Finish(r, IF pc[r] = "health" THEN "databaseDown503" ELSE "error500")
  /\ UNCHANGED <<kind, queue, committed>>

\* Faulty variant: the thread is kept while the endpoint's work is queued.
AuthenticateInThread(r) ==
  /\ r \in running /\ r \in conn /\ pc[r] = "auth"
  /\ Goto(r, "endpoint") /\ Enqueue(r)
  /\ UNCHANGED <<kind, running, conn, committed>>

\* get_current_user has its row: rejected, or on to the endpoint's thread.
Authenticate(r) ==
  /\ r \in running /\ r \in conn /\ pc[r] = "auth"
  /\ LeaveThread(r)
  /\ \/ Finish(r, "unauthorized401") /\ UNCHANGED queue
     \/ Goto(r, "endpoint") /\ Enqueue(r) /\ UNCHANGED conn
  /\ UNCHANGED <<kind, committed>>

\* A read endpoint: its queries run on the connection already held.
RunRead(r) ==
  /\ r \in running /\ pc[r] = "endpoint" /\ kind[r] = "read"
  /\ LeaveThread(r)
  /\ Goto(r, "validate") /\ Enqueue(r)
  /\ UNCHANGED <<kind, conn, committed>>

\* The endpoint raises before anything is committed: nothing found, not
\* permitted, or a name that the index refuses.
Reject(r) ==
  /\ r \in running /\ pc[r] = "endpoint"
  /\ LeaveThread(r)
  /\ \E a \in {"rejected4xx", "error500"} : Finish(r, a)
  /\ UNCHANGED <<kind, queue, committed>>

\* A write endpoint up to session.commit(), which returns the connection.
RunWrite(r) ==
  /\ r \in running /\ pc[r] = "endpoint" /\ kind[r] = "write"
  /\ Release(r)
  /\ committed' = committed \union {r}
  /\ Goto(r, "refresh")
  /\ UNCHANGED <<kind, queue, running>>

\* session.refresh: a new transaction on a connection checked out again.
RefreshRow(r) ==
  /\ r \in running /\ r \in conn /\ pc[r] = "refresh"
  /\ LeaveThread(r)
  /\ Goto(r, "validate") /\ Enqueue(r)
  /\ UNCHANGED <<kind, conn, committed>>

\* The return value of a sync endpoint is validated in a thread as well.
Validate(r) ==
  /\ r \in running /\ pc[r] = "validate"
  /\ LeaveThread(r)
  /\ Goto(r, "send")
  /\ UNCHANGED <<kind, queue, conn, committed>>

\* The response is sent, then get_session is left and the session closed.
Send(r) ==
  /\ pc[r] = "send"
  /\ Finish(r, "ok200")
  /\ UNCHANGED <<kind, queue, running, committed>>

\* check_database_health: SELECT 1 in a session of its own, which is closed
\* before the answer is made and validated.
CheckHealth(r) ==
  /\ r \in running /\ r \in conn /\ pc[r] = "health"
  /\ LeaveThread(r) /\ Release(r)
  /\ Goto(r, "validate") /\ Enqueue(r)
  /\ UNCHANGED <<kind, committed>>

-----------------------------------------------------------------------------
Work(r) ==
  \/ Authenticate(r) \/ RunRead(r) \/ RunWrite(r) \/ Reject(r) \/ RefreshRow(r)
  \/ Validate(r) \/ Send(r) \/ CheckHealth(r)

Next ==
  \/ StartThread
  \/ \E r \in Requests :
       (\E k \in Kinds : Arrive(r, k)) \/ Checkout(r) \/ PoolTimeout(r) \/ Work(r)

Spec == Init /\ [][Next]_vars

\* Threads take work, threads that can run do run, and a freed connection
\* goes to a waiter.
Progress ==
  /\ WF_vars(StartThread)
  /\ \A r \in Requests : WF_vars(Work(r)) /\ SF_vars(Checkout(r))

\* A wait for a connection ends by pool_timeout if not before.
Timeouts == \A r \in Requests : WF_vars(PoolTimeout(r))

\* A worker whose waits for a connection may last for ever: what needs
\* pool_timeout has Timeouts as a condition of its own.
PatientSpec == Spec /\ Progress

-----------------------------------------------------------------------------
(* What the worker promises.                                               *)

InQueue(r) == \E n \in 1 .. Len(queue) : queue[n] = r

\* Work is neither lost nor done twice between the stages: a request under way
\* waits in the queue once, or runs in one thread, or is sending its answer;
\* so whoever holds a connection waits for a thread at most, never for a
\* connection (transaction.py:20-21 gives the first back before the second).
OnePlaceAtATime ==
  /\ \A m, n \in 1 .. Len(queue) : queue[m] = queue[n] => m = n
  /\ \A r \in Requests : pc[r] \notin {"new", "done"} =>
       /\ pc[r] = "send" <=> ~InQueue(r) /\ r \notin running
       /\ ~(InQueue(r) /\ r \in running)
       /\ r \in conn => pc[r] \in {"endpoint", "validate", "send"} \/ r \in running

\* Nothing leaks (database.py:49-51, FastAPI's exit stack): a request that was
\* answered holds neither a thread, nor a place in the queue, nor a
\* connection, and the pools never lend more than they have.
NothingLeaks ==
  /\ Cardinality(running) <= Threads
  /\ Cardinality(conn) <= Connections
  /\ \A r \in Requests :
       pc[r] \in {"new", "done"} => ~InQueue(r) /\ r \notin running \union conn

UnderWay(r) == pc[r] \notin {"new", "done"}

\* What each action of Progress waits for.
CanStart == queue # <<>> /\ Cardinality(running) < Threads
CanCheckout(r) == NeedsConnection(r) /\ Cardinality(conn) < Connections
CanWork(r) == pc[r] = "send" \/ (r \in running /\ ~NeedsConnection(r))

\* Nothing but pool_timeout can move the worker on.
StandsStill ==
  /\ \E r \in Requests : UnderWay(r)
  /\ ~CanStart
  /\ \A r \in Requests : ~CanWork(r) /\ ~CanCheckout(r)

\* Every thread waits for a connection, every connection for a thread.
Gridlock ==
  /\ Cardinality(running) = Threads
  /\ \A r \in running : NeedsConnection(r)
  /\ Cardinality(conn) = Connections
  /\ \A r \in conn : InQueue(r)

\* Waiting in a circle takes everything the pools have: as long as one thread
\* or one connection is left (database.py:22-25), or one holder of a connection
\* has a thread, somebody gets on without a timeout.
OnlyGridlockStops == StandsStill => Gridlock

\* Every request is answered although connections are held by requests that
\* wait for a thread and threads by requests that wait for a connection, if
\* those waits end (pool_timeout=30, database.py:25).
EveryRequestAnswered ==
  Timeouts => \A r \in Requests : pc[r] # "new" ~> pc[r] = "done"

\* A mutual wait takes as many requests as there are threads and connections.
LightLoad == Cardinality({r \in Requests : UnderWay(r)}) < Threads + Connections

\* With fewer under way at a time nobody needs pool_timeout (40 threads,
\* database.py:22-23): a freed connection or thread comes to everyone.
LightLoadAnswered ==
  []LightLoad => \A r \in Requests : pc[r] # "new" ~> pc[r] = "done"

-----------------------------------------------------------------------------
(* What the documentation says and an exhausted pool refutes.              *)

\* README.md:426, /health checks whether the database is reachable: in this
\* model it always is, and no health check says "database": "down".
HealthTellsTheTruth == \A r \in Requests : answer[r] # "databaseDown503"

\* docs/ARCHITECTURE.md:149: a request that failed has changed nothing.
FailureRollsBack ==
  \A r \in Requests : answer[r] = "error500" => r \notin committed
=============================================================================
