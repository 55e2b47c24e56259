------------------------- MODULE RequestPoolProofs -------------------------
(***************************************************************************)
(* Proofs about the worker's pools, for any number of requests, threads    *)
(* and connections.                                                        *)
(***************************************************************************)
EXTENDS RequestPool, FiniteSetTheorems, TLAPS

PoolInv == TypeOK /\ NothingLeaks /\ OnePlaceAtATime

Distinct(q) == \A m, n \in 1 .. Len(q) : q[m] = q[n] => m = n

-----------------------------------------------------------------------------
(* The queue of the thread limiter.                                        *)

\* A queue without repetitions is no longer than there are requests.
LEMMA DistinctIsShort ==
  ASSUME NEW q \in Seq(Requests), Distinct(q)
  PROVE  Len(q) <= Cardinality(Requests)
<1>1. Len(q) \in Nat /\ q \in [1 .. Len(q) -> Requests]
  OBVIOUS
<1>2. q \in Injection(1 .. Len(q), Requests)
  BY <1>1 DEF Distinct, Injection, IsInjective
<1>3. Cardinality(1 .. Len(q)) <= Cardinality(Requests)
  BY <1>2, FS_Injection, PoolAssumption
<1>4. Cardinality(1 .. Len(q)) = Len(q)
  BY <1>1, FS_Interval
<1> QED
  BY <1>3, <1>4

\* Work put in the queue is there besides what was there, and once only.
LEMMA Enqueued ==
  ASSUME queue \in Seq(Requests), NEW q \in Requests, Enqueue(q)
  PROVE  /\ queue' \in Seq(Requests)
         /\ \A r \in Requests : InQueue(r)' <=> InQueue(r) \/ r = q
         /\ Distinct(queue) /\ ~InQueue(q) => Distinct(queue')
<1>1. /\ queue' \in Seq(Requests)
      /\ Len(queue') = Len(queue) + 1
      /\ queue'[Len(queue) + 1] = q
      /\ \A n \in 1 .. Len(queue) : queue'[n] = queue[n]
  BY DEF Enqueue
<1>2. Len(queue) \in Nat
  OBVIOUS
<1>3. \A r \in Requests : InQueue(r)' <=> InQueue(r) \/ r = q
  BY <1>1, <1>2 DEF InQueue
<1>4. ASSUME Distinct(queue), ~InQueue(q) PROVE Distinct(queue')
  BY <1>1, <1>2, <1>4 DEF Distinct, InQueue
<1> QED
  BY <1>1, <1>3, <1>4

\* The oldest work leaves the queue for good, the rest stays.
LEMMA Dequeued ==
  ASSUME queue \in Seq(Requests), Distinct(queue), queue # <<>>, queue' = Tail(queue)
  PROVE  /\ queue' \in Seq(Requests) /\ Distinct(queue')
         /\ Head(queue) \in Requests /\ InQueue(Head(queue))
         /\ \A r \in Requests : InQueue(r)' <=> InQueue(r) /\ r # Head(queue)
<1>1. /\ Len(queue) \in Nat \ {0}
      /\ queue' \in Seq(Requests)
      /\ Len(queue') = Len(queue) - 1
      /\ \A n \in 1 .. Len(queue') : queue'[n] = queue[n + 1]
      /\ Head(queue) = queue[1] /\ Head(queue) \in Requests
  OBVIOUS
<1>2. Distinct(queue')
  BY <1>1 DEF Distinct
<1>3. InQueue(Head(queue))
  BY <1>1 DEF InQueue
<1>4. ASSUME NEW r \in Requests, InQueue(r)' PROVE InQueue(r) /\ r # Head(queue)
  <2>1. PICK n \in 1 .. Len(queue') : queue'[n] = r
    BY <1>4 DEF InQueue
  <2>2. n + 1 \in 1 .. Len(queue) /\ queue[n + 1] = r /\ n + 1 # 1
    BY <1>1, <2>1
  <2> QED
    BY <1>1, <2>2 DEF Distinct, InQueue
<1>5. ASSUME NEW r \in Requests, InQueue(r), r # Head(queue) PROVE InQueue(r)'
  <2>1. PICK n \in 1 .. Len(queue) : queue[n] = r
    BY <1>5 DEF InQueue
  <2>2. n - 1 \in 1 .. Len(queue') /\ queue'[n - 1] = r
    BY <1>1, <1>5, <2>1
  <2> QED
    BY <2>2 DEF InQueue
<1> QED
  BY <1>1, <1>2, <1>3, <1>4, <1>5

-----------------------------------------------------------------------------
(* The pools.                                                              *)

\* Lending one more, while fewer than the limit are lent, respects the limit.
LEMMA LendOne ==
  ASSUME NEW S \in SUBSET Requests, NEW r \in Requests, NEW N \in Nat, Cardinality(S) < N
  PROVE  Cardinality(S \union {r}) <= N
<1>1. IsFiniteSet(S)
  BY PoolAssumption, FS_Subset
<1>2. Cardinality(S) \in Nat
  BY <1>1, FS_CardinalityType
<1>3. Cardinality(S \union {r}) = IF r \in S THEN Cardinality(S) ELSE Cardinality(S) + 1
  BY <1>1, FS_AddElement
<1> QED
  BY <1>2, <1>3

\* Taking one back respects the limit.
LEMMA ReturnOne ==
  ASSUME NEW S \in SUBSET Requests, NEW r, NEW N \in Nat, Cardinality(S) <= N
  PROVE  Cardinality(S \ {r}) <= N
<1>1. IsFiniteSet(S)
  BY PoolAssumption, FS_Subset
<1>2. Cardinality(S) \in Nat /\ Cardinality(S \ {r}) <= Cardinality(S)
  BY <1>1, FS_CardinalityType, FS_Subset
<1>3. IsFiniteSet(S \ {r})
  BY <1>1, FS_Subset
<1>4. Cardinality(S \ {r}) \in Nat
  BY <1>3, FS_CardinalityType
<1> QED
  BY <1>2, <1>4

\* The limits hold after every step.
LEMMA LimitStep ==
  ASSUME PoolInv, Next
  PROVE  Cardinality(running') <= Threads /\ Cardinality(conn') <= Connections
<1> USE DEF PoolInv, TypeOK, NothingLeaks
<1>0. /\ running \in SUBSET Requests /\ conn \in SUBSET Requests
      /\ Threads \in Nat /\ Connections \in Nat
      /\ Cardinality(running) <= Threads /\ Cardinality(conn) <= Connections
  BY PoolAssumption
<1>1. \A r : Cardinality(running \ {r}) <= Threads /\ Cardinality(conn \ {r}) <= Connections
  BY <1>0, ReturnOne
<1>2. CASE StartThread
  <2>1. Head(queue) \in Requests
    BY <1>2 DEF StartThread
  <2> QED
    BY <1>0, <1>2, <2>1, LendOne DEF StartThread
<1>3. CASE \E r \in Requests : Checkout(r)
  BY <1>0, <1>3, LendOne DEF Checkout
<1>4. CASE \E r \in Requests, k \in Kinds : Arrive(r, k)
  BY <1>0, <1>4 DEF Arrive
<1>5. CASE \E r \in Requests : PoolTimeout(r)
  BY <1>0, <1>1, <1>5 DEF PoolTimeout, LeaveThread, Finish, Release
<1>6. CASE \E r \in Requests : Work(r)
  <2>1. PICK r \in Requests : Work(r)
    BY <1>6
  <2>2. running' = running \/ running' = running \ {r}
    BY <2>1 DEF Work, Authenticate, RunRead, RunWrite, Reject, RefreshRow, Validate, Send,
       CheckHealth, LeaveThread
  <2>3. conn' = conn \/ conn' = conn \ {r}
    BY <2>1 DEF Work, Authenticate, RunRead, RunWrite, Reject, RefreshRow, Validate, Send,
       CheckHealth, Finish, Release
  <2> QED
    BY <1>0, <1>1, <2>2, <2>3
<1> QED
  BY <1>2, <1>3, <1>4, <1>5, <1>6 DEF Next

-----------------------------------------------------------------------------
(* The places of a request.                                                *)

\* What NothingLeaks and OnePlaceAtATime say of one request.
AtPlace(r) ==
  /\ pc[r] \in {"new", "done"} => ~InQueue(r) /\ r \notin running /\ r \notin conn
  /\ pc[r] \notin {"new", "done"} =>
       /\ pc[r] = "send" <=> ~InQueue(r) /\ r \notin running
       /\ ~(InQueue(r) /\ r \in running)
       /\ r \in conn => pc[r] \in {"endpoint", "validate", "send"} \/ r \in running

\* The invariant, request by request.
LEMMA PoolInvByPlace ==
  /\ PoolInv => Distinct(queue) /\ \A r \in Requests : AtPlace(r)
  /\ Distinct(queue) /\ (\A r \in Requests : AtPlace(r)) => OnePlaceAtATime
BY DEF PoolInv, NothingLeaks, OnePlaceAtATime, AtPlace, Distinct

\* A step that moves other requests only.
LEMMA Bystander ==
  ASSUME NEW s \in Requests, AtPlace(s), pc'[s] = pc[s], InQueue(s)' <=> InQueue(s),
         s \in running' <=> s \in running, s \in conn' <=> s \in conn
  PROVE  AtPlace(s)'
BY DEF AtPlace

\* A request's own step leaves every request in its place.
LEMMA PlaceStepOfRequest ==
  ASSUME PoolInv, NEW r \in Requests,
         \/ \E k \in Kinds : Arrive(r, k)
         \/ Checkout(r) \/ PoolTimeout(r) \/ Work(r)
  PROVE  Distinct(queue') /\ \A s \in Requests : AtPlace(s)'
<1> USE DEF TypeOK
<1>0. /\ TypeOK /\ Distinct(queue) /\ AtPlace(r)
      /\ \A s \in Requests : AtPlace(s)
  BY PoolInvByPlace DEF PoolInv
<1>1. ASSUME NEW stage, Goto(r, stage)
      PROVE  pc'[r] = stage /\ \A s \in Requests : s # r => pc'[s] = pc[s]
  BY <1>0, <1>1 DEF Goto
<1>2. ASSUME NEW a, Finish(r, a)
      PROVE  pc'[r] = "done" /\ \A s \in Requests : s # r => pc'[s] = pc[s]
  BY <1>0, <1>2 DEF Finish
<1>3. ASSUME UNCHANGED queue
      PROVE  Distinct(queue') /\ \A s \in Requests : InQueue(s)' <=> InQueue(s)
  BY <1>0, <1>3 DEF InQueue
<1>4. ASSUME Enqueue(r), ~InQueue(r)
      PROVE  /\ Distinct(queue') /\ InQueue(r)'
             /\ \A s \in Requests : s # r => (InQueue(s)' <=> InQueue(s))
  BY <1>0, <1>4, Enqueued
<1>5. CASE \E k \in Kinds : Arrive(r, k)
  <2>1. pc[r] = "new" /\ pc'[r] \in {"health", "auth"} /\ Enqueue(r)
        /\ UNCHANGED <<running, conn>> /\ \A s \in Requests : s # r => pc'[s] = pc[s]
    BY <1>1, <1>5 DEF Arrive
  <2>2. AtPlace(r)'
    BY <1>0, <1>4, <2>1 DEF AtPlace
  <2> QED
    BY <1>0, <1>4, <2>1, <2>2, Bystander DEF AtPlace
<1>6. CASE Checkout(r)
  <2>1. /\ r \in running /\ pc[r] \in {"auth", "refresh", "health"}
        /\ conn' = conn \union {r} /\ UNCHANGED <<pc, queue, running>>
    BY <1>6 DEF Checkout, NeedsConnection
  <2>2. AtPlace(r)'
    BY <1>0, <1>3, <2>1 DEF AtPlace
  <2> QED
    BY <1>0, <1>3, <2>1, <2>2, Bystander
<1>7. CASE PoolTimeout(r)
  <2>1. /\ r \in running /\ pc[r] \notin {"new", "done"} /\ running' = running \ {r}
        /\ conn' = conn \ {r} /\ UNCHANGED queue
    BY <1>7 DEF PoolTimeout, NeedsConnection, LeaveThread, Finish, Release
  <2>2. pc'[r] = "done" /\ \A s \in Requests : s # r => pc'[s] = pc[s]
    BY <1>2, <1>7 DEF PoolTimeout
  <2>3. AtPlace(r)'
    BY <1>0, <1>3, <2>1, <2>2 DEF AtPlace
  <2> QED
    BY <1>0, <1>3, <2>1, <2>2, <2>3, Bystander
<1>8. CASE Authenticate(r)
  <2>1. r \in running /\ pc[r] = "auth" /\ running' = running \ {r}
    BY <1>8 DEF Authenticate, LeaveThread
  <2>2. CASE Finish(r, "unauthorized401") /\ UNCHANGED queue
    <3>1. conn' = conn \ {r}
      BY <2>2 DEF Finish, Release
    <3>2. AtPlace(r)'
      BY <1>0, <1>2, <1>3, <2>1, <2>2, <3>1 DEF AtPlace
    <3> QED
      BY <1>0, <1>2, <1>3, <2>1, <2>2, <3>1, <3>2, Bystander
  <2>3. CASE Goto(r, "endpoint") /\ Enqueue(r) /\ UNCHANGED conn
    <3>1. ~InQueue(r)
      BY <1>0, <2>1 DEF AtPlace
    <3>2. AtPlace(r)'
      BY <1>1, <1>4, <2>1, <2>3, <3>1 DEF AtPlace
    <3> QED
      BY <1>0, <1>1, <1>4, <2>1, <2>3, <3>1, <3>2, Bystander
  <2> QED
    BY <1>8, <2>2, <2>3 DEF Authenticate
<1>9. CASE RunRead(r) \/ RefreshRow(r)
  <2>1. /\ r \in running /\ pc[r] \in {"endpoint", "refresh"} /\ running' = running \ {r}
        /\ Goto(r, "validate") /\ Enqueue(r) /\ UNCHANGED conn
    BY <1>9 DEF RunRead, RefreshRow, LeaveThread
  <2>2. ~InQueue(r)
    BY <1>0, <2>1 DEF AtPlace
  <2>3. AtPlace(r)'
    BY <1>1, <1>4, <2>1, <2>2 DEF AtPlace
  <2> QED
    BY <1>0, <1>1, <1>4, <2>1, <2>2, <2>3, Bystander
<1>10. CASE RunWrite(r)
  <2>1. /\ r \in running /\ pc[r] = "endpoint" /\ conn' = conn \ {r}
        /\ Goto(r, "refresh") /\ UNCHANGED <<queue, running>>
    BY <1>10 DEF RunWrite, Release
  <2>2. AtPlace(r)'
    BY <1>0, <1>1, <1>3, <2>1 DEF AtPlace
  <2> QED
    BY <1>0, <1>1, <1>3, <2>1, <2>2, Bystander
<1>11. CASE Validate(r)
  <2>1. /\ r \in running /\ pc[r] = "validate" /\ running' = running \ {r}
        /\ Goto(r, "send") /\ UNCHANGED <<queue, conn>>
    BY <1>11 DEF Validate, LeaveThread
  <2>2. AtPlace(r)'
    BY <1>0, <1>1, <1>3, <2>1 DEF AtPlace
  <2> QED
    BY <1>0, <1>1, <1>3, <2>1, <2>2, Bystander
<1>12. CASE Send(r)
  <2>1. /\ pc[r] = "send" /\ conn' = conn \ {r} /\ Finish(r, "ok200")
        /\ UNCHANGED <<queue, running>>
    BY <1>12 DEF Send, Finish, Release
  <2>2. AtPlace(r)'
    BY <1>0, <1>2, <1>3, <2>1 DEF AtPlace
  <2> QED
    BY <1>0, <1>2, <1>3, <2>1, <2>2, Bystander
<1>13. CASE CheckHealth(r)
  <2>1. /\ r \in running /\ pc[r] = "health" /\ running' = running \ {r}
        /\ conn' = conn \ {r} /\ Goto(r, "validate") /\ Enqueue(r)
    BY <1>13 DEF CheckHealth, LeaveThread, Release
  <2>2. ~InQueue(r)
    BY <1>0, <2>1 DEF AtPlace
  <2>3. AtPlace(r)'
    BY <1>1, <1>4, <2>1, <2>2 DEF AtPlace
  <2> QED
    BY <1>0, <1>1, <1>4, <2>1, <2>2, <2>3, Bystander
<1>14. CASE Reject(r)
  <2>1. /\ r \in running /\ pc[r] = "endpoint" /\ running' = running \ {r}
        /\ conn' = conn \ {r} /\ (\E a : Finish(r, a)) /\ UNCHANGED queue
    BY <1>14 DEF Reject, LeaveThread, Finish, Release
  <2>2. AtPlace(r)'
    BY <1>0, <1>2, <1>3, <2>1 DEF AtPlace
  <2> QED
    BY <1>0, <1>2, <1>3, <2>1, <2>2, Bystander
<1> QED
  BY <1>5, <1>6, <1>7, <1>8, <1>9, <1>10, <1>11, <1>12, <1>13, <1>14
     DEF Work

\* So does a thread that takes the oldest work.
LEMMA PlaceStepOfThread ==
  ASSUME PoolInv, StartThread
  PROVE  Distinct(queue') /\ \A s \in Requests : AtPlace(s)'
<1>1. /\ TypeOK /\ Distinct(queue) /\ \A s \in Requests : AtPlace(s)
  BY PoolInvByPlace DEF PoolInv
<1>2. /\ queue \in Seq(Requests) /\ queue # <<>> /\ queue' = Tail(queue)
      /\ running' = running \union {Head(queue)} /\ UNCHANGED <<pc, conn>>
  BY <1>1 DEF StartThread, TypeOK
<1>3. /\ Distinct(queue') /\ Head(queue) \in Requests /\ InQueue(Head(queue))
      /\ \A s \in Requests : InQueue(s)' <=> InQueue(s) /\ s # Head(queue)
  BY <1>1, <1>2, Dequeued
<1>4. ASSUME NEW s \in Requests, s = Head(queue) PROVE AtPlace(s)'
  <2>1. AtPlace(s) /\ InQueue(s) /\ ~InQueue(s)' /\ pc'[s] = pc[s] /\ s \in running'
    BY <1>1, <1>2, <1>3, <1>4
  <2> QED
    BY <1>2, <2>1 DEF AtPlace
<1>5. ASSUME NEW s \in Requests, s # Head(queue) PROVE AtPlace(s)'
  BY <1>1, <1>2, <1>3, <1>5, Bystander
<1> QED
  BY <1>3, <1>4, <1>5

-----------------------------------------------------------------------------
(* The theorems.                                                           *)

\* Types are kept; the length of the queue follows from its being distinct.
LEMMA TypeStep ==
  ASSUME PoolInv, Next, Distinct(queue')
  PROVE  TypeOK'
<1> USE DEF PoolInv, TypeOK, Stages, Answers
<1>1. queue' \in Seq(Requests)
  BY Enqueued, Dequeued, PoolInvByPlace DEF Next, StartThread, Arrive, Checkout, PoolTimeout,
     Work, Authenticate, RunRead, RunWrite, Reject, RefreshRow, Validate, Send, CheckHealth,
     Enqueue
<1>2. Len(queue') <= Cardinality(Requests)
  BY <1>1, DistinctIsShort
<1>3. kind' \in [Requests -> Kinds \union {"none"}]
  BY DEF Next, StartThread, Arrive, Checkout, PoolTimeout, Work, Authenticate, RunRead,
     RunWrite, Reject, RefreshRow, Validate, Send, CheckHealth
<1>4. pc' \in [Requests -> Stages] /\ answer' \in [Requests -> Answers]
  BY DEF Next, StartThread, Arrive, Checkout, PoolTimeout, Work, Authenticate, RunRead,
     RunWrite, Reject, RefreshRow, Validate, Send, CheckHealth, Goto, Finish
<1>5. running' \subseteq Requests
  BY PoolInvByPlace, Dequeued DEF Next, StartThread, Arrive, Checkout, PoolTimeout, Work,
     Authenticate, RunRead, RunWrite, Reject, RefreshRow, Validate, Send, CheckHealth,
     LeaveThread
<1>6. conn' \subseteq Requests /\ committed' \subseteq Requests
  BY DEF Next, StartThread, Arrive, Checkout, PoolTimeout, Work, Authenticate, RunRead,
     RunWrite, Reject, RefreshRow, Validate, Send, CheckHealth, Finish, Release
<1> QED
  BY <1>1, <1>2, <1>3, <1>4, <1>5, <1>6

\* The three invariants hold together: the pools never lend more than they
\* have, whoever was answered holds nothing, and every request under way is at
\* one place (get_session, run_in_threadpool, QueuePool).
THEOREM PoolInvHolds == Spec => []PoolInv
<1>1. Init => PoolInv
  <2> SUFFICES ASSUME Init PROVE PoolInv
    OBVIOUS
  <2>1. Cardinality({}) = 0 /\ Cardinality(Requests) \in Nat
    BY FS_EmptySet, FS_CardinalityType, PoolAssumption
  <2>2. TypeOK
    BY <2>1 DEF Init, TypeOK, Stages, Answers
  <2> QED
    BY <2>1, <2>2, PoolAssumption
       DEF Init, PoolInv, NothingLeaks, OnePlaceAtATime, InQueue
<1>2. PoolInv /\ [Next]_vars => PoolInv'
  <2>1. ASSUME PoolInv, Next PROVE PoolInv'
    <3>1. Distinct(queue') /\ \A s \in Requests : AtPlace(s)'
      BY <2>1, PlaceStepOfRequest, PlaceStepOfThread DEF Next
    <3>2. TypeOK'
      BY <2>1, <3>1, TypeStep
    <3>3. NothingLeaks'
      BY <2>1, <3>1, LimitStep DEF NothingLeaks, AtPlace
    <3>4. OnePlaceAtATime'
      BY <3>1 DEF OnePlaceAtATime, AtPlace, Distinct
    <3> QED
      BY <3>2, <3>3, <3>4 DEF PoolInv
  <2>2. ASSUME PoolInv, UNCHANGED vars PROVE PoolInv'
    BY <2>2 DEF vars, PoolInv, TypeOK, NothingLeaks, OnePlaceAtATime, InQueue
  <2> QED
    BY <2>1, <2>2
<1> QED
  BY <1>1, <1>2, PTL DEF Spec

\* The variables keep their types, and the queue is never longer than there
\* are requests.
THEOREM TypeCorrect == Spec => []TypeOK
BY PoolInvHolds, PTL DEF PoolInv

\* No thread, place in the queue or connection outlives its request, and the
\* pools keep to their limits (database.py:20-27, :49-51).
THEOREM PoolsLeakNothing == Spec => []NothingLeaks
BY PoolInvHolds, PTL DEF PoolInv

\* Work is neither lost nor doubled, and no holder of a connection waits for
\* another (transaction.py:20-21).
THEOREM WorkIsAtOnePlace == Spec => []OnePlaceAtATime
BY PoolInvHolds, PTL DEF PoolInv

-----------------------------------------------------------------------------
(* Who can move: the pools come to a stop only together.                   *)

\* Whoever runs and does not wait for a connection can work.
LEMMA RunnersWork ==
  ASSUME NEW r \in running, ~NeedsConnection(r)
  PROVE  CanWork(r)
BY DEF CanWork

\* A standstill has every thread and every connection in it.
LEMMA StandstillIsGridlock ==
  ASSUME PoolInv, StandsStill
  PROVE  Gridlock
<1>0. /\ running \subseteq Requests /\ conn \subseteq Requests /\ queue \in Seq(Requests)
      /\ Cardinality(running) <= Threads /\ Cardinality(conn) <= Connections
      /\ Threads \in Nat \ {0} /\ Connections \in Nat \ {0}
  BY PoolAssumption DEF PoolInv, TypeOK, NothingLeaks
<1>1. Cardinality(running) \in Nat /\ Cardinality(conn) \in Nat
  BY <1>0, PoolAssumption, FS_Subset, FS_CardinalityType
<1>2. \A r \in running : NeedsConnection(r)
  BY <1>0, RunnersWork DEF StandsStill
<1>3. \A r \in Requests : UnderWay(r) => InQueue(r) \/ r \in running
  BY DEF StandsStill, UnderWay, CanWork, PoolInv, OnePlaceAtATime
<1>4. \A r \in conn : InQueue(r)
  BY <1>0, <1>2, <1>3 DEF NeedsConnection, UnderWay, PoolInv, NothingLeaks
<1>5. queue # <<>>
  <2>1. SUFFICES ASSUME queue = <<>> PROVE FALSE
    OBVIOUS
  <2>2. \A r \in Requests : ~InQueue(r)
    BY <2>1 DEF InQueue
  <2>3. PICK r \in Requests : r \in running
    BY <1>3, <2>2 DEF StandsStill
  <2>4. conn = {}
    BY <1>0, <1>4, <2>2
  <2>5. Cardinality(conn) < Connections
    BY <1>0, <2>4, FS_EmptySet
  <2> QED
    BY <1>2, <2>3, <2>5 DEF StandsStill, CanCheckout
<1>6. Cardinality(running) = Threads
  BY <1>0, <1>1, <1>5 DEF StandsStill, CanStart
<1>7. \E r \in Requests : r \in running
  <2>1. running # {}
    BY <1>0, <1>6, FS_EmptySet
  <2> QED
    BY <1>0, <2>1
<1>8. Cardinality(conn) = Connections
  BY <1>0, <1>1, <1>2, <1>7 DEF StandsStill, CanCheckout
<1> QED
  BY <1>2, <1>4, <1>6, <1>8 DEF Gridlock

\* Whatever order requests, threads and connections come in, nothing less than
\* both pools exhausted by one another stops the worker (run_in_threadpool and
\* QueuePool, database.py:20-27).
THEOREM OnlyGridlock == Spec => []OnlyGridlockStops
<1>1. PoolInv => OnlyGridlockStops
  BY StandstillIsGridlock DEF OnlyGridlockStops
<1> QED
  BY <1>1, PoolInvHolds, PTL

\* A gridlock needs as many requests under way as there are threads and
\* connections: a worker that would wait for ever (no pool_timeout) does not
\* stop while fewer than 40 + 15 are under way at once (database.py:22-23),
\* however many come in all.
THEOREM FewRequestsNeverStop == Spec => [](LightLoad => ~StandsStill)
<1>1. ASSUME PoolInv, Gridlock PROVE ~LightLoad
  <2> DEFINE U == {r \in Requests : UnderWay(r)}
  <2>1. running \subseteq U /\ conn \subseteq U /\ IsFiniteSet(U)
    <3>1. running \subseteq Requests /\ conn \subseteq Requests
      BY <1>1 DEF PoolInv, TypeOK
    <3>2. \A r \in running \union conn : UnderWay(r)
      BY <1>1, <3>1 DEF PoolInv, NothingLeaks, UnderWay
    <3>3. IsFiniteSet(U)
      BY PoolAssumption, FS_Subset
    <3> QED
      BY <3>1, <3>2, <3>3
  <2>2. IsFiniteSet(running) /\ IsFiniteSet(conn)
    BY <2>1, FS_Subset
  <2>3. running \intersect conn = {}
    BY <1>1 DEF Gridlock, NeedsConnection
  <2>4. Cardinality(running \union conn) = Threads + Connections
    <3>1. Cardinality(running \union conn)
            = Cardinality(running) + Cardinality(conn) - Cardinality(running \intersect conn)
      BY <2>2, FS_Union
    <3>2. Cardinality(running \intersect conn) = 0
      BY <2>3, FS_EmptySet
    <3> QED
      BY <1>1, <3>1, <3>2, PoolAssumption DEF Gridlock
  <2>5. Cardinality(running \union conn) <= Cardinality(U)
    BY <2>1, FS_Subset
  <2>6. Cardinality(U) \in Nat /\ Threads \in Nat /\ Connections \in Nat
    BY <2>1, PoolAssumption, FS_CardinalityType
  <2> QED
    BY <2>4, <2>5, <2>6 DEF LightLoad
<1>2. PoolInv /\ OnlyGridlockStops => (LightLoad => ~StandsStill)
  BY <1>1 DEF OnlyGridlockStops
<1> QED
  BY <1>2, PoolInvHolds, OnlyGridlock, PTL

\* What PoolTimeout waits for.
CanTimeOut(r) == NeedsConnection(r) /\ Cardinality(conn) = Connections

\* With pool_timeout there is always a step left for a request under way,
\* however many there are: in a gridlock every thread's wait can end.
THEOREM TimeoutsEndGridlock ==
  Spec => [](StandsStill => \E r \in Requests : CanTimeOut(r))
<1>1. ASSUME PoolInv, Gridlock PROVE \E r \in Requests : CanTimeOut(r)
  <2>1. running # {}
    BY <1>1, PoolAssumption, FS_EmptySet DEF Gridlock
  <2> QED
    BY <1>1, <2>1 DEF Gridlock, CanTimeOut, PoolInv, TypeOK
<1>2. PoolInv /\ OnlyGridlockStops => (StandsStill => \E r \in Requests : CanTimeOut(r))
  BY <1>1 DEF OnlyGridlockStops
<1> QED
  BY <1>2, PoolInvHolds, OnlyGridlock, PTL

-----------------------------------------------------------------------------
(* Every step is one step nearer to the answer.                            *)

\* The stages that a request has before it, this one included.
StagesLeft ==
  [ new |-> 7, auth |-> 6, endpoint |-> 5, refresh |-> 4, validate |-> 3, send |-> 2,
    health |-> 4, done |-> 0 ]

\* What it waits for within its stage: a thread, a connection, or nothing.
Waits(r) == IF InQueue(r) THEN 2 ELSE IF r \in conn THEN 0 ELSE 1

Distance(r) == 3 * StagesLeft[pc[r]] + Waits(r)

\* A step moves one request nearer to its end and no other away from it.
Nearer ==
  \E r \in Requests :
    /\ Distance(r)' < Distance(r)
    /\ \A s \in Requests \ {r} : Distance(s)' = Distance(s)

LEMMA DistanceIsNatural ==
  ASSUME TypeOK, NEW r \in Requests
  PROVE  Distance(r) \in 0..23
<1>1. StagesLeft[pc[r]] \in 0..7 /\ Waits(r) \in 0..2
  BY DEF TypeOK, Stages, StagesLeft, Waits
<1> QED
  BY <1>1 DEF Distance

\* Requests that stay where they are keep their distance.
LEMMA DistanceKept ==
  ASSUME NEW s \in Requests, pc'[s] = pc[s], InQueue(s)' <=> InQueue(s),
         s \in conn' <=> s \in conn
  PROVE  Distance(s)' = Distance(s)
BY DEF Distance, Waits

\* A later stage is nearer, whatever is waited for there.
LEMMA LaterStageIsNearer ==
  ASSUME NEW r \in Requests, StagesLeft[pc[r]] \in Nat, StagesLeft[pc'[r]] \in Nat,
         StagesLeft[pc'[r]] < StagesLeft[pc[r]]
  PROVE  Distance(r)' < Distance(r)
<1>1. Waits(r) \in 0..2 /\ Waits(r)' \in 0..2
  BY DEF Waits
<1>2. Distance(r)' = 3 * StagesLeft[pc'[r]] + Waits(r)'
  BY DEF Distance, StagesLeft
<1> QED
  BY <1>1, <1>2 DEF Distance

\* The steps that take a request r to a later stage.
Advance(r) ==
  (\E k \in Kinds : Arrive(r, k)) \/ PoolTimeout(r) \/ Work(r)

LEMMA AdvanceIsNearer ==
  ASSUME PoolInv, NEW r \in Requests, Advance(r)
  PROVE  Nearer
<1> USE DEF PoolInv, TypeOK
<1>1. /\ pc'[r] \in Stages /\ StagesLeft[pc'[r]] < StagesLeft[pc[r]]
      /\ \A s \in Requests \ {r} : pc'[s] = pc[s]
  <2> USE DEF Goto, Finish, Stages, StagesLeft
  <2>1. CASE (\E k \in Kinds : Arrive(r, k)) \/ PoolTimeout(r)
    BY <2>1 DEF Arrive, PoolTimeout, NeedsConnection
  <2>2. CASE Authenticate(r) \/ RunRead(r) \/ RunWrite(r) \/ Reject(r)
    BY <2>2 DEF Authenticate, RunRead, RunWrite, Reject
  <2>3. CASE RefreshRow(r) \/ Validate(r) \/ Send(r) \/ CheckHealth(r)
    BY <2>3 DEF RefreshRow, Validate, Send, CheckHealth
  <2> QED
    BY <2>1, <2>2, <2>3 DEF Advance, Work
<1>2. \A s \in Requests \ {r} : s \in conn' <=> s \in conn
  BY DEF Advance, Arrive, PoolTimeout, Work, Authenticate, RunRead, RunWrite, Reject, RefreshRow,
     Validate, Send, CheckHealth, Finish, Release
<1>3. \A s \in Requests \ {r} : InQueue(s)' <=> InQueue(s)
  <2>1. UNCHANGED queue \/ Enqueue(r)
    BY DEF Advance, Arrive, PoolTimeout, Work, Authenticate, RunRead, RunWrite, Reject,
       RefreshRow, Validate, Send, CheckHealth
  <2>2. CASE UNCHANGED queue
    BY <2>2 DEF InQueue
  <2>3. CASE Enqueue(r)
    BY <2>3, Enqueued
  <2> QED
    BY <2>1, <2>2, <2>3
<1>4. pc[r] \in Stages /\ \A q \in Stages : StagesLeft[q] \in Nat
  BY DEF Stages, StagesLeft
<1>5. Distance(r)' < Distance(r)
  BY <1>1, <1>4, LaterStageIsNearer
<1>6. \A s \in Requests \ {r} : Distance(s)' = Distance(s)
  BY <1>1, <1>2, <1>3, DistanceKept
<1> QED
  BY <1>5, <1>6 DEF Nearer

\* The steps that end a wait within a stage.
LEMMA EndOfWaitIsNearer ==
  ASSUME PoolInv, StartThread \/ \E r \in Requests : Checkout(r)
  PROVE  Nearer
<1>1. CASE \E r \in Requests : Checkout(r)
  <2>1. PICK r \in Requests : Checkout(r)
    BY <1>1
  <2>2. /\ r \in running /\ r \notin conn /\ pc[r] \notin {"new", "done"}
        /\ conn' = conn \union {r} /\ UNCHANGED <<pc, queue>>
    BY <2>1 DEF Checkout, NeedsConnection
  <2>3. ~InQueue(r) /\ \A s \in Requests : InQueue(s)' <=> InQueue(s)
    BY <2>2 DEF PoolInv, OnePlaceAtATime, InQueue
  <2>4. Distance(r)' < Distance(r)
    <3>1. Waits(r) = 1 /\ Waits(r)' = 0
      BY <2>2, <2>3 DEF Waits
    <3>2. Distance(r)' = 3 * StagesLeft[pc[r]] + Waits(r)' /\ StagesLeft[pc[r]] \in Nat
      BY <2>2 DEF Distance, StagesLeft, PoolInv, TypeOK, Stages
    <3> QED
      BY <3>1, <3>2 DEF Distance
  <2> QED
    BY <2>2, <2>3, <2>4, DistanceKept DEF Nearer
<1>2. CASE StartThread
  <2>1. /\ queue \in Seq(Requests) /\ Distinct(queue) /\ queue # <<>>
        /\ queue' = Tail(queue) /\ UNCHANGED <<pc, conn>>
    BY <1>2 DEF StartThread, PoolInv, TypeOK, OnePlaceAtATime, Distinct
  <2>2. PICK r \in Requests :
          /\ InQueue(r) /\ ~InQueue(r)'
          /\ \A s \in Requests \ {r} : InQueue(s)' <=> InQueue(s)
    <3>1. PICK r \in Requests : r = Head(queue)
      BY <2>1, Dequeued
    <3> QED
      BY <2>1, <3>1, Dequeued
  <2>3. Distance(r)' < Distance(r)
    <3>1. Waits(r) = 2 /\ Waits(r)' \in 0..1
      BY <2>2 DEF Waits
    <3>2. Distance(r)' = 3 * StagesLeft[pc[r]] + Waits(r)' /\ StagesLeft[pc[r]] \in Nat
      BY <2>1 DEF Distance, StagesLeft, PoolInv, TypeOK, Stages
    <3> QED
      BY <3>1, <3>2 DEF Distance
  <2> QED
    BY <2>1, <2>2, <2>3, DistanceKept DEF Nearer
<1> QED
  BY <1>1, <1>2

\* The worker does finitely much for each request: a step takes one request
\* nearer to its answer and puts none back, whoever runs, waits or is timed
\* out.  So no request is served twice, circles between the queue and the pool,
\* or delays the others for ever (run_in_threadpool, database.py:20-27).
THEOREM EveryStepIsNearer ==
  Spec => /\ [](\A r \in Requests : Distance(r) \in 0..23)
          /\ [][Nearer]_vars
<1>1. TypeOK => \A r \in Requests : Distance(r) \in 0..23
  BY DistanceIsNatural
<1>2. PoolInv /\ [Next]_vars => [Nearer]_vars
  BY AdvanceIsNearer, EndOfWaitIsNearer DEF Next, Advance
<1> QED
  BY <1>1, <1>2, TypeCorrect, PoolInvHolds, PTL DEF Spec
=============================================================================
