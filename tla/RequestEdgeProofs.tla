------------------------- MODULE RequestEdgeProofs -------------------------
(***************************************************************************)
(* Proofs about RateLimiter and RequestEdge.  The counting arguments use   *)
(* no induction over numbers: the hits of a window are numbered, so a set  *)
(* of hits is measured by a function from it, or to it, that never takes a *)
(* value twice.                                                            *)
(***************************************************************************)
EXTENDS RequestEdge, FiniteSetTheorems, TLAPS

-----------------------------------------------------------------------------
(* The limiter's invariant.                                                *)

LEMMA LimiterStarts == LimiterInit => LimiterInv
<1> SUFFICES ASSUME LimiterInit PROVE LimiterInv
  OBVIOUS
<1> USE DEF LimiterInit
<1>1. LimiterTypeOK
  BY LimiterAssumption, FS_EmptySet DEF LimiterTypeOK
<1>2. WindowsFollowClock /\ WindowsApart /\ HitsNumbered /\ Sorted
  BY LimiterAssumption DEF WindowsFollowClock, WindowsApart, HitsNumbered, Sorted
<1> QED
  BY <1>1, <1>2 DEF LimiterInv

\* Time alone disturbs nothing.
LEMMA LimiterTicks == LimiterInv /\ Tick => LimiterInv'
<1> SUFFICES ASSUME LimiterInv, Tick PROVE LimiterInv'
  OBVIOUS
<1> USE DEF LimiterInv, Tick
<1>1. LimiterTypeOK'
  BY LimiterAssumption DEF LimiterTypeOK
<1>2. WindowsFollowClock'
  BY LimiterAssumption DEF LimiterTypeOK, WindowsFollowClock, Hits
<1>3. WindowsApart' /\ HitsNumbered' /\ Sorted'
  BY DEF WindowsApart, HitsNumbered, Sorted, SameWindow, Admits
<1> QED
  BY <1>1, <1>2, <1>3

\* A hit among those of its key: the last of its window, or the first of a
\* window that begins when the others are over.
LEMMA HitIsLast ==
  ASSUME LimiterInv, NEW k \in Keys
  PROVE  /\ Hit(k) \in Hits
         /\ Hit(k).key = k /\ Hit(k).at = clock
         /\ clock < Hit(k).until /\ Hit(k).until <= clock + Window
         /\ Hit(k).slot = 1 => Hit(k).until = clock + Window
         /\ \A i \in 1..(Hit(k).slot - 1) :
              \E g \in hits : g.key = k /\ g.until = Hit(k).until /\ g.slot = i
         /\ \A g \in hits :
              g.key = k => \/ g.until = Hit(k).until /\ g.slot < Hit(k).slot
                           \/ g.until + Window <= Hit(k).until
<1> USE LimiterAssumption
<1>1. /\ counter[k].count \in Nat /\ counter[k].expires \in Nat
      /\ counter[k].expires <= clock + Window
      /\ clock \in Nat /\ clock \in 0..MaxClock
      /\ \A g \in hits : g.until \in Nat /\ g.slot \in Nat \ {0}
  BY DEF LimiterInv, LimiterTypeOK, WindowsFollowClock, Hits
<1>2. \A g \in hits :
        g.key = k => \/ g.until = counter[k].expires /\ g.slot <= counter[k].count
                     \/ g.until + Window <= counter[k].expires
  BY DEF LimiterInv, WindowsApart
<1>3. \A i \in 1..counter[k].count :
        \E g \in hits : g.key = k /\ g.until = counter[k].expires /\ g.slot = i
  BY DEF LimiterInv, HitsNumbered
<1>4. CASE Alive(k)
  <2>1. /\ Hit(k) = [key |-> k, at |-> clock, slot |-> counter[k].count + 1,
                     until |-> counter[k].expires]
        /\ clock < counter[k].expires
    BY <1>4 DEF Hit, Alive
  <2>2. counter[k].count # 0
    <3> SUFFICES ASSUME counter[k].count = 0 PROVE FALSE
      OBVIOUS
    <3> QED
      BY <1>1, <1>4 DEF LimiterInv, WindowsFollowClock, Alive
  <2> QED
    BY <1>1, <1>2, <1>3, <2>1, <2>2 DEF Hits
<1>5. CASE ~Alive(k)
  <2>1. /\ Hit(k) = [key |-> k, at |-> clock, slot |-> 1, until |-> clock + Window]
        /\ counter[k].expires <= clock
    BY <1>1, <1>5 DEF Hit, Alive
  <2> QED
    BY <1>1, <1>2, <2>1 DEF Hits
<1> QED
  BY <1>4, <1>5

\* Redis counts a hit, whatever becomes of its request.
LEMMA LimiterCounts ==
  ASSUME LimiterInv, NEW k \in Keys, Admit(k) \/ Refuse(k) \/ LoseReply(k)
  PROVE  LimiterInv'
<1> DEFINE h == Hit(k)
<1> USE LimiterAssumption
<1>1. /\ h \in Hits /\ h.key = k /\ h.at = clock
      /\ clock < h.until /\ h.until <= clock + Window
      /\ h.slot = 1 => h.until = clock + Window
      /\ \A i \in 1..(h.slot - 1) :
           \E g \in hits : g.key = k /\ g.until = h.until /\ g.slot = i
      /\ \A g \in hits :
           g.key = k => \/ g.until = h.until /\ g.slot < h.slot
                        \/ g.until + Window <= h.until
  BY HitIsLast
<1> HIDE DEF h
<1>2. /\ counter' = [counter EXCEPT ![k] = [count |-> h.slot, expires |-> h.until]]
      /\ hits' = hits \union {h}
      /\ clock' = clock
  BY DEF Admit, Refuse, LoseReply, Count, h
<1>3. /\ LimiterTypeOK /\ WindowsFollowClock /\ WindowsApart /\ HitsNumbered /\ Sorted
      /\ hits \subseteq Hits /\ IsFiniteSet(hits)
      /\ counter \in [Keys -> [count : Nat, expires : Nat]]
      /\ clock \in Nat
  BY DEF LimiterInv, LimiterTypeOK
<1>4. /\ counter'[k].count = h.slot /\ counter'[k].expires = h.until
      /\ \A j \in Keys \ {k} : counter'[j] = counter[j]
  BY <1>2, <1>3
<1>5. h.slot \in Nat \ {0} /\ h.until \in Nat
      /\ \A g \in hits : g.key \in Keys /\ g.slot \in Nat \ {0} /\ g.until \in Nat /\ g.at \in Nat
  BY <1>1, <1>3 DEF Hits
<1>6. LimiterTypeOK'
  <2>1. IsFiniteSet(hits')
    BY <1>2, <1>3, FS_AddElement
  <2>2. admitted' \subseteq hits' /\ refused' \subseteq hits'
    BY <1>2, <1>3 DEF Admit, Refuse, LoseReply, LimiterTypeOK, h
  <2>3. counter' \in [Keys -> [count : Nat, expires : Nat]]
    BY <1>2, <1>3, <1>5
  <2> QED
    BY <1>1, <1>2, <1>3, <2>1, <2>2, <2>3 DEF LimiterTypeOK
<1>7. WindowsFollowClock'
  BY <1>1, <1>2, <1>3, <1>4, <1>5 DEF WindowsFollowClock
<1>8. WindowsApart'
  <2>1. \A g \in hits' : g.key = k =>
          \/ g.until = h.until /\ g.slot <= h.slot
          \/ g.until + Window <= h.until
    BY <1>1, <1>2, <1>5
  <2>2. ASSUME NEW g \in hits'
        PROVE  \/ g.until = counter'[g.key].expires /\ g.slot <= counter'[g.key].count
               \/ g.until + Window <= counter'[g.key].expires
    <3>1. CASE g.key = k
      BY <1>4, <2>1, <3>1
    <3>2. CASE g.key # k
      BY <1>1, <1>2, <1>3, <1>4, <1>5, <3>2 DEF WindowsApart
    <3> QED
      BY <3>1, <3>2
  <2>3. ASSUME NEW f \in hits', NEW g \in hits', f.key = g.key
        PROVE  \/ f.until = g.until \/ f.until + Window <= g.until
               \/ g.until + Window <= f.until
    BY <1>1, <1>2, <1>3, <1>5, <2>1, <2>3 DEF WindowsApart
  <2> QED
    BY <2>2, <2>3 DEF WindowsApart
<1>9. HitsNumbered'
  <2>1. ASSUME NEW f \in hits', NEW g \in hits', SameWindow(f, g), f.slot = g.slot
        PROVE  f = g
    BY <1>1, <1>2, <1>3, <1>5, <2>1 DEF HitsNumbered, SameWindow
  <2>2. ASSUME NEW f \in hits', NEW i \in 1..f.slot
        PROVE  \E g \in hits' : SameWindow(g, f) /\ g.slot = i /\ g.at <= f.at
    <3>1. CASE f \in hits
      BY <1>2, <1>3, <3>1 DEF HitsNumbered
    <3>2. CASE f = h /\ i = h.slot
      BY <1>1, <1>2, <1>3, <3>2 DEF SameWindow
    <3>3. CASE f = h /\ i # h.slot
      <4>1. i \in 1..(h.slot - 1)
        BY <1>5, <3>3
      <4> QED
        BY <1>1, <1>2, <1>3, <3>3, <4>1 DEF SameWindow, WindowsFollowClock
    <3> QED
      BY <1>2, <3>1, <3>2, <3>3
  <2>3. ASSUME NEW j \in Keys, NEW i \in 1..counter'[j].count
        PROVE  \E g \in hits' : g.key = j /\ g.until = counter'[j].expires /\ g.slot = i
    <3>1. CASE j # k
      BY <1>2, <1>3, <1>4, <3>1 DEF HitsNumbered
    <3>2. CASE j = k /\ i = h.slot
      BY <1>1, <1>2, <1>4, <3>2
    <3>3. CASE j = k /\ i # h.slot
      <4>1. i \in 1..(h.slot - 1)
        BY <1>4, <1>5, <3>3
      <4> QED
        BY <1>1, <1>2, <1>4, <3>3, <4>1
    <3> QED
      BY <3>1, <3>2, <3>3
  <2> QED
    BY <2>1, <2>2, <2>3 DEF HitsNumbered
<1>10. Sorted'
  BY <1>3 DEF Sorted, Admit, Refuse, LoseReply, Admits
<1> QED
  BY <1>6, <1>7, <1>8, <1>9, <1>10 DEF LimiterInv

-----------------------------------------------------------------------------
(* What the limiter's invariant says of any stretch of time.               *)

\* At most two windows meet a stretch of time as long as a window, and not
\* both with their first hits: number the admitted hits of the later window
\* from 1 to the limit, and go on with the earlier one's, from its second.
LEMMA BoundSlides == LimiterInv => SlidingBound
<1> SUFFICES ASSUME LimiterInv, NEW k \in Keys, NEW t \in 0..MaxClock
             PROVE  Cardinality({ h \in admitted : h.key = k /\ h.at \in t..(t + Window - 1) })
                      <= 2 * Limit[k] - 1
  BY DEF SlidingBound
<1> DEFINE S == { h \in admitted : h.key = k /\ h.at \in t..(t + Window - 1) }
           N == Limit[k]
           T == 1..(2 * N - 1)
<1> USE LimiterAssumption
<1>1. N \in Nat \ {0} /\ Window \in Nat \ {0} /\ t \in Nat
  BY LimiterAssumption
<1>2. \A h \in S : /\ h \in hits /\ h.key = k /\ h.slot \in 1..N
                   /\ h.at \in Nat /\ h.until \in Nat
                   /\ t <= h.at /\ h.at <= t + Window - 1
                   /\ h.at < h.until /\ h.until <= h.at + Window
                   /\ h.slot = 1 => h.until = h.at + Window
  BY <1>1 DEF LimiterInv, LimiterTypeOK, Hits, Sorted, Admits, WindowsFollowClock
<1>3. \A g, h \in S : \/ g.until = h.until \/ g.until + Window <= h.until
                      \/ h.until + Window <= g.until
  BY <1>2 DEF LimiterInv, WindowsApart
<1>4. \A g, h \in S : g.until = h.until /\ g.slot = h.slot => g = h
  BY <1>2 DEF LimiterInv, HitsNumbered, SameWindow
<1> HIDE DEF S, N
<1>5. IsFiniteSet(T) /\ Cardinality(T) = 2 * N - 1
  BY <1>1, FS_Interval
<1>6. ASSUME NEW u \in Nat, u <= t + 2 * Window - 1,
             \A h \in S : h.until # u => h.until + Window <= u,
             \A h \in S : h.until # u => h.slot # 1
      PROVE  Cardinality(S) <= 2 * N - 1
  <2> DEFINE f == [h \in S |-> IF h.until = u THEN h.slot ELSE N + h.slot - 1]
  <2>1. \A h \in S : f[h] \in T
    BY <1>1, <1>2, <1>6
  <2>2. \A g, h \in S : g.until # u /\ h.until # u => g.until = h.until
    BY <1>1, <1>2, <1>3, <1>6
  <2>3. ASSUME NEW g \in S, NEW h \in S, f[g] = f[h] PROVE g = h
    BY <1>1, <1>2, <1>4, <1>6, <2>2, <2>3
  <2>4. f \in Injection(S, T)
    BY <2>1, <2>3 DEF Injection, IsInjective
  <2> QED
    BY <1>5, <2>4, FS_Injection
<1>7. ASSUME \E g, h \in S : g.until < h.until
      PROVE  Cardinality(S) <= 2 * N - 1
  <2>1. PICK g \in S, h \in S : g.until < h.until
    BY <1>7
  <2>2. g.until + Window <= h.until
    BY <1>1, <1>2, <1>3, <2>1
  <2>3. \A e \in S : e.until # h.until => e.until + Window <= h.until
    BY <1>1, <1>2, <1>3, <2>1, <2>2
  <2>4. \A e \in S : e.until # h.until => e.slot # 1
    BY <1>1, <1>2, <2>3
  <2> QED
    BY <1>1, <1>2, <1>6, <2>3, <2>4
<1>8. ASSUME ~ \E g, h \in S : g.until < h.until
      PROVE  Cardinality(S) <= 2 * N - 1
  <2>1. \A g, h \in S : g.until = h.until
    BY <1>2, <1>8
  <2>2. CASE S = {}
    BY <1>1, <2>2, FS_EmptySet
  <2>3. CASE S # {}
    <3>1. PICK h \in S : TRUE
      BY <2>3
    <3> QED
      BY <1>1, <1>2, <1>6, <2>1, <3>1
  <2> QED
    BY <2>2, <2>3
<1> QED
  BY <1>7, <1>8 DEF S, N

\* A refused hit has a number beyond the limit: the hits numbered from 1 to
\* the limit came before it, in the same window.
LEMMA CausesAreRecent == LimiterInv => RefusedForCause
<1> SUFFICES ASSUME LimiterInv, NEW h \in refused
             PROVE  Limit[h.key] <= Cardinality({ g \in hits \ {h} :
                      g.key = h.key /\ g.at \in (h.at - Window + 1)..h.at })
  BY DEF RefusedForCause
<1> DEFINE G == { g \in hits \ {h} : g.key = h.key /\ g.at \in (h.at - Window + 1)..h.at }
           N == Limit[h.key]
<1> USE LimiterAssumption
<1>1. /\ h \in hits /\ h.key \in Keys /\ N \in Nat \ {0} /\ h.slot \in Nat /\ N < h.slot
      /\ h.at \in Nat /\ h.until \in Nat /\ h.at < h.until /\ Window \in Nat
  BY DEF LimiterInv, LimiterTypeOK, Hits, Sorted, Admits, WindowsFollowClock
<1>2. \A i \in 1..N : \E g \in G : g.slot = i
  <2> SUFFICES ASSUME NEW i \in 1..N PROVE \E g \in G : g.slot = i
    OBVIOUS
  <2>1. i \in 1..h.slot /\ i # h.slot
    BY <1>1
  <2>2. PICK g \in hits : SameWindow(g, h) /\ g.slot = i /\ g.at <= h.at
    BY <1>1, <2>1 DEF LimiterInv, HitsNumbered
  <2>3. g.at \in Nat /\ g.until \in Nat /\ g.until <= g.at + Window
    BY DEF LimiterInv, LimiterTypeOK, Hits, WindowsFollowClock
  <2>4. g \in G
    BY <1>1, <2>1, <2>2, <2>3 DEF SameWindow
  <2> QED
    BY <2>2, <2>4
<1>3. IsFiniteSet(G)
  BY FS_Subset DEF LimiterInv, LimiterTypeOK
<1> HIDE DEF G, N
<1> DEFINE f == [i \in 1..N |-> CHOOSE g \in G : g.slot = i]
<1>4. \A i \in 1..N : f[i] \in G /\ f[i].slot = i
  BY <1>2
<1> HIDE DEF f
<1>5. f \in Injection(1..N, G)
  <2>1. f \in [1..N -> G]
    BY <1>4 DEF f
  <2> QED
    BY <1>4, <2>1 DEF Injection, IsInjective
<1>6. Cardinality(1..N) = N
  BY <1>1, FS_Interval
<1> QED
  BY <1>3, <1>5, <1>6, FS_Injection DEF G, N

-----------------------------------------------------------------------------
(* The edge's invariant.                                                   *)

\* The part of the invariant that is about one request.
Follows(r) ==
  /\ pc[r] \notin {"new", "done"} => context[r] = r
  /\ pc[r] \in {"new", "router", "limit", "endpoint"} => response[r] = NoResponse
  /\ pc[r] \in {"log", "done"} => response[r] # NoResponse
  /\ pc[r] \notin {"log", "done"} => log[r] = {}
  /\ pc[r] = "limit" => key[r] \in Keys
  /\ pc[r] = "log" => \A e \in log[r] : e.status = response[r].status
  /\ response[r] # NoResponse /\ response[r].status = 500 => pc[r] = "done"
  /\ \A e \in log[r] : e.id = r
  /\ pc[r] = "done" =>
       /\ \A e \in log[r] : e.status \in {response[r].status, NoStatus}
       /\ \E e \in log[r] : e.event = "completed" /\ e.status = response[r].status
       /\ response[r].status = 500 => \E e \in log[r] : e.event = "unhandled"
  /\ response[r] # NoResponse /\ ~({"request_id", "security", "logging"} \subseteq response[r].via) =>
       response[r].status = 500 /\ \E e \in log[r] : e.event = "unhandled" /\ e.id = r

LEMMA InvariantIsEach ==
  IInv <=> TypeOK /\ LimiterInv /\ \A r \in Requests : Follows(r)
BY DEF IInv, ContextsAreOwn, LogsFollowSteps, LogTellsAnswer, OnlyCrashesAreBare, Follows

LEMMA EdgeStarts == Init => IInv
<1> SUFFICES ASSUME Init PROVE IInv
  OBVIOUS
<1>1. LimiterInv
  BY LimiterStarts DEF Init
<1>2. TypeOK
  BY <1>1, EdgeAssumption DEF Init, TypeOK, LimiterInv
<1>3. \A r \in Requests : Follows(r)
  BY DEF Init, Follows
<1> QED
  BY <1>1, <1>2, <1>3, InvariantIsEach

\* What a request's step leaves alone.
Others(r) ==
  \A q \in Requests \ {r} :
    /\ pc'[q] = pc[q] /\ key'[q] = key[q] /\ context'[q] = context[q]
    /\ response'[q] = response[q] /\ log'[q] = log[q]

LEMMA OthersFollow ==
  ASSUME NEW r \in Requests, Others(r), \A q \in Requests : Follows(q), Follows(r)'
  PROVE  \A q \in Requests : Follows(q)'
BY DEF Others, Follows

\* The limiter's part of a step.
LEMMA LimiterSteps ==
  ASSUME IInv, [Next]_vars
  PROVE  LimiterInv'
<1>1. LimiterInv /\ \A r \in Requests : pc[r] = "limit" => key[r] \in Keys
  BY DEF IInv, LogsFollowSteps
<1>2. CASE UNCHANGED limiterVars
  BY <1>1, <1>2 DEF limiterVars, LimiterInv, LimiterTypeOK, WindowsFollowClock, WindowsApart,
     HitsNumbered, Sorted, SameWindow, Admits
<1>3. CASE Tick
  BY <1>1, <1>3, LimiterTicks
<1>4. CASE \E k \in Keys : Admit(k) \/ Refuse(k) \/ LoseReply(k)
  BY <1>1, <1>4, LimiterCounts
<1>5. UNCHANGED limiterVars \/ Tick \/ \E k \in Keys : Admit(k) \/ Refuse(k) \/ LoseReply(k)
  BY <1>1 DEF Next, vars, Arrive, Preflight, Depend, Limited, RedisFails, Endpoint, Complete, Crash
<1> QED
  BY <1>2, <1>3, <1>4, <1>5

\* Where a response that comes from a layer has been.
LEMMA Wrapped ==
  /\ Around("exceptions") = {"request_id", "security", "logging", "cors"}
  /\ Around("cors") = {"request_id", "security", "logging"}
  /\ Around("server_error") = {}
BY DEF Around, Depth

EdgeTyped ==
  /\ pc \in [Requests -> {"new", "router", "limit", "endpoint", "log", "unwind", "done"}]
  /\ key \in [Requests -> Keys \union {NoKey}]
  /\ context \in [Requests -> Requests \union {NoId}]
  /\ response \in [Requests -> Responses \union {NoResponse}]
  /\ log \in [Requests -> SUBSET Entries]
  /\ lost \in 0..MaxLost

LEMMA Arrives ==
  ASSUME IInv, NEW r \in Requests, Arrive(r)
  PROVE  EdgeTyped' /\ Follows(r)' /\ Others(r)
<1>1. EdgeTyped /\ Follows(r)
  BY InvariantIsEach DEF TypeOK, EdgeTyped
<1>2. /\ pc[r] = "new" /\ pc' = [pc EXCEPT ![r] = "router"]
      /\ context' = [context EXCEPT ![r] = r]
      /\ \E k \in Keys \union {NoKey} : key' = [key EXCEPT ![r] = k]
      /\ response' = response /\ log' = log /\ lost' = lost
  BY DEF Arrive, SetId, Goto
<1>3. EdgeTyped'
  BY <1>1, <1>2 DEF EdgeTyped
<1>4. Follows(r)' /\ Others(r)
  BY <1>1, <1>2 DEF EdgeTyped, Follows, Others
<1> QED
  BY <1>3, <1>4

\* A response sent from inside the middleware, with or without a log entry;
\* the task returns, or an exception that nobody handles unwinds it.
Sends(r, layer, status, step) ==
  /\ Send(r, layer, status)
  /\ pc' = [pc EXCEPT ![r] = step]
  /\ \/ log' = log
     \/ step = "log" /\ log' = [log EXCEPT ![r] = @ \union {Entry(r, "application", status)}]
  /\ key' = key /\ context' = context /\ lost' = lost

LEMMA SendFollows ==
  ASSUME IInv, NEW r \in Requests, pc[r] \in {"router", "limit", "endpoint"},
         NEW layer \in {"exceptions", "cors"}, NEW status \in {200, 401, 422, 429},
         NEW step \in {"log", "unwind"}, Sends(r, layer, status, step)
  PROVE  EdgeTyped' /\ Follows(r)' /\ Others(r)
<1> USE DEF Sends
<1>1. EdgeTyped /\ Follows(r)
  BY InvariantIsEach DEF TypeOK, EdgeTyped
<1> DEFINE answer == [status |-> status, via |-> Around(layer)]
<1>2. response' = [response EXCEPT ![r] = answer]
  BY DEF Send
<1>3. answer # NoResponse
  BY Wrapped, EdgeAssumption DEF Responses, Statuses
<1>4. answer \in Responses
  BY Wrapped DEF Responses, Statuses
<1>5. /\ {"request_id", "security", "logging"} \subseteq answer.via
      /\ answer.status = status /\ answer.status # 500
  BY Wrapped
<1> HIDE DEF answer
<1>6. context[r] = r /\ log[r] = {}
  BY <1>1 DEF Follows
<1>7. Entry(r, "application", status) \in Entries /\ Entry(r, "application", status).id = r
      /\ Entry(r, "application", status).status = status
  BY <1>6 DEF Entry, Entries, Statuses
<1>8. \/ log' = log
      \/ step = "log" /\ log' = [log EXCEPT ![r] = {Entry(r, "application", status)}]
  BY <1>1, <1>6 DEF EdgeTyped
<1>9. EdgeTyped'
  BY <1>1, <1>2, <1>4, <1>7, <1>8 DEF EdgeTyped
<1>10. /\ \A e \in log'[r] : e.id = r /\ e.status = status
       /\ step = "unwind" => log'[r] = {}
  BY <1>1, <1>6, <1>7, <1>8 DEF EdgeTyped
<1>11. pc'[r] = step /\ response'[r] = answer /\ context'[r] = r
  BY <1>1, <1>2, <1>6 DEF EdgeTyped
<1>12. Follows(r)'
  BY <1>3, <1>5, <1>10, <1>11 DEF Follows
<1>13. Others(r)
  BY <1>1, <1>2, <1>8 DEF EdgeTyped, Others
<1> QED
  BY <1>9, <1>12, <1>13

\* The task returns.
LEMMA AnswerFollows ==
  ASSUME IInv, NEW r \in Requests, pc[r] \in {"router", "limit", "endpoint"},
         NEW layer \in {"exceptions", "cors"}, NEW status \in {200, 401, 422, 429},
         Answer(r, layer, status), log' = log,
         key' = key, context' = context, lost' = lost
  PROVE  EdgeTyped' /\ Follows(r)' /\ Others(r)
<1>1. Sends(r, layer, status, "log")
  BY DEF Answer, Sends
<1> QED
  BY <1>1, SendFollows

\* An AppException.
LEMMA HandledFollows ==
  ASSUME IInv, NEW r \in Requests, pc[r] \in {"router", "limit", "endpoint"},
         Handled(r, 401), key' = key, context' = context, lost' = lost
  PROVE  EdgeTyped' /\ Follows(r)' /\ Others(r)
<1>1. Sends(r, "exceptions", 401, "log")
  BY DEF Handled, Answer, Sends
<1> QED
  BY <1>1, SendFollows

\* The request goes on, or an exception unwinds it.
LEMMA GotoFollows ==
  ASSUME IInv, NEW r \in Requests, pc[r] \in {"router", "limit", "endpoint"},
         NEW step \in {"limit", "endpoint", "unwind"}, step = "limit" => key[r] \in Keys,
         Goto(r, step), key' = key, context' = context, lost' \in 0..MaxLost
  PROVE  EdgeTyped' /\ Follows(r)' /\ Others(r)
<1>1. EdgeTyped /\ Follows(r)
  BY InvariantIsEach DEF TypeOK, EdgeTyped
<1>2. /\ pc' = [pc EXCEPT ![r] = step]
      /\ response' = response /\ log' = log
  BY DEF Goto
<1>3. EdgeTyped'
  BY <1>1, <1>2 DEF EdgeTyped
<1>4. pc'[r] = step /\ context'[r] = r /\ response'[r] = NoResponse /\ log'[r] = {}
  BY <1>1, <1>2 DEF EdgeTyped, Follows
<1>5. Follows(r)'
  BY <1>1, <1>4 DEF Follows
<1>6. Others(r)
  BY <1>1, <1>2 DEF EdgeTyped, Others
<1> QED
  BY <1>3, <1>5, <1>6

LEMMA Completes ==
  ASSUME IInv, NEW r \in Requests, Complete(r)
  PROVE  EdgeTyped' /\ Follows(r)' /\ Others(r)
<1> DEFINE entry == Entry(r, "completed", response[r].status)
<1>1. EdgeTyped /\ Follows(r)
  BY InvariantIsEach DEF TypeOK, EdgeTyped
<1>2. /\ pc[r] = "log"
      /\ log' = [log EXCEPT ![r] = @ \union {entry}]
      /\ pc' = [pc EXCEPT ![r] = "done"]
      /\ key' = [key EXCEPT ![r] = NoKey]
      /\ context' = [context EXCEPT ![r] = NoId]
      /\ response' = response /\ lost' = lost
  BY DEF Complete, End
<1>3. /\ response[r] \in Responses /\ context[r] = r
      /\ response[r] # NoResponse /\ response[r].status # 500
  BY <1>1, <1>2 DEF EdgeTyped, Follows
<1>4. entry \in Entries /\ entry.id = r /\ entry.status = response[r].status
      /\ entry.event = "completed"
  BY <1>3 DEF Entry, Entries, Responses
<1> HIDE DEF entry
<1>5. log'[r] = log[r] \union {entry} /\ pc'[r] = "done" /\ response'[r] = response[r]
  BY <1>1, <1>2 DEF EdgeTyped
<1>6. EdgeTyped'
  BY <1>1, <1>2, <1>4 DEF EdgeTyped
<1>7. Follows(r)'
  BY <1>1, <1>2, <1>3, <1>4, <1>5 DEF Follows
<1>8. Others(r)
  BY <1>1, <1>2 DEF EdgeTyped, Others
<1> QED
  BY <1>6, <1>7, <1>8

LEMMA Crashes ==
  ASSUME IInv, NEW r \in Requests, Crash(r)
  PROVE  EdgeTyped' /\ Follows(r)' /\ Others(r)
<1> DEFINE done == Entry(r, "completed", response'[r].status)
           error == Entry(r, "unhandled", NoStatus)
           bare == [status |-> 500, via |-> {}]
<1>1. EdgeTyped /\ Follows(r)
  BY InvariantIsEach DEF TypeOK, EdgeTyped
<1>2. /\ pc[r] = "unwind"
      /\ log' = [log EXCEPT ![r] = @ \union {done, error}]
      /\ pc' = [pc EXCEPT ![r] = "done"]
      /\ key' = [key EXCEPT ![r] = NoKey]
      /\ context' = [context EXCEPT ![r] = NoId]
      /\ IF response[r] = NoResponse THEN response' = [response EXCEPT ![r] = bare]
         ELSE response' = response
      /\ lost' = lost
  BY Wrapped DEF Crash, End, Send
<1>3. context[r] = r /\ log[r] = {}
  BY <1>1, <1>2 DEF Follows
<1>4. bare \in Responses /\ bare.status = 500 /\ bare # NoResponse
  BY EdgeAssumption DEF Responses, Statuses
<1> HIDE DEF bare
<1>5. /\ response' \in [Requests -> Responses \union {NoResponse}]
      /\ response'[r] \in Responses /\ response'[r] # NoResponse
      /\ \A q \in Requests \ {r} : response'[q] = response[q]
  BY <1>1, <1>2, <1>4 DEF EdgeTyped
<1>6. /\ done \in Entries /\ done.id = r /\ done.event = "completed"
      /\ done.status = response'[r].status
      /\ error \in Entries /\ error.id = r /\ error.event = "unhandled"
      /\ error.status = NoStatus
  BY <1>3, <1>5 DEF Entry, Entries, Responses
<1>7. response[r] # NoResponse =>
        /\ response'[r] = response[r]
        /\ {"request_id", "security", "logging"} \subseteq response[r].via
  BY <1>1, <1>2, <1>3 DEF Follows
<1>8. response[r] = NoResponse => response'[r].status = 500
  BY <1>1, <1>2, <1>4 DEF EdgeTyped
<1> HIDE DEF done, error
<1>9. log'[r] = {done, error} /\ pc'[r] = "done"
  BY <1>1, <1>2, <1>3 DEF EdgeTyped
<1>10. EdgeTyped'
  BY <1>1, <1>2, <1>5, <1>6 DEF EdgeTyped
<1>11. Follows(r)'
  BY <1>5, <1>6, <1>7, <1>8, <1>9 DEF Follows
<1>12. Others(r)
  BY <1>1, <1>2, <1>5 DEF EdgeTyped, Others
<1> QED
  BY <1>10, <1>11, <1>12

\* Every step of a request, told as one of the above.
LEMMA RequestSteps ==
  ASSUME IInv, NEW r \in Requests,
         \/ Arrive(r) \/ Preflight(r) \/ Depend(r) \/ Limited(r) \/ RedisFails(r)
         \/ Endpoint(r) \/ Complete(r) \/ Crash(r)
  PROVE  EdgeTyped' /\ Follows(r)' /\ Others(r)
<1>1. EdgeTyped /\ Follows(r)
  BY InvariantIsEach DEF TypeOK, EdgeTyped
<1>2. lost \in 0..MaxLost /\ MaxLost \in Nat
  BY <1>1, EdgeAssumption DEF EdgeTyped
<1>3. CASE Arrive(r)
  BY <1>3, Arrives
<1>4. CASE Preflight(r)
  BY <1>4, AnswerFollows DEF Preflight
<1>5. CASE Depend(r)
  <2>1. pc[r] = "router" /\ key' = key /\ context' = context /\ lost' = lost
    BY <1>5 DEF Depend
  <2>2. CASE Return(r, 422)
    BY <2>1, <2>2, AnswerFollows DEF Return
  <2>3. CASE Handled(r, 401)
    BY <2>1, <2>3, HandledFollows
  <2>4. CASE Unhandled(r)
    BY <1>2, <2>1, <2>4, GotoFollows DEF Unhandled
  <2>5. CASE Goto(r, IF key[r] = NoKey THEN "endpoint" ELSE "limit")
    <3>1. key[r] \in Keys \union {NoKey}
      BY <1>1 DEF EdgeTyped
    <3>2. CASE key[r] = NoKey
      BY <1>2, <2>1, <2>5, <3>2, GotoFollows
    <3>3. CASE key[r] # NoKey
      BY <1>2, <2>1, <2>5, <3>1, <3>3, GotoFollows
    <3> QED
      BY <3>2, <3>3
  <2> QED
    BY <1>5, <2>2, <2>3, <2>4, <2>5 DEF Depend
<1>6. CASE Limited(r)
  <2>1. pc[r] = "limit" /\ key' = key /\ context' = context /\ lost' = lost
    BY <1>6 DEF Limited
  <2>2. CASE Goto(r, "endpoint")
    BY <1>2, <2>1, <2>2, GotoFollows
  <2>3. CASE Return(r, 429)
    BY <2>1, <2>3, AnswerFollows DEF Return
  <2>4. CASE Unhandled(r)
    BY <1>2, <2>1, <2>4, GotoFollows DEF Unhandled
  <2> QED
    BY <1>6, <2>2, <2>3, <2>4 DEF Limited
<1>7. CASE RedisFails(r)
  <2>1. /\ pc[r] = "limit" /\ key' = key /\ context' = context /\ lost' \in 0..MaxLost
        /\ Unhandled(r) \/ UNCHANGED <<pc, response, log>>
    BY <1>2, <1>7 DEF RedisFails
  <2>2. CASE Unhandled(r)
    BY <2>1, <2>2, GotoFollows DEF Unhandled
  <2>3. CASE UNCHANGED <<pc, response, log>>
    BY <1>1, <2>1, <2>3 DEF EdgeTyped, Follows, Others
  <2> QED
    BY <2>1, <2>2, <2>3
<1>8. CASE Endpoint(r)
  <2>1. pc[r] = "endpoint" /\ key' = key /\ context' = context /\ lost' = lost
    BY <1>8 DEF Endpoint
  <2>2. CASE Send(r, "exceptions", 200) /\ CloseSession(r) /\ UNCHANGED log
    <3>1. PICK step \in {"log", "unwind"} : pc' = [pc EXCEPT ![r] = step]
      BY <2>2 DEF CloseSession
    <3>2. Sends(r, "exceptions", 200, step)
      BY <2>1, <2>2, <3>1 DEF Sends
    <3> QED
      BY <2>1, <3>2, SendFollows
  <2>3. CASE Handled(r, 401)
    BY <2>1, <2>3, HandledFollows
  <2>4. CASE Unhandled(r)
    BY <1>2, <2>1, <2>4, GotoFollows DEF Unhandled
  <2> QED
    BY <1>8, <2>2, <2>3, <2>4 DEF Endpoint
<1>9. CASE Complete(r)
  BY <1>9, Completes
<1>10. CASE Crash(r)
  BY <1>10, Crashes
<1> QED
  BY <1>3, <1>4, <1>5, <1>6, <1>7, <1>8, <1>9, <1>10

LEMMA EdgeStep == IInv /\ [Next]_vars => IInv'
<1> SUFFICES ASSUME IInv, [Next]_vars PROVE IInv'
  OBVIOUS
<1>1. LimiterInv'
  BY LimiterSteps
<1>2. EdgeTyped /\ \A q \in Requests : Follows(q)
  BY InvariantIsEach DEF TypeOK, EdgeTyped
<1>3. EdgeTyped' /\ \A q \in Requests : Follows(q)'
  <2>1. CASE UNCHANGED edgeVars
    BY <1>2, <2>1 DEF edgeVars, EdgeTyped, Follows
  <2>2. ASSUME NEW r \in Requests,
               \/ Arrive(r) \/ Preflight(r) \/ Depend(r) \/ Limited(r) \/ RedisFails(r)
               \/ Endpoint(r) \/ Complete(r) \/ Crash(r)
        PROVE  EdgeTyped' /\ \A q \in Requests : Follows(q)'
    <3>1. EdgeTyped' /\ Follows(r)' /\ Others(r)
      BY <2>2, RequestSteps
    <3> QED
      BY <1>2, <3>1, OthersFollow
  <2> QED
    BY <2>1, <2>2 DEF Next, vars
<1>4. TypeOK'
  BY <1>1, <1>3 DEF TypeOK, EdgeTyped, LimiterInv
<1> QED
  BY <1>1, <1>3, <1>4
  DEF IInv, ContextsAreOwn, LogsFollowSteps, LogTellsAnswer, OnlyCrashesAreBare, Follows

-----------------------------------------------------------------------------
(* The results.                                                            *)

\* The inductive invariant of the edge and its limiter holds, for every number
\* of requests, routes and clients, every limit and every window.
THEOREM IInvHolds == Spec => []IInv
BY EdgeStarts, EdgeStep, PTL DEF Spec

\* The variables stay in their types.
THEOREM TypeCorrect == Spec => []TypeOK
<1>1. IInv => TypeOK
  BY DEF IInv
<1> QED
  BY <1>1, IInvHolds, PTL

\* Fewer than twice the limit get through in any stretch of time as long as a
\* window (endpoints/auth.py:50).
THEOREM BoundHolds == Spec => []SlidingBound
<1>1. IInv => SlidingBound
  BY BoundSlides DEF IInv
<1> QED
  BY <1>1, IInvHolds, PTL

\* A refusal has its cause in the client's own recent hits
\* (endpoints/auth.py:50).
THEOREM RefusalsHaveCauses == Spec => []RefusedForCause
<1>1. IInv => RefusedForCause
  BY CausesAreRecent DEF IInv
<1> QED
  BY <1>1, IInvHolds, PTL

\* Logs tell each request's own id and the status its client got
\* (logging.py:25-42).
THEOREM LogsAreTrue == Spec => []LogTellsAnswer
<1>1. IInv => LogTellsAnswer
  BY DEF IInv
<1> QED
  BY <1>1, IInvHolds, PTL

\* Only unhandled exceptions, logged as such, are answered without the id and
\* the security headers (main.py:44-51).
THEOREM HeadersAreThere == Spec => []OnlyCrashesAreBare
<1>1. IInv => OnlyCrashesAreBare
  BY DEF IInv
<1> QED
  BY <1>1, IInvHolds, PTL

-----------------------------------------------------------------------------
(* The long run: a stretch of time is cut into blocks of a window's length. *)

\* Arithmetic of quotients, which the solver knows when asked for no more.
LEMMA Quotient ==
  ASSUME NEW x \in Nat, NEW w \in Nat \ {0}
  PROVE  x \div w \in Nat /\ (x \div w = 0 => x < w)
BY SMTT(30)

LEMMA BlockInRange ==
  ASSUME NEW x \in Nat, NEW w \in Nat \ {0}, NEW n \in Nat, x < n * w
  PROVE  x \div w \in 0..(n - 1)
BY SMTT(30)

LEMMA BlocksApart ==
  ASSUME NEW x \in Nat, NEW y \in Nat, NEW w \in Nat \ {0}, x + w <= y
  PROVE  x \div w < y \div w
BY SMTT(30)

\* n numbers for each block are enough, and the first is used once.
LEMMA NumbersDiffer ==
  ASSUME NEW a \in Nat, NEW b \in Nat, NEW n \in Nat \ {0}, NEW i \in 1..n, NEW j \in 1..n,
         a * n + i = b * n + j
  PROVE  a = b /\ i = j
BY SMTT(30)

LEMMA NumberInRange ==
  ASSUME NEW m \in Nat, NEW a \in 0..(m - 1), NEW n \in Nat \ {0}, NEW i \in 1..n
  PROVE  a * n + i \in 1..(m * n) /\ (a * n + i = 1 => a = 0 /\ i = 1)
BY SMTT(30)

LEMMA Products ==
  ASSUME NEW m \in Nat \ {0}, NEW n \in Nat \ {0}
  PROVE  /\ m * n \in Nat \ {0} /\ (m + 1) * n = m * n + n
         /\ m * n <= (m + 1) * n - 1
         /\ m + 1 \in Nat
BY SMTT(30)

\* There are p numbers from 1 to p, and one fewer from 2.
LEMMA FirstNumbers ==
  ASSUME NEW p \in Nat \ {0}
  PROVE  /\ IsFiniteSet(1..p) /\ Cardinality(1..p) = p
         /\ IsFiniteSet(2..p) /\ Cardinality(2..p) = p - 1
<1>1. p - 1 + 1 = p /\ p - 2 + 1 = p - 1 /\ 1 \in Int /\ 2 \in Int /\ p \in Int
      /\ (2 > p => p - 1 = 0) /\ ~(1 > p)
  OBVIOUS
<1> QED
  BY <1>1, FS_Interval

\* Admitted hits whose windows end within m blocks after c can be numbered from
\* 1 to m times the limit; number 1 goes to a first hit of the first block.
LEMMA NumberedByBlocks ==
  ASSUME LimiterInv, NEW k \in Keys, NEW c \in Nat, NEW m \in Nat,
         NEW S, S \subseteq { h \in admitted : h.key = k },
         \A h \in S : c <= h.until /\ h.until - c < m * Window
  PROVE  \E f \in Injection(S, 1..(m * Limit[k])) :
           \A h \in S : f[h] = 1 => h.slot = 1 /\ h.until < c + Window
<1> DEFINE n == Limit[k]
           block(h) == (h.until - c) \div Window
           f == [h \in S |-> block(h) * n + h.slot]
<1>1. n \in Nat \ {0} /\ Window \in Nat \ {0}
  BY LimiterAssumption
<1>2. \A h \in S : h \in hits /\ h.key = k /\ h.slot \in 1..n /\ h.until \in Nat
  BY <1>1 DEF LimiterInv, LimiterTypeOK, Hits, Sorted, Admits
<1>3. \A g, h \in S : g.until # h.until =>
        g.until + Window <= h.until \/ h.until + Window <= g.until
  BY <1>2 DEF LimiterInv, WindowsApart
<1>4. \A g, h \in S : g.until = h.until /\ g.slot = h.slot => g = h
  BY <1>2 DEF LimiterInv, HitsNumbered, SameWindow
<1> HIDE DEF n
<1>5. ASSUME NEW h \in S
      PROVE  /\ h.until - c \in Nat
             /\ block(h) \in Nat /\ block(h) \in 0..(m - 1)
             /\ block(h) = 0 => h.until < c + Window
  <2>1. h.until - c \in Nat /\ h.until - c < m * Window /\ h.until \in Nat
    BY <1>2
  <2>2. block(h) \in Nat /\ (block(h) = 0 => h.until - c < Window)
    BY <1>1, <2>1, Quotient
  <2>3. block(h) \in 0..(m - 1)
    BY <1>1, <2>1, BlockInRange
  <2> QED
    BY <1>1, <2>1, <2>2, <2>3
<1>6. ASSUME NEW g \in S, NEW h \in S, g.until + Window <= h.until
      PROVE  block(g) < block(h)
  <2>1. g.until - c \in Nat /\ h.until - c \in Nat /\ (g.until - c) + Window <= h.until - c
    BY <1>1, <1>2, <1>5, <1>6
  <2> QED
    BY <1>1, <2>1, BlocksApart
<1> HIDE DEF block
<1>7. ASSUME NEW h \in S
      PROVE  f[h] \in 1..(m * n) /\ (f[h] = 1 => h.slot = 1 /\ h.until < c + Window)
  BY <1>1, <1>2, <1>5, NumberInRange
<1>8. ASSUME NEW g \in S, NEW h \in S, f[g] = f[h] PROVE g = h
  <2>1. block(g) = block(h) /\ g.slot = h.slot
    <3>1. block(g) * n + g.slot = block(h) * n + h.slot
      BY <1>8
    <3>2. /\ block(g) \in Nat /\ block(h) \in Nat /\ n \in Nat \ {0}
          /\ g.slot \in 1..n /\ h.slot \in 1..n
      BY <1>1, <1>2, <1>5
    <3>3. \A a, b \in Nat : \A i, j \in 1..n :
            a * n + i = b * n + j => a = b /\ i = j
      BY <1>1, NumbersDiffer
    <3> QED
      BY ONLY <3>1, <3>2, <3>3, Zenon
  <2>2. g.until = h.until
    BY <1>3, <1>5, <1>6, <2>1
  <2> QED
    BY <1>4, <2>1, <2>2
<1>9. f \in Injection(S, 1..(m * n))
  BY <1>7, <1>8 DEF Injection, IsInjective
<1> QED
  BY <1>7, <1>9 DEF n

\* The admitted hits of a client on a route in a stretch of m windows.
AdmittedWithin(k, t, m) ==
  { h \in admitted : h.key = k /\ h.at \in t..(t + m * Window - 1) }

\* Whatever stretch of m windows' length is looked at.
LongRunBound ==
  \A k \in Keys, t \in 0..MaxClock, m \in Nat \ {0} :
    Cardinality(AdmittedWithin(k, t, m)) <= (m + 1) * Limit[k] - 1

LEMMA BoundInTheLongRun == LimiterInv => LongRunBound
<1> SUFFICES ASSUME LimiterInv, NEW k \in Keys, NEW t \in 0..MaxClock, NEW m \in Nat \ {0}
             PROVE  Cardinality(AdmittedWithin(k, t, m)) <= (m + 1) * Limit[k] - 1
  BY DEF LongRunBound
<1> DEFINE S == AdmittedWithin(k, t, m)
           n == Limit[k]
<1>1. n \in Nat \ {0} /\ Window \in Nat \ {0} /\ t \in Nat
  BY LimiterAssumption
<1>2. /\ m * Window \in Nat \ {0} /\ (m + 1) * Window = m * Window + Window
      /\ m * n \in Nat \ {0} /\ (m + 1) * n = m * n + n
      /\ m * n <= (m + 1) * n - 1 /\ (m + 1) * n \in Nat /\ m + 1 \in Nat
  BY <1>1, Products
<1>3. S \subseteq { h \in admitted : h.key = k }
  BY DEF AdmittedWithin
<1>4. \A h \in S : /\ h \in hits /\ h.at \in Nat /\ h.until \in Nat
                   /\ t <= h.at /\ h.at <= t + m * Window - 1
                   /\ h.at < h.until /\ h.until <= h.at + Window
                   /\ h.slot = 1 => h.until = h.at + Window
  BY <1>1, <1>2 DEF AdmittedWithin, LimiterInv, LimiterTypeOK, Hits, WindowsFollowClock
<1> HIDE DEF S, n
<1>5. CASE \E e \in S : e.slot = 1 /\ e.until <= t + Window
  \* A window begins with the stretch, which so meets no more than m of them.
  <2>1. PICK e \in S : e.slot = 1 /\ e.until <= t + Window
    BY <1>5
  <2>2. e.until = t + Window
    BY <1>1, <1>4, <2>1
  <2>3. \A h \in S : t + Window <= h.until
    <3>1. \A h \in S : \/ h.until = e.until \/ h.until + Window <= e.until
                       \/ e.until + Window <= h.until
      BY <1>3, <1>4 DEF LimiterInv, WindowsApart
    <3> QED
      BY <1>1, <1>4, <2>2, <3>1
  <2>4. \A h \in S : h.until - (t + Window) < m * Window
    BY <1>1, <1>2, <1>4
  <2>5. \E f : f \in Injection(S, 1..(m * n))
    <3>1. t + Window \in Nat
      BY <1>1
    <3> QED
      BY <1>3, <2>3, <2>4, <3>1, NumberedByBlocks DEF n
  <2>6. IsFiniteSet(1..(m * n)) /\ Cardinality(1..(m * n)) = m * n
    BY <1>2, FirstNumbers, Zenon
  <2>7. IsFiniteSet(S) /\ Cardinality(S) \in Nat /\ Cardinality(S) <= m * n
    BY <2>5, <2>6, FS_Injection, FS_CardinalityType
  <2> QED
    BY <1>2, <2>7 DEF S, n
<1>6. CASE ~ \E e \in S : e.slot = 1 /\ e.until <= t + Window
  \* The window that is open when the stretch begins has lost its first hit.
  <2>1. \A h \in S : t + 1 <= h.until /\ h.until - (t + 1) < (m + 1) * Window
    BY <1>1, <1>2, <1>4
  <2>2. PICK f \in Injection(S, 1..((m + 1) * n)) :
          \A h \in S : f[h] = 1 => h.slot = 1 /\ h.until < (t + 1) + Window
    <3>1. t + 1 \in Nat /\ m + 1 \in Nat
      BY <1>1
    <3> QED
      BY <1>3, <2>1, <3>1, NumberedByBlocks DEF n
  <2>3. \A h \in S : f[h] # 1
    BY <1>1, <1>4, <1>6, <2>2
  <2>4. f \in Injection(S, 2..((m + 1) * n))
    <3>1. f \in [S -> 1..((m + 1) * n)] /\ \A g, h \in S : f[g] = f[h] => g = h
      BY <2>2 DEF Injection, IsInjective
    <3>2. \A h \in S : f[h] \in 2..((m + 1) * n)
      BY <1>2, <2>3, <3>1
    <3> QED
      BY <3>1, <3>2 DEF Injection, IsInjective
  <2>5. IsFiniteSet(2..((m + 1) * n)) /\ Cardinality(2..((m + 1) * n)) = (m + 1) * n - 1
    <3>1. (m + 1) * n \in Nat \ {0}
      BY <1>1, Products
    <3> QED
      BY <3>1, FirstNumbers, Zenon
  <2>6. IsFiniteSet(S) /\ Cardinality(S) \in Nat /\ Cardinality(S) <= (m + 1) * n - 1
    BY <2>4, <2>5, FS_Injection, FS_CardinalityType
  <2> QED
    BY <2>6 DEF S, n
<1> QED
  BY <1>5, <1>6

\* In the long run a client gets through to a route no more often than its
\* limit per window, and once more: an hour of 5/minute is at most 304 logins,
\* however they are timed (endpoints/auth.py:50).
THEOREM LongRunBoundHolds == Spec => []LongRunBound
<1>1. IInv => LongRunBound
  BY BoundInTheLongRun DEF IInv
<1> QED
  BY <1>1, IInvHolds, PTL
=============================================================================
