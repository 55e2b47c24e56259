---------------------------- MODULE RateLimiter ----------------------------
(***************************************************************************)
(* The fixed-window limiter of core/limiter.py: slowapi counts, in Redis,  *)
(* the hits of a client on a route.  The first hit of a window creates the *)
(* counter and its expiry in one script; a hit beyond the limit is refused *)
(* but counted.  The counters are Redis's: all workers share them.         *)
(*                                                                         *)
(* slowapi and Redis are external; what the code uses of them is modelled. *)
(***************************************************************************)
EXTENDS Integers, FiniteSets

CONSTANTS
  Keys,       \* a counter per limited route and client address
  Limit,      \* per key: 5, 20, 30 or 3
  Window,     \* "/minute"
  MaxClock    \* bound: how far time goes

ASSUME LimiterAssumption ==
  /\ Limit \in [Keys -> Nat \ {0}]
  /\ Window \in Nat \ {0}
  /\ MaxClock \in Nat

VARIABLES
  clock,
  counter,    \* Redis: the value and the expiry of each key's counter
  hits,       \* every INCR that was carried out
  admitted,   \* the hits whose requests went on to their endpoints
  refused     \* the hits beyond the limit, to be answered 429

limiterVars == <<clock, counter, hits, admitted, refused>>

\* A hit is told by what its INCR returned, and when the counter expires.
Hits == [key : Keys, slot : Nat \ {0}, at : 0..MaxClock, until : Nat]

LimiterTypeOK ==
  /\ clock \in 0..MaxClock
  /\ counter \in [Keys -> [count : Nat, expires : Nat]]
  /\ hits \subseteq Hits /\ IsFiniteSet(hits)
  /\ admitted \subseteq hits
  /\ refused \subseteq hits

LimiterInit ==
  /\ clock = 0
  /\ counter = [k \in Keys |-> [count |-> 0, expires |-> 0]]
  /\ hits = {}
  /\ admitted = {}
  /\ refused = {}

Tick ==
  /\ clock < MaxClock
  /\ clock' = clock + 1
  /\ UNCHANGED <<counter, hits, admitted, refused>>

-----------------------------------------------------------------------------
(* One hit.                                                                *)

\* Redis drops a counter when it expires.
Alive(k) == clock < counter[k].expires

\* Faulty variant: every hit, refused ones included, renews the expiry.
HitRenews(k) ==
  [ key |-> k, at |-> clock, until |-> clock + Window,
    slot |-> IF Alive(k) THEN counter[k].count + 1 ELSE 1 ]

\* Faulty variant: windows begin at multiples of their length, whoever hits.
HitAligned(k) ==
  [ key |-> k, at |-> clock,
    slot |-> IF Alive(k) THEN counter[k].count + 1 ELSE 1,
    until |-> (clock \div Window + 1) * Window ]

Hit(k) ==
  [ key |-> k, at |-> clock,
    slot  |-> IF Alive(k) THEN counter[k].count + 1 ELSE 1,
    until |-> IF Alive(k) THEN counter[k].expires ELSE clock + Window ]

\* Faulty variant: a GET and a SET, between which another hit may come.
CountUnlocked(k) ==
  /\ \E n \in {counter[k].count, Hit(k).slot} :
       counter' = [counter EXCEPT ![k] = [count |-> n, expires |-> Hit(k).until]]
  /\ hits' = hits \union {Hit(k)}
  /\ UNCHANGED clock

\* The INCR and the EXPIRE of the storage's script.
Count(k) ==
  /\ counter' = [counter EXCEPT ![k] = [count |-> Hit(k).slot, expires |-> Hit(k).until]]
  /\ hits' = hits \union {Hit(k)}
  /\ UNCHANGED clock

Admits(h) == h.slot <= Limit[h.key]

Admit(k) ==
  /\ Admits(Hit(k))
  /\ Count(k)
  /\ admitted' = admitted \union {Hit(k)}
  /\ UNCHANGED refused

Refuse(k) ==
  /\ ~Admits(Hit(k))
  /\ Count(k)
  /\ refused' = refused \union {Hit(k)}
  /\ UNCHANGED admitted

\* The reply of the script is lost.
LoseReply(k) ==
  /\ Count(k)
  /\ UNCHANGED <<admitted, refused>>

-----------------------------------------------------------------------------
(* What a fixed window promises.                                           *)

\* Whatever window of time is looked at, and not only those the counter keeps,
\* fewer than twice the limit of a client's requests get through to a route in
\* it (endpoints/auth.py:50): the first hit of a counter opens its window.
SlidingBound ==
  \A k \in Keys, t \in 0..MaxClock :
    Cardinality({ h \in admitted : h.key = k /\ h.at \in t..(t + Window - 1) })
      <= 2 * Limit[k] - 1

\* A client is refused only for its own hits on that route within the last
\* window's length: refused hits count, but never put off the end of the
\* window, so that waiting out a window is enough (endpoints/auth.py:50).
RefusedForCause ==
  \A h \in refused :
    Limit[h.key] <=
      Cardinality({ g \in hits \ {h} : g.key = h.key /\ g.at \in (h.at - Window + 1)..h.at })

-----------------------------------------------------------------------------
(* Why: a counter's windows are a window's length apart, and within one of *)
(* them the hits are numbered, without a gap and without a repetition.     *)

SameWindow(g, h) == g.key = h.key /\ g.until = h.until

WindowsFollowClock ==
  /\ \A k \in Keys :
       /\ counter[k].expires <= clock + Window
       /\ counter[k].count = 0 => counter[k].expires <= clock
  /\ \A h \in hits :
       /\ h.at <= clock /\ h.at < h.until /\ h.until <= h.at + Window
       /\ h.slot = 1 => h.until = h.at + Window

WindowsApart ==
  /\ \A g, h \in hits :
       g.key = h.key => \/ g.until = h.until
                        \/ g.until + Window <= h.until
                        \/ h.until + Window <= g.until
  /\ \A h \in hits :
       \/ h.until = counter[h.key].expires /\ h.slot <= counter[h.key].count
       \/ h.until + Window <= counter[h.key].expires

HitsNumbered ==
  /\ \A g, h \in hits : SameWindow(g, h) /\ g.slot = h.slot => g = h
  /\ \A h \in hits : \A i \in 1..h.slot :
       \E g \in hits : SameWindow(g, h) /\ g.slot = i /\ g.at <= h.at
  /\ \A k \in Keys : \A i \in 1..counter[k].count :
       \E g \in hits : g.key = k /\ g.until = counter[k].expires /\ g.slot = i

Sorted ==
  /\ \A h \in admitted : Admits(h)
  /\ \A h \in refused : ~Admits(h)

LimiterInv ==
  /\ LimiterTypeOK
  /\ WindowsFollowClock
  /\ WindowsApart
  /\ HitsNumbered
  /\ Sorted
=============================================================================
