--------------------------- MODULE SessionLedger ---------------------------
(***************************************************************************)
(* What the refresh-token service promises, with Redis, clocks and the     *)
(* order of commands abstracted away.  A token pair is unborn, then live,  *)
(* then dead, and never comes back.  A pair is born from a login, or from  *)
(* a request that saw an earlier pair live (its grant); a grant pays for   *)
(* at most one birth, and the pair it was given for is dead by then.       *)
(* AuthSessions implements this specification.                             *)
(***************************************************************************)
CONSTANTS
  Pairs,     \* identities of token pairs
  Requests,  \* HTTP requests
  NoPair,    \* "no pair"
  Root       \* origin of a pair that a login created

VARIABLES
  status,    \* life cycle of each pair
  origin,    \* what each pair was born from
  grant      \* the pair a request saw live and has not yet exchanged

ledgerVars == <<status, origin, grant>>

LedgerTypeOK ==
  /\ status \in [Pairs -> {"unborn", "live", "dead"}]
  /\ origin \in [Pairs -> Pairs \union {NoPair, Root}]
  /\ grant \in [Requests -> Pairs \union {NoPair}]

LedgerInit ==
  /\ status = [p \in Pairs |-> "unborn"]
  /\ origin = [p \in Pairs |-> NoPair]
  /\ grant = [r \in Requests |-> NoPair]

Birth(p, from) ==
  /\ status[p] = "unborn"
  /\ status' = [status EXCEPT ![p] = "live"]
  /\ origin' = [origin EXCEPT ![p] = from]

\* A login starts a session.
Open(p) == Birth(p, Root) /\ UNCHANGED grant

\* A request finds the pair it presents live.
Grant(r, p) ==
  /\ status[p] = "live"
  /\ grant[r] = NoPair
  /\ grant' = [grant EXCEPT ![r] = p]
  /\ UNCHANGED <<status, origin>>

\* A granted request exchanges a pair that is dead by now for a new one.
Exchange(r, p) ==
  /\ grant[r] \in Pairs
  /\ status[grant[r]] = "dead"
  /\ Birth(p, grant[r])
  /\ grant' = [grant EXCEPT ![r] = NoPair]

\* A granted request gives up: rejected account, error, lost worker.
Forfeit(r) ==
  /\ grant' = [grant EXCEPT ![r] = NoPair]
  /\ UNCHANGED origin
  /\ \/ UNCHANGED status
     \/ grant[r] \in Pairs /\ status' = [status EXCEPT ![grant[r]] = "dead"]

\* Pairs die: revoked one at a time, or expired together.
Kill(S) ==
  /\ \A p \in S : status[p] = "live"
  /\ status' = [p \in Pairs |-> IF p \in S THEN "dead" ELSE status[p]]
  /\ UNCHANGED <<origin, grant>>

LedgerNext ==
  \/ \E p \in Pairs : Open(p)
  \/ \E r \in Requests, p \in Pairs : Grant(r, p) \/ Exchange(r, p)
  \/ \E r \in Requests : Forfeit(r)
  \/ \E S \in SUBSET Pairs : Kill(S)

LedgerSpec == LedgerInit /\ [][LedgerNext]_ledgerVars

-----------------------------------------------------------------------------
\* A session is never held twice through one exchange: when a pair is live,
\* the pair it replaced is dead (auth/service.py revokes before it issues).
ReplacedIsDead ==
  \A p \in Pairs :
    (status[p] # "unborn" /\ origin[p] \in Pairs) => status[origin[p]] = "dead"
=============================================================================
