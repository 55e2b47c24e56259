------------------------ MODULE SessionLedgerProofs ------------------------
(* What the ledger guarantees, for any number of pairs and requests.       *)
EXTENDS SessionLedger, TLAPS

\* The ledger's variables keep their types.
THEOREM LedgerTyped == LedgerSpec => []LedgerTypeOK
<1>1. LedgerInit => LedgerTypeOK
  BY DEF LedgerInit, LedgerTypeOK
<1>2. LedgerTypeOK /\ [LedgerNext]_ledgerVars => LedgerTypeOK'
  <2> SUFFICES ASSUME LedgerTypeOK, [LedgerNext]_ledgerVars PROVE LedgerTypeOK'
    OBVIOUS
  <2> USE DEF LedgerTypeOK
  <2>1. ASSUME NEW p \in Pairs, Open(p) PROVE LedgerTypeOK'
    BY <2>1 DEF Open, Birth
  <2>2. ASSUME NEW r \in Requests, NEW p \in Pairs, Grant(r, p) PROVE LedgerTypeOK'
    BY <2>2 DEF Grant
  <2>3. ASSUME NEW r \in Requests, NEW p \in Pairs, Exchange(r, p) PROVE LedgerTypeOK'
    BY <2>3 DEF Exchange, Birth
  <2>4. ASSUME NEW r \in Requests, Forfeit(r) PROVE LedgerTypeOK'
    BY <2>4 DEF Forfeit
  <2>5. ASSUME NEW S \in SUBSET Pairs, Kill(S) PROVE LedgerTypeOK'
    BY <2>5 DEF Kill
  <2>6. ASSUME UNCHANGED ledgerVars PROVE LedgerTypeOK'
    BY <2>6 DEF ledgerVars
  <2> QED
    BY <2>1, <2>2, <2>3, <2>4, <2>5, <2>6 DEF LedgerNext
<1> QED
  BY <1>1, <1>2, PTL DEF LedgerSpec

\* No pair is live, or ever was, beside the pair it replaced: an unborn pair
\* has no origin, and a dead one never returns (refresh_user_token).
THEOREM NoPairBesideItsSource ==
  ASSUME NoPair \notin Pairs, Root \notin Pairs
  PROVE  LedgerSpec => []ReplacedIsDead
<1> DEFINE Inv == \A p \in Pairs : origin[p] \in Pairs => status[origin[p]] = "dead"
<1>1. LedgerInit => Inv
  BY DEF LedgerInit
<1>2. LedgerTypeOK /\ Inv /\ [LedgerNext]_ledgerVars => Inv'
  <2> SUFFICES ASSUME LedgerTypeOK, Inv, [LedgerNext]_ledgerVars PROVE Inv'
    OBVIOUS
  <2> USE DEF LedgerTypeOK
  <2>1. ASSUME NEW p \in Pairs, Open(p) PROVE Inv'
    BY <2>1 DEF Open, Birth
  <2>2. ASSUME NEW r \in Requests, NEW p \in Pairs, Grant(r, p) PROVE Inv'
    BY <2>2 DEF Grant
  <2>3. ASSUME NEW r \in Requests, NEW p \in Pairs, Exchange(r, p) PROVE Inv'
    BY <2>3 DEF Exchange, Birth
  <2>4. ASSUME NEW r \in Requests, Forfeit(r) PROVE Inv'
    BY <2>4 DEF Forfeit
  <2>5. ASSUME NEW S \in SUBSET Pairs, Kill(S) PROVE Inv'
    BY <2>5 DEF Kill
  <2>6. ASSUME UNCHANGED ledgerVars PROVE Inv'
    BY <2>6 DEF ledgerVars
  <2> QED
    BY <2>1, <2>2, <2>3, <2>4, <2>5, <2>6 DEF LedgerNext
<1>3. Inv => ReplacedIsDead
  BY DEF ReplacedIsDead
<1> QED
  BY LedgerTyped, <1>1, <1>2, <1>3, PTL DEF LedgerSpec
=============================================================================
