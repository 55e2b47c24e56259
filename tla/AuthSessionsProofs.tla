------------------------- MODULE AuthSessionsProofs -------------------------
(***************************************************************************)
(* Proofs about the token sessions, for any number of users, requests and  *)
(* token pairs and any lifetimes.                                          *)
(***************************************************************************)
EXTENDS AuthSessions, TLAPS

\* An expiry never moves later when PyJWT drops the fraction of the second.
LEMMA WholeSecondsBelow ==
  ASSUME NEW t \in Nat
  PROVE  WholeSeconds(t) \in Nat /\ WholeSeconds(t) <= t
<1>1. Second \in Nat \ {0}
  BY ClockAssumption
<1>2. t % Second \in 0 .. (Second - 1)
  BY <1>1, SMT
<1>3. t % Second <= t
  BY <1>1, SMT
<1> QED
  BY <1>1, <1>2, <1>3 DEF WholeSeconds

-----------------------------------------------------------------------------
(* Type correctness.                                                       *)

\* The initial states have the right types.
LEMMA TypeInit == Init => TypeOK
<1> SUFFICES ASSUME Init PROVE TypeOK
  OBVIOUS
<1>1. now \in 0 .. MaxTime
  BY ClockAssumption DEF Init
<1>2. token \in [Pairs -> Tokens]
  BY DEF Init, Unsigned, Tokens
<1> QED
  BY <1>1, <1>2 DEF Init, TypeOK, Absent, Steps, Answers

\* What IInv says of the pairs a request names at the steps that use them.
LEMMA PairsInPlay ==
  ASSUME IInv, NEW r \in Requests
  PROVE  /\ pc[r] \in {"verify", "load", "revoke", "revokeRejected", "revokeOwn"}
              => tok[r] \in Pairs /\ tok[r] \in delivered
         /\ pc[r] \in {"store", "respond"} => pair[r] \in Pairs /\ pair[r] \notin delivered
         /\ now + RefreshTTL \in Nat
  BY ClockAssumption DEF IInv, TypeOK, StepsFollowEndpoint, PairsHaveOneSigner

\* What SignTokens changes: p is fresh, and only p and r are touched.
SignedBy(r, p) ==
  /\ p \notin delivered /\ p \notin killed /\ deadline[p] = Absent
  /\ \A s \in Requests : pair[s] # p
  /\ token' \in [Pairs -> Tokens]
  /\ \A q \in Pairs : q # p => token'[q] = token[q]
  /\ token'[p].sub = user[r] /\ user[r] \in Users
  /\ token'[p].refreshExp \in Nat /\ token'[p].refreshExp <= now + RefreshTTL
  /\ token'[p].from = IF op[r] = "refresh" THEN tok[r] ELSE Root
  /\ pair' = [pair EXCEPT ![r] = p]

\* SignTokens changes what SignedBy says.
LEMMA SignedPair ==
  ASSUME IInv, NEW r \in Requests, SignTokens(r)
  PROVE  \E p \in Pairs : SignedBy(r, p)
<1> DEFINE signed == [ sub |-> user[r],
                       accessExp |-> WholeSeconds(now + AccessTTL),
                       refreshExp |-> WholeSeconds(now + RefreshTTL),
                       from |-> IF op[r] = "refresh" THEN tok[r] ELSE Root ]
<1>1. PICK p \in Pairs : /\ token[p] = Unsigned
                        /\ token' = [token EXCEPT ![p] = signed]
                        /\ pair' = [pair EXCEPT ![r] = p]
  BY DEF SignTokens
<1>2. token[p].sub \notin Users
  BY <1>1, IdentityAssumption DEF Unsigned
<1>3. /\ p \notin delivered /\ p \notin killed /\ deadline[p] = Absent
      /\ \A s \in Requests : pair[s] # p
  BY <1>2, IdentityAssumption DEF IInv, PairsHaveOneSigner, KilledStaysAbsent
<1>4. /\ now + AccessTTL \in Nat
      /\ now + RefreshTTL \in Nat
  BY ClockAssumption DEF IInv, TypeOK
<1>5. /\ WholeSeconds(now + AccessTTL) \in Nat
      /\ WholeSeconds(now + RefreshTTL) \in Nat
      /\ WholeSeconds(now + RefreshTTL) <= now + RefreshTTL
  BY <1>4, WholeSecondsBelow
<1>6. /\ user[r] \in Users
      /\ signed \in Tokens
  BY <1>5 DEF SignTokens, IInv, TypeOK, StepsFollowEndpoint, Tokens
<1>7. /\ token' \in [Pairs -> Tokens]
      /\ token'[p] = signed
      /\ \A q \in Pairs : q # p => token'[q] = token[q]
  BY <1>1, <1>6 DEF IInv, TypeOK
<1> QED
  BY <1>1, <1>3, <1>5, <1>6, <1>7 DEF SignedBy

\* Every action keeps the types.
LEMMA TypeStep == IInv /\ [Next]_vars => TypeOK'
<1> SUFFICES ASSUME IInv, [Next]_vars PROVE TypeOK'
  OBVIOUS
<1> USE DEF IInv, TypeOK, redisVars, argVars, Steps, Answers
<1>1. ASSUME NEW r \in Requests, NEW u \in Users, BeginLogin(r, u) PROVE TypeOK'
  BY <1>1 DEF BeginLogin, Arguments, Goto, Answer
<1>2. ASSUME NEW r \in Requests, SignTokens(r) PROVE TypeOK'
  <2>1. PICK p \in Pairs : SignedBy(r, p)
    BY <1>2, SignedPair
  <2> QED
    BY <1>2, <2>1 DEF SignedBy, SignTokens, Goto
<1>3. ASSUME NEW r \in Requests, StoreJti(r) PROVE TypeOK'
  BY <1>3, PairsInPlay DEF StoreJti, SetKey, Goto
<1>4. ASSUME NEW r \in Requests, Respond(r) PROVE TypeOK'
  BY <1>4, PairsInPlay DEF Respond, Answer
<1>5. ASSUME NEW r \in Requests, NEW p \in Pairs, BeginRefresh(r, p) PROVE TypeOK'
  BY <1>5 DEF BeginRefresh, Arguments, Goto, Answer, StepsFollowEndpoint, PairsHaveOneSigner, Tokens
<1>6. ASSUME NEW r \in Requests, VerifyJti(r) PROVE TypeOK'
  BY <1>6 DEF VerifyJti, Goto, Answer
<1>7. ASSUME NEW r \in Requests, LoadUser(r) PROVE TypeOK'
  BY <1>7 DEF LoadUser, Goto, Answer
<1>8. ASSUME NEW r \in Requests, RevokeOld(r) PROVE TypeOK'
  BY <1>8, PairsInPlay DEF RevokeOld, DelKey, Goto
<1>9. ASSUME NEW r \in Requests, RevokeRejected(r) PROVE TypeOK'
  BY <1>9, PairsInPlay DEF RevokeRejected, DelKey, Answer
<1>10. ASSUME NEW r \in Requests, NEW a \in Pairs, NEW p \in Pairs, BeginLogout(r, a, p)
       PROVE  TypeOK'
  BY <1>10 DEF BeginLogout, Arguments, Goto, Answer, Tokens
<1>11. ASSUME NEW r \in Requests, RevokeOwn(r) PROVE TypeOK'
  BY <1>11, PairsInPlay DEF RevokeOwn, DelKey, Answer
<1>12. ASSUME NEW r \in Requests, RedisError(r) PROVE TypeOK'
  BY <1>12, PairsInPlay DEF RedisError, SetKey, DelKey, Answer
<1>13. ASSUME NEW r \in Requests, Abandon(r) PROVE TypeOK'
  BY <1>13 DEF Abandon, Answer
<1>14. ASSUME NEW u \in Users, NEW s \in {"active", "inactive", "deleted"}, SetAccount(u, s)
       PROVE  TypeOK'
  BY <1>14 DEF SetAccount
<1>15. ASSUME Tick PROVE TypeOK'
  BY <1>15, ClockAssumption DEF Tick
<1>16. ASSUME UNCHANGED vars PROVE TypeOK'
  BY <1>16 DEF vars
<1> QED
  BY <1>1, <1>2, <1>3, <1>4, <1>5, <1>6, <1>7, <1>8, <1>9, <1>10,
     <1>11, <1>12, <1>13, <1>14, <1>15, <1>16
     DEF Next, Begin, Proceed, Fault

\* Every action keeps steps, endpoints and arguments in line.
LEMMA EndpointStep == IInv /\ [Next]_vars => StepsFollowEndpoint'
<1> SUFFICES ASSUME IInv, [Next]_vars PROVE StepsFollowEndpoint'
  OBVIOUS
<1> USE DEF IInv, TypeOK, redisVars, argVars, StepsFollowEndpoint
<1>1. ASSUME NEW r \in Requests, NEW u \in Users, BeginLogin(r, u)
      PROVE  StepsFollowEndpoint'
  BY <1>1 DEF BeginLogin, Arguments, Goto, Answer
<1>2. ASSUME NEW r \in Requests, SignTokens(r) PROVE StepsFollowEndpoint'
  <2>1. PICK p \in Pairs : SignedBy(r, p)
    BY <1>2, SignedPair
  <2> QED
    BY <1>2, <2>1 DEF SignedBy, SignTokens, Goto
<1>3. ASSUME NEW r \in Requests, StoreJti(r) PROVE StepsFollowEndpoint'
  BY <1>3 DEF StoreJti, SetKey, Goto
<1>4. ASSUME NEW r \in Requests, Respond(r) PROVE StepsFollowEndpoint'
  BY <1>4 DEF Respond, Answer
<1>5. ASSUME NEW r \in Requests, NEW p \in Pairs, BeginRefresh(r, p)
      PROVE  StepsFollowEndpoint'
  BY <1>5 DEF BeginRefresh, Arguments, Goto, Answer, PairsHaveOneSigner
<1>6. ASSUME NEW r \in Requests, VerifyJti(r) PROVE StepsFollowEndpoint'
  BY <1>6 DEF VerifyJti, Goto, Answer
<1>7. ASSUME NEW r \in Requests, LoadUser(r) PROVE StepsFollowEndpoint'
  BY <1>7 DEF LoadUser, Goto, Answer
<1>8. ASSUME NEW r \in Requests, RevokeOld(r) PROVE StepsFollowEndpoint'
  BY <1>8 DEF RevokeOld, DelKey, Goto
<1>9. ASSUME NEW r \in Requests, RevokeRejected(r) PROVE StepsFollowEndpoint'
  BY <1>9 DEF RevokeRejected, DelKey, Answer
<1>10. ASSUME NEW r \in Requests, NEW a \in Pairs, NEW p \in Pairs, BeginLogout(r, a, p)
       PROVE  StepsFollowEndpoint'
  BY <1>10 DEF BeginLogout, Arguments, Goto, Answer, PairsHaveOneSigner
<1>11. ASSUME NEW r \in Requests, RevokeOwn(r) PROVE StepsFollowEndpoint'
  BY <1>11 DEF RevokeOwn, DelKey, Answer
<1>12. ASSUME NEW r \in Requests, RedisError(r) PROVE StepsFollowEndpoint'
  BY <1>12 DEF RedisError, SetKey, DelKey, Answer
<1>13. ASSUME NEW r \in Requests, Abandon(r) PROVE StepsFollowEndpoint'
  BY <1>13 DEF Abandon, Answer
<1>14. ASSUME NEW u \in Users, NEW s \in {"active", "inactive", "deleted"}, SetAccount(u, s)
       PROVE  StepsFollowEndpoint'
  BY <1>14 DEF SetAccount
<1>15. ASSUME Tick PROVE StepsFollowEndpoint'
  BY <1>15 DEF Tick
<1>16. ASSUME UNCHANGED vars PROVE StepsFollowEndpoint'
  BY <1>16 DEF vars
<1> QED
  BY <1>1, <1>2, <1>3, <1>4, <1>5, <1>6, <1>7, <1>8, <1>9, <1>10,
     <1>11, <1>12, <1>13, <1>14, <1>15, <1>16
     DEF Next, Begin, Proceed, Fault

\* A signed pair keeps its one signer, and stays unseen until it is stored.
LEMMA SignerStep == IInv /\ [Next]_vars => PairsHaveOneSigner'
<1> SUFFICES ASSUME IInv, [Next]_vars PROVE PairsHaveOneSigner'
  OBVIOUS
<1> USE DEF IInv, TypeOK, redisVars, argVars, StepsFollowEndpoint, PairsHaveOneSigner
<1>1. ASSUME NEW r \in Requests, NEW u \in Users, BeginLogin(r, u)
      PROVE  PairsHaveOneSigner'
  BY <1>1 DEF BeginLogin, Arguments, Goto, Answer
<1>2. ASSUME NEW r \in Requests, SignTokens(r) PROVE PairsHaveOneSigner'
  <2>1. PICK p \in Pairs : SignedBy(r, p)
    BY <1>2, SignedPair
  <2> QED
    BY <1>2, <2>1, IdentityAssumption DEF SignedBy, SignTokens, Goto
<1>3. ASSUME NEW r \in Requests, StoreJti(r) PROVE PairsHaveOneSigner'
  <2>1. \A s \in Requests : pc'[s] = "store" => pc[s] = "store" /\ pair[s] # pair[r]
    BY <1>3, PairsInPlay, IdentityAssumption DEF StoreJti, SetKey, Goto
  <2>2. \A s \in Requests : pc'[s] = "store" => deadline'[pair[s]] = Absent
    BY <1>3, <2>1, PairsInPlay DEF StoreJti, SetKey, Goto
  <2>3. \A p \in Pairs : p \in delivered \/ deadline'[p] # Absent => token[p].sub \in Users
    BY <1>3, PairsInPlay, IdentityAssumption DEF StoreJti, SetKey, Goto
  <2> QED
    BY <1>3, <2>1, <2>2, <2>3, PairsInPlay DEF StoreJti, SetKey, Goto
<1>4. ASSUME NEW r \in Requests, Respond(r) PROVE PairsHaveOneSigner'
  <2>1. \A s \in Requests : pc'[s] \in {"store", "respond"} => pc[s] = pc'[s] /\ pair[s] # pair[r]
    BY <1>4, PairsInPlay, IdentityAssumption DEF Respond, Answer
  <2>2. \A p \in Pairs : p \in delivered' \/ deadline[p] # Absent => token[p].sub \in Users
    BY <1>4, PairsInPlay, IdentityAssumption DEF Respond
  <2> QED
    BY <1>4, <2>1, <2>2, PairsInPlay DEF Respond, Answer
<1>5. ASSUME NEW r \in Requests, NEW p \in Pairs, BeginRefresh(r, p)
      PROVE  PairsHaveOneSigner'
  BY <1>5 DEF BeginRefresh, Arguments, Goto, Answer
<1>6. ASSUME NEW r \in Requests, VerifyJti(r) PROVE PairsHaveOneSigner'
  BY <1>6 DEF VerifyJti, Goto, Answer
<1>7. ASSUME NEW r \in Requests, LoadUser(r) PROVE PairsHaveOneSigner'
  BY <1>7 DEF LoadUser, Goto, Answer
<1>8. ASSUME NEW r \in Requests, RevokeOld(r) PROVE PairsHaveOneSigner'
  BY <1>8 DEF RevokeOld, DelKey, Goto
<1>9. ASSUME NEW r \in Requests, RevokeRejected(r) PROVE PairsHaveOneSigner'
  BY <1>9 DEF RevokeRejected, DelKey, Answer
<1>10. ASSUME NEW r \in Requests, NEW a \in Pairs, NEW p \in Pairs, BeginLogout(r, a, p)
       PROVE  PairsHaveOneSigner'
  BY <1>10 DEF BeginLogout, Arguments, Goto, Answer
<1>11. ASSUME NEW r \in Requests, RevokeOwn(r) PROVE PairsHaveOneSigner'
  BY <1>11 DEF RevokeOwn, DelKey, Answer
<1>12. ASSUME NEW r \in Requests, RedisError(r) PROVE PairsHaveOneSigner'
  <2>1. \A s \in Requests : pc'[s] = "store" => pc[s] = "store" /\ pair[s] # pair[r]
    BY <1>12, PairsInPlay, IdentityAssumption DEF RedisError, SetKey, DelKey, Answer
  <2>2. \A s \in Requests : pc'[s] = "store" => deadline'[pair[s]] = Absent
    BY <1>12, <2>1, PairsInPlay DEF RedisError, SetKey, DelKey, Answer
  <2>3. \A p \in Pairs : p \in delivered \/ deadline'[p] # Absent => token[p].sub \in Users
    BY <1>12, PairsInPlay, IdentityAssumption DEF RedisError, SetKey, DelKey, Answer
  <2> QED
    BY <1>12, <2>1, <2>2, <2>3, PairsInPlay DEF RedisError, SetKey, DelKey, Answer
<1>13. ASSUME NEW r \in Requests, Abandon(r) PROVE PairsHaveOneSigner'
  BY <1>13 DEF Abandon, Answer
<1>14. ASSUME NEW u \in Users, NEW s \in {"active", "inactive", "deleted"}, SetAccount(u, s)
       PROVE  PairsHaveOneSigner'
  BY <1>14 DEF SetAccount
<1>15. ASSUME Tick PROVE PairsHaveOneSigner'
  BY <1>15 DEF Tick
<1>16. ASSUME UNCHANGED vars PROVE PairsHaveOneSigner'
  BY <1>16 DEF vars
<1> QED
  BY <1>1, <1>2, <1>3, <1>4, <1>5, <1>6, <1>7, <1>8, <1>9, <1>10,
     <1>11, <1>12, <1>13, <1>14, <1>15, <1>16
     DEF Next, Begin, Proceed, Fault

\* No action sets a deleted key again, and only its owner deletes one.
LEMMA KilledStep == IInv /\ [Next]_vars => KilledStaysAbsent'
<1> SUFFICES ASSUME IInv, [Next]_vars PROVE KilledStaysAbsent'
  OBVIOUS
<1> USE DEF IInv, TypeOK, redisVars, argVars, StepsFollowEndpoint, KilledStaysAbsent
<1>1. ASSUME NEW r \in Requests, NEW u \in Users, BeginLogin(r, u)
      PROVE  KilledStaysAbsent'
  <2>1. \A p \in killed : \E s \in Requests : s # r /\ tok[s] = p /\ user[s] = token[p].sub
    BY <1>1, IdentityAssumption DEF Arguments, BeginLogin
  <2> QED
    BY <1>1, <2>1 DEF BeginLogin, Arguments, Goto, Answer
<1>2. ASSUME NEW r \in Requests, SignTokens(r) PROVE KilledStaysAbsent'
  <2>1. PICK p \in Pairs : SignedBy(r, p)
    BY <1>2, SignedPair
  <2> QED
    BY <1>2, <2>1 DEF SignedBy, SignTokens, Goto
<1>3. ASSUME NEW r \in Requests, StoreJti(r) PROVE KilledStaysAbsent'
  BY <1>3, PairsInPlay DEF StoreJti, SetKey, Goto
<1>4. ASSUME NEW r \in Requests, Respond(r) PROVE KilledStaysAbsent'
  BY <1>4 DEF Respond, Answer
<1>5. ASSUME NEW r \in Requests, NEW p \in Pairs, BeginRefresh(r, p)
      PROVE  KilledStaysAbsent'
  <2>1. \A q \in killed : \E s \in Requests : s # r /\ tok[s] = q /\ user[s] = token[q].sub
    BY <1>5, IdentityAssumption DEF Arguments, BeginRefresh
  <2> QED
    BY <1>5, <2>1 DEF BeginRefresh, Arguments, Goto, Answer
<1>6. ASSUME NEW r \in Requests, VerifyJti(r) PROVE KilledStaysAbsent'
  BY <1>6 DEF VerifyJti, Goto, Answer
<1>7. ASSUME NEW r \in Requests, LoadUser(r) PROVE KilledStaysAbsent'
  BY <1>7 DEF LoadUser, Goto, Answer
<1>8. ASSUME NEW r \in Requests, RevokeOld(r) PROVE KilledStaysAbsent'
  BY <1>8, PairsInPlay DEF RevokeOld, DelKey, Goto
<1>9. ASSUME NEW r \in Requests, RevokeRejected(r) PROVE KilledStaysAbsent'
  BY <1>9, PairsInPlay DEF RevokeRejected, DelKey, Answer
<1>10. ASSUME NEW r \in Requests, NEW a \in Pairs, NEW p \in Pairs, BeginLogout(r, a, p)
       PROVE  KilledStaysAbsent'
  <2>1. \A q \in killed : \E s \in Requests : s # r /\ tok[s] = q /\ user[s] = token[q].sub
    BY <1>10, IdentityAssumption DEF Arguments, BeginLogout
  <2> QED
    BY <1>10, <2>1 DEF BeginLogout, Arguments, Goto, Answer
<1>11. ASSUME NEW r \in Requests, RevokeOwn(r) PROVE KilledStaysAbsent'
  BY <1>11, PairsInPlay DEF RevokeOwn, MayRevoke, DelKey, Answer
<1>12. ASSUME NEW r \in Requests, RedisError(r) PROVE KilledStaysAbsent'
  BY <1>12, PairsInPlay DEF RedisError, MayRevoke, SetKey, DelKey, Answer
<1>13. ASSUME NEW r \in Requests, Abandon(r) PROVE KilledStaysAbsent'
  BY <1>13 DEF Abandon, Answer
<1>14. ASSUME NEW u \in Users, NEW s \in {"active", "inactive", "deleted"}, SetAccount(u, s)
       PROVE  KilledStaysAbsent'
  BY <1>14 DEF SetAccount
<1>15. ASSUME Tick PROVE KilledStaysAbsent'
  BY <1>15 DEF Tick
<1>16. ASSUME UNCHANGED vars PROVE KilledStaysAbsent'
  BY <1>16 DEF vars
<1> QED
  BY <1>1, <1>2, <1>3, <1>4, <1>5, <1>6, <1>7, <1>8, <1>9, <1>10,
     <1>11, <1>12, <1>13, <1>14, <1>15, <1>16
     DEF Next, Begin, Proceed, Fault

\* Answers that report a revocation keep pointing to deleted keys.
LEMMA RevocationStep == IInv /\ [Next]_vars => RevocationsAreKilled'
<1> SUFFICES ASSUME IInv, [Next]_vars PROVE RevocationsAreKilled'
  OBVIOUS
<1> USE DEF IInv, TypeOK, redisVars, argVars, StepsFollowEndpoint, RevocationsAreKilled, Exchanged, LoggedOut, RefreshValid
<1>1. ASSUME NEW r \in Requests, NEW u \in Users, BeginLogin(r, u)
      PROVE  RevocationsAreKilled'
  BY <1>1 DEF BeginLogin, Arguments, Goto, Answer
<1>2. ASSUME NEW r \in Requests, SignTokens(r) PROVE RevocationsAreKilled'
  <2>1. PICK p \in Pairs : SignedBy(r, p)
    BY <1>2, SignedPair
  <2> QED
    BY <1>2, <2>1, IdentityAssumption DEF SignedBy, SignTokens, Goto
<1>3. ASSUME NEW r \in Requests, StoreJti(r) PROVE RevocationsAreKilled'
  BY <1>3 DEF StoreJti, SetKey, Goto
<1>4. ASSUME NEW r \in Requests, Respond(r) PROVE RevocationsAreKilled'
  BY <1>4 DEF Respond, Answer
<1>5. ASSUME NEW r \in Requests, NEW p \in Pairs, BeginRefresh(r, p)
      PROVE  RevocationsAreKilled'
  BY <1>5 DEF BeginRefresh, Arguments, Goto, Answer
<1>6. ASSUME NEW r \in Requests, VerifyJti(r) PROVE RevocationsAreKilled'
  BY <1>6 DEF VerifyJti, Goto, Answer
<1>7. ASSUME NEW r \in Requests, LoadUser(r) PROVE RevocationsAreKilled'
  BY <1>7 DEF LoadUser, Goto, Answer
<1>8. ASSUME NEW r \in Requests, RevokeOld(r) PROVE RevocationsAreKilled'
  BY <1>8 DEF RevokeOld, DelKey, Goto
<1>9. ASSUME NEW r \in Requests, RevokeRejected(r) PROVE RevocationsAreKilled'
  BY <1>9 DEF RevokeRejected, DelKey, Answer
<1>10. ASSUME NEW r \in Requests, NEW a \in Pairs, NEW p \in Pairs, BeginLogout(r, a, p)
       PROVE  RevocationsAreKilled'
  BY <1>10 DEF BeginLogout, Arguments, Goto, Answer
<1>11. ASSUME NEW r \in Requests, RevokeOwn(r) PROVE RevocationsAreKilled'
  BY <1>11 DEF RevokeOwn, DelKey, Answer
<1>12. ASSUME NEW r \in Requests, RedisError(r) PROVE RevocationsAreKilled'
  BY <1>12 DEF RedisError, SetKey, DelKey, Answer
<1>13. ASSUME NEW r \in Requests, Abandon(r) PROVE RevocationsAreKilled'
  BY <1>13 DEF Abandon, Answer
<1>14. ASSUME NEW u \in Users, NEW s \in {"active", "inactive", "deleted"}, SetAccount(u, s)
       PROVE  RevocationsAreKilled'
  BY <1>14 DEF SetAccount
<1>15. ASSUME Tick PROVE RevocationsAreKilled'
  BY <1>15 DEF Tick, Tokens
<1>16. ASSUME UNCHANGED vars PROVE RevocationsAreKilled'
  BY <1>16 DEF vars
<1> QED
  BY <1>1, <1>2, <1>3, <1>4, <1>5, <1>6, <1>7, <1>8, <1>9, <1>10,
     <1>11, <1>12, <1>13, <1>14, <1>15, <1>16
     DEF Next, Begin, Proceed, Fault

\* The key of a pair keeps outliving its refresh token.
LEMMA TtlStep == IInv /\ [Next]_vars => TtlCoversToken'
<1> SUFFICES ASSUME IInv, [Next]_vars PROVE TtlCoversToken'
  OBVIOUS
<1> USE DEF IInv, TypeOK, redisVars, argVars, TtlCoversToken
<1>1. ASSUME NEW r \in Requests, NEW u \in Users, BeginLogin(r, u)
      PROVE  TtlCoversToken'
  BY <1>1 DEF BeginLogin, Arguments, Goto, Answer
<1>2. ASSUME NEW r \in Requests, SignTokens(r) PROVE TtlCoversToken'
  <2>1. PICK p \in Pairs : SignedBy(r, p)
    BY <1>2, SignedPair
  <2> QED
    BY <1>2, <2>1 DEF SignedBy, SignTokens, Goto
<1>3. ASSUME NEW r \in Requests, StoreJti(r) PROVE TtlCoversToken'
  BY <1>3, PairsInPlay DEF StoreJti, SetKey, Goto
<1>4. ASSUME NEW r \in Requests, Respond(r) PROVE TtlCoversToken'
  BY <1>4 DEF Respond, Answer
<1>5. ASSUME NEW r \in Requests, NEW p \in Pairs, BeginRefresh(r, p)
      PROVE  TtlCoversToken'
  BY <1>5 DEF BeginRefresh, Arguments, Goto, Answer
<1>6. ASSUME NEW r \in Requests, VerifyJti(r) PROVE TtlCoversToken'
  BY <1>6 DEF VerifyJti, Goto, Answer
<1>7. ASSUME NEW r \in Requests, LoadUser(r) PROVE TtlCoversToken'
  BY <1>7 DEF LoadUser, Goto, Answer
<1>8. ASSUME NEW r \in Requests, RevokeOld(r) PROVE TtlCoversToken'
  BY <1>8, PairsInPlay DEF RevokeOld, DelKey, Goto
<1>9. ASSUME NEW r \in Requests, RevokeRejected(r) PROVE TtlCoversToken'
  BY <1>9, PairsInPlay DEF RevokeRejected, DelKey, Answer
<1>10. ASSUME NEW r \in Requests, NEW a \in Pairs, NEW p \in Pairs, BeginLogout(r, a, p)
       PROVE  TtlCoversToken'
  BY <1>10 DEF BeginLogout, Arguments, Goto, Answer
<1>11. ASSUME NEW r \in Requests, RevokeOwn(r) PROVE TtlCoversToken'
  BY <1>11, PairsInPlay DEF RevokeOwn, DelKey, Answer
<1>12. ASSUME NEW r \in Requests, RedisError(r) PROVE TtlCoversToken'
  BY <1>12, PairsInPlay DEF RedisError, SetKey, DelKey, Answer
<1>13. ASSUME NEW r \in Requests, Abandon(r) PROVE TtlCoversToken'
  BY <1>13 DEF Abandon, Answer
<1>14. ASSUME NEW u \in Users, NEW s \in {"active", "inactive", "deleted"}, SetAccount(u, s)
       PROVE  TtlCoversToken'
  BY <1>14 DEF SetAccount
<1>15. ASSUME Tick PROVE TtlCoversToken'
  BY <1>15, ClockAssumption, PairsInPlay DEF Tick, Tokens
<1>16. ASSUME UNCHANGED vars PROVE TtlCoversToken'
  BY <1>16 DEF vars
<1> QED
  BY <1>1, <1>2, <1>3, <1>4, <1>5, <1>6, <1>7, <1>8, <1>9, <1>10,
     <1>11, <1>12, <1>13, <1>14, <1>15, <1>16
     DEF Next, Begin, Proceed, Fault

\* A refusal keeps its cause.
LEMMA RefusedStep == IInv /\ [Next]_vars => RefusedForCause'
<1> SUFFICES ASSUME IInv, [Next]_vars PROVE RefusedForCause'
  OBVIOUS
<1> USE DEF IInv, TypeOK, redisVars, argVars, StepsFollowEndpoint, RefusedForCause, RefreshValid
<1>1. ASSUME NEW r \in Requests, NEW u \in Users, BeginLogin(r, u)
      PROVE  RefusedForCause'
  BY <1>1 DEF BeginLogin, Arguments, Goto, Answer
<1>2. ASSUME NEW r \in Requests, SignTokens(r) PROVE RefusedForCause'
  <2>1. PICK p \in Pairs : SignedBy(r, p)
    BY <1>2, SignedPair
  <2> QED
    BY <1>2, <2>1 DEF SignedBy, SignTokens, Goto
<1>3. ASSUME NEW r \in Requests, StoreJti(r) PROVE RefusedForCause'
  BY <1>3 DEF StoreJti, SetKey, Goto
<1>4. ASSUME NEW r \in Requests, Respond(r) PROVE RefusedForCause'
  BY <1>4 DEF Respond, Answer
<1>5. ASSUME NEW r \in Requests, NEW p \in Pairs, BeginRefresh(r, p)
      PROVE  RefusedForCause'
  BY <1>5 DEF BeginRefresh, Arguments, Goto, Answer
<1>6. ASSUME NEW r \in Requests, VerifyJti(r) PROVE RefusedForCause'
  BY <1>6 DEF VerifyJti, Goto, Answer, Stored, TtlCoversToken, Tokens, Absent
<1>7. ASSUME NEW r \in Requests, LoadUser(r) PROVE RefusedForCause'
  BY <1>7 DEF LoadUser, Goto, Answer
<1>8. ASSUME NEW r \in Requests, RevokeOld(r) PROVE RefusedForCause'
  BY <1>8 DEF RevokeOld, DelKey, Goto
<1>9. ASSUME NEW r \in Requests, RevokeRejected(r) PROVE RefusedForCause'
  BY <1>9 DEF RevokeRejected, DelKey, Answer
<1>10. ASSUME NEW r \in Requests, NEW a \in Pairs, NEW p \in Pairs, BeginLogout(r, a, p)
       PROVE  RefusedForCause'
  BY <1>10 DEF BeginLogout, Arguments, Goto, Answer
<1>11. ASSUME NEW r \in Requests, RevokeOwn(r) PROVE RefusedForCause'
  BY <1>11 DEF RevokeOwn, DelKey, Answer
<1>12. ASSUME NEW r \in Requests, RedisError(r) PROVE RefusedForCause'
  BY <1>12 DEF RedisError, SetKey, DelKey, Answer
<1>13. ASSUME NEW r \in Requests, Abandon(r) PROVE RefusedForCause'
  BY <1>13 DEF Abandon, Answer
<1>14. ASSUME NEW u \in Users, NEW s \in {"active", "inactive", "deleted"}, SetAccount(u, s)
       PROVE  RefusedForCause'
  BY <1>14 DEF SetAccount
<1>15. ASSUME Tick PROVE RefusedForCause'
  BY <1>15 DEF Tick, Tokens
<1>16. ASSUME UNCHANGED vars PROVE RefusedForCause'
  BY <1>16 DEF vars
<1> QED
  BY <1>1, <1>2, <1>3, <1>4, <1>5, <1>6, <1>7, <1>8, <1>9, <1>10,
     <1>11, <1>12, <1>13, <1>14, <1>15, <1>16
     DEF Next, Begin, Proceed, Fault

-----------------------------------------------------------------------------
(* The inductive invariant and what follows from it.                       *)

\* The initial states satisfy the inductive invariant.
LEMMA IInvInit == Init => IInv
<1> SUFFICES ASSUME Init PROVE IInv
  OBVIOUS
<1> USE DEF Init
<1>1. TypeOK
  BY TypeInit
<1>2. StepsFollowEndpoint
  BY DEF StepsFollowEndpoint
<1>3. PairsHaveOneSigner
  BY DEF PairsHaveOneSigner
<1>4. KilledStaysAbsent
  BY DEF KilledStaysAbsent
<1>5. RevocationsAreKilled
  BY IdentityAssumption DEF RevocationsAreKilled, Unsigned, Exchanged, LoggedOut
<1>6. TtlCoversToken
  BY DEF TtlCoversToken
<1>7. RefusedForCause
  BY DEF RefusedForCause
<1> QED
  BY <1>1, <1>2, <1>3, <1>4, <1>5, <1>6, <1>7 DEF IInv

\* The inductive invariant of login, refresh and logout (auth/service.py) holds
\* in every reachable state, with faults or without.
THEOREM IInvHolds == Spec => []IInv
<1>1. IInv /\ [Next]_vars => IInv'
  BY TypeStep, EndpointStep, SignerStep, KilledStep, RevocationStep, TtlStep,
     RefusedStep DEF IInv
<1> QED
  BY IInvInit, <1>1, PTL DEF Spec

\* Every variable keeps its type: a DEL or a SET only ever names a signed pair.
THEOREM TypeCorrect == Spec => []TypeOK
<1>1. IInv => TypeOK
  BY DEF IInv
<1> QED
  BY IInvHolds, <1>1, PTL

\* A key that a DEL was issued for is not in Redis.
LEMMA KilledNotStored ==
  ASSUME IInv, NEW p \in killed
  PROVE  ~Stored(p)
  BY DEF IInv, TypeOK, KilledStaysAbsent, Stored, Absent

\* The token of an answered refresh or logout is never stored again
\* (refresh_user_token, logout_user), under every interleaving and fault.
THEOREM RevocationFinal == Spec => []RevocationIsFinal
<1>1. IInv => RevocationIsFinal
  BY KilledNotStored DEF RevocationIsFinal, IInv, RevocationsAreKilled
<1> QED
  BY IInvHolds, <1>1, PTL

\* "Refresh token has been revoked" is never said of a token that is valid
\* and that nobody revoked, for every TTL and every rounding of "exp".
THEOREM RefusalsHaveCause == Spec => []RefusedForCause
<1>1. IInv => RefusedForCause
  BY DEF IInv
<1> QED
  BY IInvHolds, <1>1, PTL

\* The key of a replaced pair is never in Redis beside that of its successor.
THEOREM ReplacedIsGone == Spec => []ReplacedNotStored
<1>1. IInv => ReplacedNotStored
  BY KilledNotStored DEF ReplacedNotStored, IInv, RevocationsAreKilled
<1> QED
  BY IInvHolds, <1>1, PTL

\* A token rejected for its account stays revoked when the account returns.
THEOREM RejectedIsFinal == Spec => []RejectedStaysRevoked
<1>1. IInv => RejectedStaysRevoked
  BY KilledNotStored DEF RejectedStaysRevoked, IInv, RevocationsAreKilled
<1> QED
  BY IInvHolds, <1>1, PTL

\* A session ends by its owner or by its expiry: no other user's request, no
\* fault and no TTL takes a valid refresh token out of Redis.
THEOREM OwnerEndsSession == Spec => []OnlyOwnerEndsSession
<1>1. ASSUME IInv PROVE OnlyOwnerEndsSession
  <2> SUFFICES ASSUME NEW p \in delivered, RefreshValid(p),
                      \A r \in Requests : tok[r] = p => user[r] # token[p].sub
               PROVE  Stored(p)
    BY DEF OnlyOwnerEndsSession
  <2>1. p \in delivered \ killed
    BY <1>1 DEF IInv, KilledStaysAbsent
  <2> QED
    BY <1>1, <2>1 DEF IInv, TypeOK, TtlCoversToken, Tokens, RefreshValid, Stored, Absent
<1> QED
  BY IInvHolds, <1>1, PTL

\* That request r explains why the key of p is gone.
Explains(r, p) ==
  /\ tok[r] = p
  /\ \/ op[r] = "refresh" /\ pc[r] \in {"sign", "store", "respond"}
     \/ Exchanged(r)
     \/ LoggedOut(r)
     \/ op[r] = "refresh" /\ answer[r] = "invalidToken401"
     \/ Faults /\ answer[r] \in {"error500", "lost"}

\* An explanation lasts, and whoever deletes a key explains it.
LEMMA ExplanationStep ==
  ASSUME IInv, [Next]_vars
  PROVE  /\ \A r \in Requests, p \in Pairs : Explains(r, p) => Explains(r, p)'
         /\ \A p \in killed' \ killed : \E r \in Requests : Explains(r, p)'
<1> USE DEF IInv, TypeOK
<1>1. ASSUME NEW s \in Requests, Begin(s) \/ Proceed(s) \/ Fault(s)
      PROVE  /\ \A r \in Requests \ {s} :
                  UNCHANGED <<tok[r], op[r], pc[r], answer[r]>>
             /\ \A p \in Pairs : Explains(s, p) => Explains(s, p)'
             /\ \A p \in killed' \ killed : Explains(s, p)'
  <2> USE DEF Explains, Exchanged, LoggedOut
  <2>1. CASE Begin(s)
    <3>1. pc[s] = "new" /\ answer[s] = "none" /\ op[s] = "none"
      BY <2>1 DEF Begin, BeginLogin, BeginRefresh, BeginLogout, Arguments, StepsFollowEndpoint
    <3>2. /\ killed' = killed
          /\ \A r \in Requests \ {s} : UNCHANGED <<tok[r], op[r], pc[r], answer[r]>>
      BY <2>1 DEF Begin, BeginLogin, BeginRefresh, BeginLogout, Arguments, Goto, Answer, redisVars
    <3> QED
      BY <3>1, <3>2
  <2>2. CASE SignTokens(s) \/ StoreJti(s) \/ Respond(s)
    BY <2>2 DEF SignTokens, StoreJti, Respond, SetKey, Goto, Answer, redisVars, argVars,
                StepsFollowEndpoint
  <2>3. CASE VerifyJti(s) \/ LoadUser(s)
    BY <2>3 DEF VerifyJti, LoadUser, Goto, Answer, redisVars, argVars, StepsFollowEndpoint
  <2>4. CASE RevokeOld(s) \/ RevokeRejected(s)
    BY <2>4 DEF RevokeOld, RevokeRejected, DelKey, Goto, Answer, argVars, StepsFollowEndpoint
  <2>5. CASE RevokeOwn(s)
    BY <2>5 DEF RevokeOwn, DelKey, Answer, redisVars, argVars, StepsFollowEndpoint
  <2>6. CASE RedisError(s)
    BY <2>6 DEF RedisError, DelKey, SetKey, Answer, redisVars, argVars, StepsFollowEndpoint
  <2>7. CASE Abandon(s)
    BY <2>7 DEF Abandon, Answer, redisVars, argVars, StepsFollowEndpoint
  <2> QED
    BY <1>1, <2>1, <2>2, <2>3, <2>4, <2>5, <2>6, <2>7 DEF Proceed, Fault
<1>2. ASSUME Tick \/ (\E u \in Users, s \in {"active", "inactive", "deleted"} : SetAccount(u, s))
             \/ UNCHANGED vars
      PROVE  UNCHANGED <<tok, op, pc, answer, killed>>
  BY <1>2 DEF Tick, SetAccount, vars, argVars, redisVars
<1>3. ASSUME NEW r \in Requests, UNCHANGED <<tok[r], op[r], pc[r], answer[r]>>, NEW p \in Pairs,
             Explains(r, p)
      PROVE  Explains(r, p)'
  BY <1>3 DEF Explains, Exchanged, LoggedOut
<1> QED
  BY <1>1, <1>2, <1>3 DEF Next

\* A refresh token is given up for a new pair, by a logout, for an account
\* that is gone, or by a fault that its owner was told of or saw.
THEOREM EndsHaveCause == Spec => []SessionsEndForCause
<1>1. SessionsEndForCause <=> \A p \in killed : \E r \in Requests : Explains(r, p)
  BY DEF SessionsEndForCause, Explains
<1>2. Init => SessionsEndForCause
  BY DEF Init, SessionsEndForCause
<1>3. IInv /\ SessionsEndForCause /\ [Next]_vars => SessionsEndForCause'
  <2> SUFFICES ASSUME IInv, \A p \in killed : \E r \in Requests : Explains(r, p), [Next]_vars,
                      NEW p \in killed'
               PROVE  \E r \in Requests : Explains(r, p)'
    BY <1>1 DEF SessionsEndForCause, Explains
  <2>1. killed \subseteq Pairs
    BY DEF IInv, TypeOK
  <2> QED
    BY <2>1, ExplanationStep
<1> QED
  BY IInvHolds, <1>2, <1>3, PTL DEF Spec

\* Request r can still only be refused the exchange of p.
TooLate(r, p) ==
  /\ p \in killed
  /\ op[r] = "refresh" /\ tok[r] = p => pc[r] = "verify" \/ (pc[r] = "done" /\ answer[r] # "ok200")

\* How far the reuse of a token goes: once its key was deleted, by a refresh, a
\* logout or a rejection, a request that has not yet passed the test of Redis
\* is never answered with a new pair.  Only requests that were past it are.
THEOREM LateRefreshFails ==
  ASSUME NEW r \in Requests, NEW p \in Pairs
  PROVE  Spec => []( p \in killed /\ pc[r] \in {"new", "verify"}
                       => [](tok[r] = p => ~Exchanged(r)) )
<1>1. IInv /\ p \in killed /\ pc[r] \in {"new", "verify"} => TooLate(r, p)
  BY DEF IInv, StepsFollowEndpoint, TooLate
<1>2. IInv /\ TooLate(r, p) => (tok[r] = p => ~Exchanged(r))
  BY DEF IInv, StepsFollowEndpoint, TooLate, Exchanged
<1>3. IInv /\ TooLate(r, p) /\ [Next]_vars => TooLate(r, p)'
  <2> SUFFICES ASSUME IInv, TooLate(r, p), [Next]_vars PROVE TooLate(r, p)'
    OBVIOUS
  <2> USE DEF IInv, TypeOK, TooLate
  <2>1. ~Stored(p)
    BY KilledNotStored
  <2>2. ASSUME NEW s \in Requests, Begin(s) \/ Proceed(s) \/ Fault(s) PROVE TooLate(r, p)'
    <3>1. p \in killed'
      BY <2>2 DEF Begin, Proceed, Fault, BeginLogin, BeginRefresh, BeginLogout, SignTokens,
                  StoreJti, Respond, VerifyJti, LoadUser, RevokeOld, RevokeRejected, RevokeOwn,
                  RedisError, Abandon, SetKey, DelKey, redisVars
    <3>2. CASE Begin(s)
      <4>1. /\ \A t \in Requests \ {s} : UNCHANGED <<tok[t], op[t], pc[t], answer[t]>>
            /\ op'[s] = "refresh" => pc'[s] = "verify" \/ (pc'[s] = "done" /\ answer'[s] # "ok200")
        BY <3>2 DEF Begin, BeginLogin, BeginRefresh, BeginLogout, Arguments, Goto, Answer
      <4> QED
        BY <3>1, <4>1
    <3>3. CASE SignTokens(s) \/ StoreJti(s) \/ Respond(s)
      BY <3>1, <3>3 DEF SignTokens, StoreJti, Respond, Goto, Answer, argVars
    <3>4. CASE VerifyJti(s) \/ LoadUser(s)
      BY <2>1, <3>1, <3>4 DEF VerifyJti, LoadUser, Goto, Answer, argVars
    <3>5. CASE RevokeOld(s) \/ RevokeRejected(s) \/ RevokeOwn(s)
      BY <3>1, <3>5 DEF RevokeOld, RevokeRejected, RevokeOwn, Goto, Answer, argVars
    <3>6. CASE RedisError(s) \/ Abandon(s)
      BY <3>1, <3>6 DEF RedisError, Abandon, Answer, argVars
    <3> QED
      BY <2>2, <3>2, <3>3, <3>4, <3>5, <3>6 DEF Proceed, Fault
  <2>3. ASSUME Tick \/ (\E u \in Users, s \in {"active", "inactive", "deleted"} : SetAccount(u, s))
               \/ UNCHANGED vars
        PROVE  TooLate(r, p)'
    BY <2>3 DEF Tick, SetAccount, vars, argVars, redisVars
  <2> QED
    BY <2>2, <2>3 DEF Next
<1> QED
  BY IInvHolds, <1>1, <1>2, <1>3, PTL DEF Spec

-----------------------------------------------------------------------------
(* The sessions implement the ledger.                                      *)

\* How the status of a pair reads off Redis and the history of DELs.
LEMMA StatusFacts ==
  ASSUME IInv, NEW p \in Pairs
  PROVE  /\ StatusOf(p) \in {"unborn", "live", "dead"}
         /\ StatusOf(p) = "live" <=> Stored(p)
         /\ p \in killed => StatusOf(p) = "dead"
         /\ deadline[p] = Absent /\ p \notin killed => StatusOf(p) = "unborn"
         /\ p \in delivered => StatusOf(p) # "unborn"
<1>1. ~Stored(p) <=> ~(now <= deadline[p])
  BY DEF Stored
<1>2. p \in killed => ~Stored(p)
  BY KilledNotStored
<1>3. deadline[p] = Absent => ~Stored(p)
  BY DEF Stored, IInv, TypeOK, Absent
<1>4. p \in delivered => p \in killed \/ deadline[p] # Absent
  BY DEF IInv, TypeOK, TtlCoversToken, Tokens, Absent
<1> QED
  BY <1>2, <1>3, <1>4 DEF StatusOf

\* A step that leaves every projection alone is a stutter of the ledger.
LEMMA LedgerStutter ==
  ASSUME \A p \in Pairs : StatusOf(p)' = StatusOf(p) /\ OriginOf(p)' = OriginOf(p),
         \A r \in Requests : GrantOf(r)' = GrantOf(r)
  PROVE  UNCHANGED Ledger!ledgerVars
  BY DEF Ledger!ledgerVars

\* Status and origin read nothing but the clock, Redis and the signed tokens.
LEMMA SameRedis ==
  ASSUME UNCHANGED <<now, deadline, killed, token>>
  PROVE  \A p \in Pairs : StatusOf(p)' = StatusOf(p) /\ OriginOf(p)' = OriginOf(p)
  BY DEF StatusOf, OriginOf, Stored

\* Before any login the ledger is empty.
LEMMA LedgerInitMaps == Init => Ledger!LedgerInit
<1> SUFFICES ASSUME Init PROVE Ledger!LedgerInit
  OBVIOUS
<1>1. \A p \in Pairs : StatusOf(p) = "unborn"
  BY IInvInit, StatusFacts DEF Init
<1>2. \A r \in Requests : GrantOf(r) = NoPair
  BY DEF Init, GrantOf
<1> QED
  BY <1>1, <1>2 DEF Ledger!LedgerInit, OriginOf

\* What a DEL and a SET do to the ledger's view of the pairs.
LEMMA AfterDel ==
  ASSUME IInv, NEW q \in delivered, DelKey(q), UNCHANGED <<now, token>>
  PROVE  /\ StatusOf(q) \in {"live", "dead"}
         /\ \A p \in Pairs : StatusOf(p)' = IF p = q THEN "dead" ELSE StatusOf(p)
         /\ \A p \in Pairs : OriginOf(p)' = OriginOf(p)
<1>1. q \in Pairs /\ StatusOf(q) \in {"live", "dead"}
  BY StatusFacts DEF IInv, TypeOK
<1>2. StatusOf(q)' = "dead"
  BY <1>1 DEF DelKey, StatusOf, Stored, IInv, TypeOK, Absent
<1>3. \A p \in Pairs : p # q => StatusOf(p)' = StatusOf(p)
  BY <1>1 DEF DelKey, StatusOf, Stored, IInv, TypeOK
<1> QED
  BY <1>1, <1>2, <1>3 DEF OriginOf

LEMMA AfterSet ==
  ASSUME IInv, NEW r \in Requests, pc[r] = "store", SetKey(pair[r]),
         UNCHANGED <<now, token, pair>>
  PROVE  /\ pair[r] \in Pairs
         /\ StatusOf(pair[r]) = "unborn"
         /\ \A p \in Pairs : StatusOf(p)' = IF p = pair[r] THEN "live" ELSE StatusOf(p)
         /\ \A p \in Pairs : OriginOf(p)' =
              IF p = pair[r] THEN (IF op[r] = "refresh" THEN tok[r] ELSE Root)
              ELSE OriginOf(p)
<1>1. /\ pair[r] \in Pairs
      /\ deadline[pair[r]] = Absent
      /\ token[pair[r]].from = IF op[r] = "refresh" THEN tok[r] ELSE Root
      /\ pair[r] \notin killed
  BY PairsInPlay DEF IInv, PairsHaveOneSigner, KilledStaysAbsent
<1>2. StatusOf(pair[r]) = "unborn"
  BY <1>1, StatusFacts
<1>3. StatusOf(pair[r])' = "live"
  BY <1>1, PairsInPlay, ClockAssumption DEF SetKey, StatusOf, Stored, IInv, TypeOK
<1>4. \A p \in Pairs : p # pair[r] => StatusOf(p)' = StatusOf(p)
  BY <1>1 DEF SetKey, StatusOf, Stored, IInv, TypeOK
<1> QED
  BY <1>1, <1>2, <1>3, <1>4 DEF OriginOf

\* The ledger's steps, stated over the projections.
LEMMA LedgerKill ==
  ASSUME NEW S \in SUBSET Pairs,
         \A p \in S : StatusOf(p) = "live",
         \A p \in Pairs : /\ StatusOf(p)' = IF p \in S THEN "dead" ELSE StatusOf(p)
                          /\ OriginOf(p)' = OriginOf(p),
         \A r \in Requests : GrantOf(r)' = GrantOf(r)
  PROVE  Ledger!LedgerNext
<1>1. Ledger!Kill(S)
  BY DEF Ledger!Kill
<1> QED
  BY <1>1 DEF Ledger!LedgerNext

LEMMA LedgerForfeit ==
  ASSUME NEW r \in Requests,
         GrantOf(r)' = NoPair,
         \A s \in Requests : s # r => GrantOf(s)' = GrantOf(s),
         \A p \in Pairs : OriginOf(p)' = OriginOf(p),
         \/ \A p \in Pairs : StatusOf(p)' = StatusOf(p)
         \/ GrantOf(r) \in Pairs
            /\ \A p \in Pairs : StatusOf(p)' = IF p = GrantOf(r) THEN "dead" ELSE StatusOf(p)
  PROVE  Ledger!LedgerNext
<1>1. Ledger!Forfeit(r)
  BY DEF Ledger!Forfeit
<1> QED
  BY <1>1 DEF Ledger!LedgerNext

\* StoreJti, or the SET of a RedisError whose reply was lost, is a birth.
LEMMA LedgerBirth ==
  ASSUME IInv, NEW r \in Requests, pc[r] = "store", SetKey(pair[r]),
         UNCHANGED <<now, token, op, tok, pair>>,
         GrantOf(r)' = NoPair,
         \A s \in Requests : s # r => GrantOf(s)' = GrantOf(s)
  PROVE  Ledger!LedgerNext
<1>1. /\ pair[r] \in Pairs
      /\ StatusOf(pair[r]) = "unborn"
      /\ \A p \in Pairs : StatusOf(p)' = IF p = pair[r] THEN "live" ELSE StatusOf(p)
      /\ \A p \in Pairs : OriginOf(p)' =
           IF p = pair[r] THEN (IF op[r] = "refresh" THEN tok[r] ELSE Root)
           ELSE OriginOf(p)
  BY AfterSet
<1>2. CASE op[r] = "refresh"
  <2>1. tok[r] \in Pairs /\ tok[r] \in killed
    BY <1>2 DEF IInv, TypeOK, KilledStaysAbsent, RevocationsAreKilled
  <2>2. GrantOf(r) = tok[r] /\ StatusOf(tok[r]) = "dead"
    BY <1>2, <2>1, StatusFacts DEF GrantOf
  <2>3. Ledger!Exchange(r, pair[r])
    BY <1>1, <1>2, <2>1, <2>2 DEF Ledger!Exchange, Ledger!Birth
  <2> QED
    BY <1>1, <2>3 DEF Ledger!LedgerNext
<1>3. CASE op[r] # "refresh"
  <2>1. \A s \in Requests : GrantOf(s)' = GrantOf(s)
    BY <1>3 DEF GrantOf
  <2>2. Ledger!Open(pair[r])
    BY <1>1, <1>3, <2>1 DEF Ledger!Open, Ledger!Birth
  <2> QED
    BY <1>1, <2>2 DEF Ledger!LedgerNext
<1> QED
  BY <1>2, <1>3

\* Every step of the sessions is a step of the ledger or leaves it alone.
LEMMA LedgerStep == IInv /\ [Next]_vars => [Ledger!LedgerNext]_(Ledger!ledgerVars)
<1> SUFFICES ASSUME IInv, [Next]_vars
             PROVE  Ledger!LedgerNext \/ UNCHANGED Ledger!ledgerVars
  OBVIOUS
<1> DEFINE Redis == UNCHANGED <<now, deadline, killed, token>>
           Grants == \A r \in Requests : GrantOf(r)' = GrantOf(r)
<1> USE DEF redisVars, argVars
<1>1. ASSUME Redis, Grants PROVE UNCHANGED Ledger!ledgerVars
  BY <1>1, SameRedis, LedgerStutter
<1>2. ASSUME NEW r \in Requests, NEW u \in Users, BeginLogin(r, u)
      PROVE  UNCHANGED Ledger!ledgerVars
  <2>1. Redis /\ Grants
    BY <1>2 DEF BeginLogin, Arguments, Goto, Answer, GrantOf, IInv, TypeOK, StepsFollowEndpoint
  <2> QED
    BY <1>1, <2>1
<1>3. ASSUME NEW r \in Requests, SignTokens(r) PROVE UNCHANGED Ledger!ledgerVars
  <2>1. PICK p \in Pairs : SignedBy(r, p)
    BY <1>3, SignedPair
  <2>2. \A q \in Pairs : StatusOf(q)' = StatusOf(q)
    BY <1>3 DEF SignTokens, StatusOf, Stored
  <2>3. StatusOf(p) = "unborn"
    BY <2>1, StatusFacts DEF SignedBy
  <2>4. \A q \in Pairs : OriginOf(q)' = OriginOf(q)
    BY <2>1, <2>2, <2>3 DEF SignedBy, OriginOf
  <2>5. Grants
    BY <1>3 DEF SignTokens, Goto, GrantOf, IInv, TypeOK
  <2> QED
    BY <2>2, <2>4, <2>5, LedgerStutter
<1>4. ASSUME NEW r \in Requests, StoreJti(r) PROVE Ledger!LedgerNext
  <2>1. GrantOf(r)' = NoPair /\ \A s \in Requests : s # r => GrantOf(s)' = GrantOf(s)
    BY <1>4 DEF StoreJti, Goto, GrantOf, IInv, TypeOK
  <2> QED
    BY <1>4, <2>1, LedgerBirth DEF StoreJti
<1>5. ASSUME NEW r \in Requests, Respond(r) PROVE UNCHANGED Ledger!ledgerVars
  <2>1. Redis /\ Grants
    BY <1>5 DEF Respond, Answer, GrantOf, IInv, TypeOK
  <2> QED
    BY <1>1, <2>1
<1>6. ASSUME NEW r \in Requests, NEW p \in Pairs, BeginRefresh(r, p)
      PROVE  UNCHANGED Ledger!ledgerVars
  <2>1. Redis /\ Grants
    BY <1>6 DEF BeginRefresh, Arguments, Goto, Answer, GrantOf, IInv, TypeOK, StepsFollowEndpoint
  <2> QED
    BY <1>1, <2>1
<1>7. ASSUME NEW r \in Requests, VerifyJti(r)
      PROVE  Ledger!LedgerNext \/ UNCHANGED Ledger!ledgerVars
  <2>1. tok[r] \in Pairs /\ GrantOf(r) = NoPair /\ op[r] = "refresh"
    BY <1>7, PairsInPlay DEF VerifyJti, GrantOf, IInv, StepsFollowEndpoint
  <2>2. CASE Stored(tok[r])
    <3>1. GrantOf(r)' = tok[r] /\ \A s \in Requests : s # r => GrantOf(s)' = GrantOf(s)
      BY <1>7, <2>1, <2>2 DEF VerifyJti, Goto, GrantOf, IInv, TypeOK
    <3>2. \A q \in Pairs : StatusOf(q)' = StatusOf(q) /\ OriginOf(q)' = OriginOf(q)
      BY <1>7, SameRedis DEF VerifyJti
    <3>3. StatusOf(tok[r]) = "live"
      BY <2>1, <2>2, StatusFacts
    <3>4. Ledger!Grant(r, tok[r])
      BY <2>1, <3>1, <3>2, <3>3 DEF Ledger!Grant
    <3> QED
      BY <2>1, <3>4 DEF Ledger!LedgerNext
  <2>3. CASE ~Stored(tok[r])
    <3>1. Redis /\ Grants
      BY <1>7, <2>1, <2>3 DEF VerifyJti, Answer, GrantOf, IInv, TypeOK
    <3> QED
      BY <1>1, <3>1
  <2> QED
    BY <2>2, <2>3
<1>8. ASSUME NEW r \in Requests, LoadUser(r) PROVE UNCHANGED Ledger!ledgerVars
  <2>1. Redis /\ Grants
    BY <1>8 DEF LoadUser, Goto, GrantOf, IInv, TypeOK
  <2> QED
    BY <1>1, <2>1
<1>9. ASSUME NEW q \in delivered, DelKey(q), UNCHANGED <<now, token>>, Grants
      PROVE  Ledger!LedgerNext
  <2>1. /\ StatusOf(q) \in {"live", "dead"}
        /\ \A p \in Pairs : StatusOf(p)' = IF p = q THEN "dead" ELSE StatusOf(p)
        /\ \A p \in Pairs : OriginOf(p)' = OriginOf(p)
    BY <1>9, AfterDel
  <2>2. q \in Pairs
    BY DEF IInv, TypeOK
  <2> DEFINE S == {p \in {q} : StatusOf(p) = "live"}
  <2>3. S \in SUBSET Pairs /\ \A p \in S : StatusOf(p) = "live"
    BY <2>2
  <2>4. \A p \in Pairs : StatusOf(p)' = IF p \in S THEN "dead" ELSE StatusOf(p)
    BY <2>1
  <2> HIDE DEF S
  <2> QED
    BY <1>9, <2>1, <2>3, <2>4, LedgerKill
<1>10. ASSUME NEW r \in Requests, RevokeOld(r) PROVE Ledger!LedgerNext
  <2>1. tok[r] \in delivered
    BY <1>10, PairsInPlay DEF RevokeOld
  <2>2. Grants
    BY <1>10 DEF RevokeOld, Goto, GrantOf, IInv, TypeOK
  <2> QED
    BY <1>9, <1>10, <2>1, <2>2 DEF RevokeOld
<1>11. ASSUME NEW r \in Requests, pc[r] \in {"revoke", "revokeRejected"}, DelKey(tok[r]),
              UNCHANGED <<now, token, op, tok>>, pc' = [pc EXCEPT ![r] = "done"]
       PROVE  Ledger!LedgerNext
  <2>1. tok[r] \in delivered /\ tok[r] \in Pairs /\ GrantOf(r) = tok[r]
    BY <1>11, PairsInPlay DEF GrantOf, IInv, StepsFollowEndpoint
  <2>2. GrantOf(r)' = NoPair /\ \A s \in Requests : s # r => GrantOf(s)' = GrantOf(s)
    BY <1>11 DEF GrantOf, IInv, TypeOK
  <2> QED
    BY <1>11, <2>1, <2>2, AfterDel, LedgerForfeit
<1>12. ASSUME NEW r \in Requests, NEW a \in Pairs, NEW p \in Pairs, BeginLogout(r, a, p)
       PROVE  UNCHANGED Ledger!ledgerVars
  <2>1. Redis /\ Grants
    BY <1>12 DEF BeginLogout, Arguments, Goto, Answer, GrantOf, IInv, TypeOK, StepsFollowEndpoint
  <2> QED
    BY <1>1, <2>1
<1>13. ASSUME NEW r \in Requests, pc[r] = "revokeOwn", UNCHANGED <<now, token, op, tok>>,
              pc' = [pc EXCEPT ![r] = "done"], UNCHANGED redisVars \/ DelKey(tok[r])
       PROVE  Ledger!LedgerNext \/ UNCHANGED Ledger!ledgerVars
  <2>1. tok[r] \in delivered
    BY <1>13, PairsInPlay
  <2>2. Grants
    BY <1>13 DEF GrantOf, IInv, TypeOK
  <2> QED
    BY <1>1, <1>9, <1>13, <2>1, <2>2
<1>14. ASSUME NEW r \in Requests, Redis, UNCHANGED <<op, tok>>, pc' = [pc EXCEPT ![r] = "done"]
       PROVE  Ledger!LedgerNext
  <2>1. GrantOf(r)' = NoPair /\ \A s \in Requests : s # r => GrantOf(s)' = GrantOf(s)
    BY <1>14 DEF GrantOf, IInv, TypeOK
  <2> QED
    BY <1>14, <2>1, SameRedis, LedgerForfeit
<1>15. ASSUME NEW r \in Requests, RedisError(r)
       PROVE  Ledger!LedgerNext \/ UNCHANGED Ledger!ledgerVars
  <2>1. CASE UNCHANGED redisVars
    BY <1>14, <1>15, <2>1 DEF RedisError, Answer
  <2>2. CASE DelKey(tok[r]) /\ pc[r] \in {"revoke", "revokeRejected"}
    BY <1>11, <1>15, <2>2 DEF RedisError, Answer
  <2>3. CASE DelKey(tok[r]) /\ pc[r] = "revokeOwn"
    BY <1>13, <1>15, <2>3 DEF RedisError, Answer
  <2>4. CASE SetKey(pair[r]) /\ pc[r] = "store"
    <3>1. GrantOf(r)' = NoPair /\ \A s \in Requests : s # r => GrantOf(s)' = GrantOf(s)
      BY <1>15 DEF RedisError, Answer, GrantOf, IInv, TypeOK
    <3> QED
      BY <1>15, <2>4, <3>1, LedgerBirth DEF RedisError
  <2> QED
    BY <1>15, <2>1, <2>2, <2>3, <2>4 DEF RedisError
<1>16. ASSUME Tick PROVE Ledger!LedgerNext
  <2> DEFINE S == {p \in Pairs : Stored(p) /\ ~Stored(p)'}
  <2>1. S \in SUBSET Pairs /\ \A p \in S : StatusOf(p) = "live"
    BY StatusFacts
  <2>2. \A p \in Pairs : Stored(p)' => Stored(p)
    BY <1>16 DEF Tick, Stored, IInv, TypeOK, Absent
  <2>3. \A p \in Pairs : Stored(p) => deadline[p] # Absent
    BY DEF Stored, IInv, TypeOK, Absent
  <2>4. \A p \in Pairs : /\ StatusOf(p)' = IF p \in S THEN "dead" ELSE StatusOf(p)
                         /\ OriginOf(p)' = OriginOf(p)
    BY <1>16, <2>2, <2>3 DEF Tick, StatusOf, OriginOf
  <2>5. Grants
    BY <1>16 DEF Tick, GrantOf
  <2> HIDE DEF S
  <2> QED
    BY <2>1, <2>4, <2>5, LedgerKill
<1>17. ASSUME NEW u \in Users, NEW s \in {"active", "inactive", "deleted"}, SetAccount(u, s)
       PROVE  UNCHANGED Ledger!ledgerVars
  <2>1. Redis /\ Grants
    BY <1>17 DEF SetAccount, GrantOf
  <2> QED
    BY <1>1, <2>1
<1>18. ASSUME UNCHANGED vars PROVE UNCHANGED Ledger!ledgerVars
  <2>1. Redis /\ Grants
    BY <1>18 DEF vars, GrantOf
  <2> QED
    BY <1>1, <2>1
<1>19. ASSUME NEW r \in Requests, RevokeRejected(r) PROVE Ledger!LedgerNext
  BY <1>11, <1>19 DEF RevokeRejected, Answer
<1>20. ASSUME NEW r \in Requests, RevokeOwn(r)
       PROVE  Ledger!LedgerNext \/ UNCHANGED Ledger!ledgerVars
  BY <1>13, <1>20 DEF RevokeOwn, Answer
<1>21. ASSUME NEW r \in Requests, Abandon(r) PROVE Ledger!LedgerNext
  BY <1>14, <1>21 DEF Abandon, Answer
<1> QED
  BY <1>2, <1>3, <1>4, <1>5, <1>6, <1>7, <1>8, <1>10, <1>12, <1>15, <1>16, <1>17,
     <1>18, <1>19, <1>20, <1>21 DEF Next, Begin, Proceed, Fault

\* login, refresh and logout implement SessionLedger: whatever the commands of
\* concurrent requests, faults and the clock do, a pair is born of a login or
\* of one check of a pair that was live, and a dead pair stays dead.
THEOREM Implements == Spec => ImplementsLedger
  BY LedgerInitMaps, LedgerStep, IInvHolds, PTL DEF Spec, ImplementsLedger, Ledger!LedgerSpec

=============================================================================
