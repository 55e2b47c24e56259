---------------------------- MODULE AuthSessions ----------------------------
(***************************************************************************)
(* The token sessions of app/modules/auth: login, refresh and logout as    *)
(* concurrent HTTP requests (every endpoint is a sync "def", so requests   *)
(* run in worker threads and processes at once).  Each database query and  *)
(* each Redis command is one step; the code between two of them is local.  *)
(*                                                                         *)
(* A token pair is one access token and the refresh token signed with it.  *)
(* Its identity stands for the uuid4 jti.  A request is one HTTP call and  *)
(* is made once; time counts ticks, Second ticks to the second.            *)
(***************************************************************************)
EXTENDS Integers

CONSTANTS
  Users, Requests, Pairs,
  NoUser, NoPair,
  Root,        \* origin of a pair signed by a login
  Second,      \* ticks in a second
  AccessTTL,   \* ACCESS_TOKEN_EXPIRE_MINUTES, in ticks
  RefreshTTL,  \* REFRESH_TOKEN_EXPIRE_MINUTES, in ticks
  MaxTime,     \* bound on the clock
  Faults       \* TRUE: Redis commands may fail and workers may be killed

ASSUME IdentityAssumption ==
  /\ NoUser \notin Users
  /\ NoPair \notin Pairs
  /\ Root \notin Pairs
  /\ Root # NoPair

ASSUME ClockAssumption ==
  /\ Second \in Nat \ {0}
  /\ AccessTTL \in Nat
  /\ RefreshTTL \in Nat
  /\ MaxTime \in Nat
  /\ Faults \in BOOLEAN

VARIABLES
  now,        \* the clock of the application hosts and of Redis
  account,    \* user row: "active", "inactive" or soft "deleted"
  token,      \* what each signed pair says: subject, expiries, predecessor
  delivered,  \* pairs that reached a client
  deadline,   \* Redis: expiry of key refresh_token:{jti}, or Absent
  killed,     \* history: pairs whose key a DEL was issued for
  pc,         \* next step of each request
  op, tok, user, pair,  \* its endpoint, refresh token, user id, new pair
  answer      \* its HTTP answer

redisVars == <<deadline, killed>>
argVars   == <<op, tok, user>>
vars == <<now, account, token, delivered, redisVars, pc, argVars, pair, answer>>

Absent == -1

Answers ==
  { "none", "ok200", "noContent204", "wrongCredentials401", "invalidToken401",
    "revokedToken401", "notOwner401", "unauthorized401", "error500", "lost" }

\* Steps of create_user_token, of refresh_user_token and of logout_user.
Steps ==
  { "new", "verify", "load", "revoke", "revokeRejected", "sign", "store",
    "respond", "revokeOwn", "done" }

Unsigned == [sub |-> NoUser, accessExp |-> 0, refreshExp |-> 0, from |-> NoPair]

Tokens == [ sub : Users \union {NoUser}, accessExp : Nat, refreshExp : Nat,
            from : Pairs \union {NoPair, Root} ]

TypeOK ==
  /\ now \in 0 .. MaxTime
  /\ account \in [Users -> {"active", "inactive", "deleted"}]
  /\ token \in [Pairs -> Tokens]
  /\ delivered \in SUBSET Pairs
  /\ deadline \in [Pairs -> Nat \union {Absent}]
  /\ killed \in SUBSET Pairs
  /\ pc \in [Requests -> Steps]
  /\ op \in [Requests -> {"none", "login", "refresh", "logout"}]
  /\ tok \in [Requests -> Pairs \union {NoPair}]
  /\ user \in [Requests -> Users \union {NoUser}]
  /\ pair \in [Requests -> Pairs \union {NoPair}]
  /\ answer \in [Requests -> Answers]

Init ==
  /\ now = 0
  /\ account \in [Users -> {"active", "inactive"}]
  /\ token = [p \in Pairs |-> Unsigned]
  /\ delivered = {}
  /\ deadline = [p \in Pairs |-> Absent]
  /\ killed = {}
  /\ pc = [r \in Requests |-> "new"]
  /\ op = [r \in Requests |-> "none"]
  /\ tok = [r \in Requests |-> NoPair]
  /\ user = [r \in Requests |-> NoUser]
  /\ pair = [r \in Requests |-> NoPair]
  /\ answer = [r \in Requests |-> "none"]

-----------------------------------------------------------------------------
(* Redis and JWT primitives.                                               *)

\* EXISTS: Redis drops a key once the clock has passed its expiry.
Stored(p) == now <= deadline[p]

\* Faulty variant: the TTL is given in minutes.
SetKeyMinutes(p) ==
  /\ deadline' = [deadline EXCEPT ![p] = now + (RefreshTTL \div 60)]
  /\ UNCHANGED killed

\* SET key user_id EX ttl.
SetKey(p) ==
  /\ deadline' = [deadline EXCEPT ![p] = now + RefreshTTL]
  /\ UNCHANGED killed

\* DEL key.
DelKey(p) ==
  /\ deadline' = [deadline EXCEPT ![p] = Absent]
  /\ killed' = killed \union {p}

\* PyJWT writes "exp" as an integer: the fraction of the second is dropped.
WholeSeconds(t) == t - (t % Second)

AccessValid(p)  == now < token[p].accessExp
RefreshValid(p) == now < token[p].refreshExp

Goto(r, step) ==
  /\ pc' = [pc EXCEPT ![r] = step]
  /\ UNCHANGED answer

Answer(r, a) ==
  /\ pc' = [pc EXCEPT ![r] = "done"]
  /\ answer' = [answer EXCEPT ![r] = a]

Arguments(r, o, p, u) ==
  /\ pc[r] = "new"
  /\ op' = [op EXCEPT ![r] = o]
  /\ tok' = [tok EXCEPT ![r] = p]
  /\ user' = [user EXCEPT ![r] = u]

-----------------------------------------------------------------------------
(* POST /login                                                             *)

\* authenticate_user: one query by username (soft-deleted rows filtered out),
\* then the password check.  is_active is not looked at here.
BeginLogin(r, u) ==
  /\ Arguments(r, "login", NoPair, u)
  /\ \/ Answer(r, "wrongCredentials401")
     \/ account[u] # "deleted" /\ Goto(r, "sign")
  /\ UNCHANGED <<now, account, token, delivered, redisVars, pair>>

\* create_user_token up to the Redis command: both tokens signed.
SignTokens(r) ==
  /\ pc[r] = "sign"
  /\ \E p \in Pairs :
       /\ token[p] = Unsigned
       /\ token' = [token EXCEPT ![p] =
            [ sub |-> user[r],
              accessExp |-> WholeSeconds(now + AccessTTL),
              refreshExp |-> WholeSeconds(now + RefreshTTL),
              from |-> IF op[r] = "refresh" THEN tok[r] ELSE Root ]]
       /\ pair' = [pair EXCEPT ![r] = p]
  /\ Goto(r, "store")
  /\ UNCHANGED <<now, account, delivered, redisVars, argVars>>

\* _store_refresh_jti.
StoreJti(r) ==
  /\ pc[r] = "store"
  /\ SetKey(pair[r])
  /\ Goto(r, "respond")
  /\ UNCHANGED <<now, account, token, delivered, argVars, pair>>

\* The endpoint returns Token(**tokens) and the client receives it.
Respond(r) ==
  /\ pc[r] = "respond"
  /\ delivered' = delivered \union {pair[r]}
  /\ Answer(r, "ok200")
  /\ UNCHANGED <<now, account, token, redisVars, argVars, pair>>

-----------------------------------------------------------------------------
(* POST /refresh                                                           *)

\* decode_token(expected_type="refresh") and _extract_user_id.
BeginRefresh(r, p) ==
  /\ p \in delivered
  /\ Arguments(r, "refresh", p, token[p].sub)
  /\ \/ RefreshValid(p) /\ Goto(r, "verify")
     \/ ~RefreshValid(p) /\ Answer(r, "invalidToken401")
  /\ UNCHANGED <<now, account, token, delivered, redisVars, pair>>

\* Faulty variant: Redis is not asked.
VerifyJtiByJwtOnly(r) ==
  /\ pc[r] = "verify"
  /\ Goto(r, "load")
  /\ UNCHANGED <<now, account, token, delivered, redisVars, argVars, pair>>

\* _verify_refresh_jti.
VerifyJti(r) ==
  /\ pc[r] = "verify"
  /\ \/ Stored(tok[r]) /\ Goto(r, "load")
     \/ ~Stored(tok[r]) /\ Answer(r, "revokedToken401")
  /\ UNCHANGED <<now, account, token, delivered, redisVars, argVars, pair>>

\* user_repository.get, then the is_active test.
LoadUser(r) ==
  /\ pc[r] = "load"
  /\ \/ account[user[r]] = "active" /\ Goto(r, "revoke")
     \/ account[user[r]] # "active" /\ Goto(r, "revokeRejected")
  /\ UNCHANGED <<now, account, token, delivered, redisVars, argVars, pair>>

\* Faulty variant: the old key is kept.
RevokeNothing(r) ==
  /\ pc[r] = "revoke"
  /\ Goto(r, "sign")
  /\ UNCHANGED <<now, account, token, delivered, redisVars, argVars, pair>>

\* _revoke_refresh_jti(old_jti) of a refresh that goes on to issue.
RevokeOld(r) ==
  /\ pc[r] = "revoke"
  /\ DelKey(tok[r])
  /\ Goto(r, "sign")
  /\ UNCHANGED <<now, account, token, delivered, argVars, pair>>

\* Faulty variant: a rejected refresh leaves its token alone.
RejectOnly(r) ==
  /\ pc[r] = "revokeRejected"
  /\ Answer(r, "invalidToken401")
  /\ UNCHANGED <<now, account, token, delivered, redisVars, argVars, pair>>

\* _revoke_refresh_jti(old_jti) when the account is gone or inactive.
RevokeRejected(r) ==
  /\ pc[r] = "revokeRejected"
  /\ DelKey(tok[r])
  /\ Answer(r, "invalidToken401")
  /\ UNCHANGED <<now, account, token, delivered, argVars, pair>>

-----------------------------------------------------------------------------
(* POST /logout                                                            *)

\* The CurrentUser dependency: get_current_active_user on the access token
\* of pair a, which need not be the pair p whose refresh token is sent.
BeginLogout(r, a, p) ==
  /\ a \in delivered /\ p \in delivered
  /\ Arguments(r, "logout", p, token[a].sub)
  /\ LET authorized == AccessValid(a) /\ account[token[a].sub] = "active"
     IN \/ authorized /\ Goto(r, "revokeOwn")
        \/ ~authorized /\ Answer(r, "unauthorized401")
  /\ UNCHANGED <<now, account, token, delivered, redisVars, pair>>

\* Faulty variant: any user may revoke any refresh token.
MayRevokeAny(r) == RefreshValid(tok[r])

\* The ownership test of logout_user lets the DEL through.
MayRevoke(r) == RefreshValid(tok[r]) /\ token[tok[r]].sub = user[r]

\* Faulty variant: logout answers without the DEL.
LogoutOnly(r) ==
  /\ pc[r] = "revokeOwn"
  /\ \/ ~RefreshValid(tok[r]) /\ Answer(r, "invalidToken401")
     \/ RefreshValid(tok[r]) /\ ~MayRevoke(r) /\ Answer(r, "notOwner401")
     \/ MayRevoke(r) /\ Answer(r, "noContent204")
  /\ UNCHANGED <<now, account, token, delivered, redisVars, argVars, pair>>

\* Faulty variant: the key is deleted before the ownership test.
RevokeFirst(r) ==
  /\ pc[r] = "revokeOwn"
  /\ DelKey(tok[r])
  /\ \/ ~RefreshValid(tok[r]) /\ Answer(r, "invalidToken401")
     \/ RefreshValid(tok[r]) /\ ~MayRevoke(r) /\ Answer(r, "notOwner401")
     \/ MayRevoke(r) /\ Answer(r, "noContent204")
  /\ UNCHANGED <<now, account, token, delivered, argVars, pair>>

\* logout_user.
RevokeOwn(r) ==
  /\ pc[r] = "revokeOwn"
  /\ \/ /\ ~RefreshValid(tok[r])
        /\ Answer(r, "invalidToken401")
        /\ UNCHANGED redisVars
     \/ /\ RefreshValid(tok[r]) /\ ~MayRevoke(r)
        /\ Answer(r, "notOwner401")
        /\ UNCHANGED redisVars
     \/ /\ MayRevoke(r)
        /\ DelKey(tok[r])
        /\ Answer(r, "noContent204")
  /\ UNCHANGED <<now, account, token, delivered, argVars, pair>>

-----------------------------------------------------------------------------
(* Failures and the environment.                                           *)

\* A Redis command raises: the error handler answers 500.  The command may
\* have been executed, its reply lost.
RedisError(r) ==
  /\ Faults
  /\ \/ /\ pc[r] \in {"verify", "revoke", "revokeRejected", "store"}
        /\ UNCHANGED redisVars
     \/ /\ pc[r] = "revokeOwn" /\ MayRevoke(r)
        /\ UNCHANGED redisVars
     \/ /\ \/ pc[r] \in {"revoke", "revokeRejected"}
           \/ pc[r] = "revokeOwn" /\ MayRevoke(r)
        /\ DelKey(tok[r])
     \/ /\ pc[r] = "store"
        /\ SetKey(pair[r])
  /\ Answer(r, "error500")
  /\ UNCHANGED <<now, account, token, delivered, argVars, pair>>

\* The worker is killed (gunicorn --timeout, restart) or the client is gone.
Abandon(r) ==
  /\ Faults
  /\ pc[r] \notin {"new", "done"}
  /\ Answer(r, "lost")
  /\ UNCHANGED <<now, account, token, delivered, redisVars, argVars, pair>>

Tick ==
  /\ now < MaxTime
  /\ now' = now + 1
  /\ UNCHANGED <<account, token, delivered, redisVars, pc, argVars, pair, answer>>

\* An administrator edits the row: is_active, or soft_delete for good.
SetAccount(u, state) ==
  /\ account[u] \notin {"deleted", state}
  /\ account' = [account EXCEPT ![u] = state]
  /\ UNCHANGED <<now, token, delivered, redisVars, pc, argVars, pair, answer>>

-----------------------------------------------------------------------------
Begin(r) ==
  \/ \E u \in Users : BeginLogin(r, u)
  \/ \E p \in Pairs : BeginRefresh(r, p)
  \/ \E a, p \in Pairs : BeginLogout(r, a, p)

Proceed(r) ==
  \/ SignTokens(r) \/ StoreJti(r) \/ Respond(r)
  \/ VerifyJti(r) \/ LoadUser(r) \/ RevokeOld(r) \/ RevokeRejected(r)
  \/ RevokeOwn(r)

Fault(r) == RedisError(r) \/ Abandon(r)

Next ==
  \/ \E r \in Requests : Begin(r) \/ Proceed(r) \/ Fault(r)
  \/ \E u \in Users, s \in {"active", "inactive", "deleted"} : SetAccount(u, s)
  \/ Tick

Spec == Init /\ [][Next]_vars

-----------------------------------------------------------------------------
(* What the sessions promise.                                              *)

Exchanged(r) == op[r] = "refresh" /\ answer[r] = "ok200"
LoggedOut(r) == op[r] = "logout" /\ answer[r] = "noContent204"

\* Revocation is final.  Once a refresh was answered with a new pair, or a
\* logout with 204, the key of the refresh token it was given is gone from
\* Redis for good, whatever other requests were under way: service.py never
\* writes back a jti it has deleted.
RevocationIsFinal ==
  \A r \in Requests : Exchanged(r) \/ LoggedOut(r) => ~Stored(tok[r])

\* A client is told "Refresh token has been revoked" (service.py:76) only if
\* some request deleted that token's key or the token had expired: the TTL
\* written to Redis, counted from a later moment than the JWT's own expiry,
\* never runs out on a token that is still valid.
RefusedForCause ==
  \A r \in Requests :
    answer[r] = "revokedToken401" => tok[r] \in killed \/ ~RefreshValid(tok[r])

\* A refresh never leaves a session with two usable refresh tokens: while the
\* key of the new pair is in Redis, that of the pair it replaced is not
\* (refresh_user_token revokes before create_user_token stores).
ReplacedNotStored ==
  \A p \in Pairs :
    token[p].from \in Pairs /\ Stored(p) => ~Stored(token[p].from)

\* A refresh token whose account was found gone or inactive stays unusable
\* when the account is activated again (service.py:80-82).
RejectedStaysRevoked ==
  \A r \in Requests :
    op[r] = "refresh" /\ pc[r] = "done" /\ answer[r] = "invalidToken401"
      => ~RefreshValid(tok[r]) \/ ~Stored(tok[r])

\* Nobody else ends a session.  The key of a delivered, unexpired refresh
\* token is in Redis until a request of that token's own user deletes it:
\* the ownership test of logout_user (service.py:102) and TTLs taken together,
\* whoever else logs out, is disabled, or is hit by a failing command.
OnlyOwnerEndsSession ==
  \A p \in delivered :
    RefreshValid(p) /\ (\A r \in Requests : tok[r] = p => user[r] # token[p].sub)
      => Stored(p)

\* No session is lost for nothing.  A deleted key was deleted by a refresh that
\* is about to return the new pair or has returned it, by a logout that said
\* so, for an account that was gone, or the request that deleted it met a fault
\* and said that (service.py:78-85, :99-105).
SessionsEndForCause ==
  \A p \in killed : \E r \in Requests :
    /\ tok[r] = p
    /\ \/ op[r] = "refresh" /\ pc[r] \in {"sign", "store", "respond"}
       \/ Exchanged(r)
       \/ LoggedOut(r)
       \/ op[r] = "refresh" /\ answer[r] = "invalidToken401"
       \/ Faults /\ answer[r] \in {"error500", "lost"}

-----------------------------------------------------------------------------
(* Why they hold: the inductive invariant.                                 *)

\* Which endpoint a request is in follows from its step, and it is answered
\* only when it is done.
StepsFollowEndpoint ==
  \A r \in Requests :
    /\ pc[r] = "new" <=> op[r] = "none"
    /\ pc[r] \in {"verify", "load", "revoke", "revokeRejected"} => op[r] = "refresh"
    /\ pc[r] = "revokeOwn" => op[r] = "logout"
    /\ pc[r] \in {"sign", "store", "respond"} => op[r] \in {"login", "refresh"}
    /\ pc[r] = "new" => tok[r] = NoPair
    /\ pc[r] # "new" => user[r] \in Users
    /\ op[r] = "refresh" => user[r] = token[tok[r]].sub
    /\ pc[r] # "done" => answer[r] = "none"
    /\ answer[r] = "revokedToken401" => op[r] = "refresh"
    /\ op[r] \in {"refresh", "logout"} => tok[r] \in delivered

\* A signed pair belongs to the one request that signed it and is out of
\* every client's reach until that request has stored and returned it.
PairsHaveOneSigner ==
  /\ \A r \in Requests :
       /\ pair[r] # NoPair => token[pair[r]].sub \in Users
       /\ pc[r] \in {"store", "respond"} => pair[r] \in Pairs \ delivered
       /\ pc[r] \notin {"store", "respond", "done"} => pair[r] = NoPair
       /\ pc[r] = "store" =>
            /\ deadline[pair[r]] = Absent
            /\ token[pair[r]].from = IF op[r] = "refresh" THEN tok[r] ELSE Root
  /\ \A r, s \in Requests : pair[r] = pair[s] /\ pair[r] # NoPair => r = s
  /\ \A p \in Pairs : p \in delivered \/ deadline[p] # Absent => token[p].sub \in Users

\* Only delivered pairs are deleted, on behalf of their own user, and a
\* deleted key is never set again.
KilledStaysAbsent ==
  /\ killed \subseteq delivered
  /\ \A p \in killed : \E r \in Requests : tok[r] = p /\ user[r] = token[p].sub
  /\ \A p \in killed : deadline[p] = Absent

\* Requests past their DEL, pairs that replaced another, and answers that
\* report a revocation all point to a deleted key.
RevocationsAreKilled ==
  /\ \A p \in Pairs : token[p].from \in Pairs => token[p].from \in killed
  /\ \A r \in Requests :
       /\ op[r] = "refresh" /\ pc[r] \in {"sign", "store", "respond"} => tok[r] \in killed
       /\ Exchanged(r) \/ LoggedOut(r) => tok[r] \in killed
       /\ op[r] = "refresh" /\ pc[r] = "done" /\ answer[r] = "invalidToken401"
            => tok[r] \in killed \/ ~RefreshValid(tok[r])

\* The key of a pair outlives its refresh token.
TtlCoversToken ==
  /\ \A p \in delivered \ killed : token[p].refreshExp <= deadline[p]
  /\ \A r \in Requests :
       /\ pc[r] = "store" => token[pair[r]].refreshExp <= now + RefreshTTL
       /\ pc[r] = "respond" => token[pair[r]].refreshExp <= deadline[pair[r]]

IInv ==
  /\ TypeOK
  /\ StepsFollowEndpoint
  /\ PairsHaveOneSigner
  /\ KilledStaysAbsent
  /\ RevocationsAreKilled
  /\ TtlCoversToken
  /\ RefusedForCause

-----------------------------------------------------------------------------
(* What docs and comments say that the interleavings or faults refute.     *)

\* docs/ARCHITECTURE.md:332, a refresh token is used once: no two refreshes
\* of one token are both answered with a new pair.
SingleUse ==
  \A r, s \in Requests : Exchanged(r) /\ Exchanged(s) /\ tok[r] = tok[s] => r = s

\* endpoints/auth.py:97, a token given to logout can no longer be used: after
\* the 204 no refresh of that token is answered with a new pair.
NoExchangeAfterLogout ==
  [][ \A r, s \in Requests :
        LoggedOut(s) /\ tok[r] = tok[s] /\ Exchanged(r)' => Exchanged(r) ]_vars

-----------------------------------------------------------------------------
(* The ledger it implements.                                               *)

StatusOf(p) ==
  IF Stored(p) THEN "live"
  ELSE IF p \in killed \/ deadline[p] # Absent THEN "dead" ELSE "unborn"

OriginOf(p) == IF StatusOf(p) = "unborn" THEN NoPair ELSE token[p].from

GrantOf(r) ==
  IF op[r] = "refresh"
       /\ pc[r] \in {"load", "revoke", "revokeRejected", "sign", "store"}
  THEN tok[r] ELSE NoPair

Ledger ==
  INSTANCE SessionLedger WITH
    status <- [p \in Pairs |-> StatusOf(p)],
    origin <- [p \in Pairs |-> OriginOf(p)],
    grant  <- [r \in Requests |-> GrantOf(r)]

\* The token service implements the ledger: a pair is born of a login or of
\* one check of a pair then live, and what is revoked or expired stays so.
ImplementsLedger == Ledger!LedgerSpec
=============================================================================
