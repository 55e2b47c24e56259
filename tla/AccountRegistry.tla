-------------------------- MODULE AccountRegistry --------------------------
(***************************************************************************)
(* What the accounts promise, with sessions, SQL and processes abstracted  *)
(* away: a name is given once and for ever, in one step; who is told that  *)
(* the name is theirs holds it, who is told that it is taken does not; and *)
(* nobody can ask before a founder holds the name reserved for founders.   *)
(* UserAccounts, driven by Deployment, implements this specification.      *)
(***************************************************************************)
CONSTANTS
  Applicants,   \* those who ask for a name and are told the result
  Founders,     \* those who may take the reserved name, and open the registry
  Names, Reserved,
  Nobody, NoName

VARIABLES
  holder,       \* who was given each name
  asked,        \* the name each applicant asks for
  told,         \* what each applicant was told
  open          \* the founders that keep the registry open

registryVars == <<holder, asked, told, open>>

RegistryTypeOK ==
  /\ holder \in [Names -> Applicants \union Founders \union {Nobody}]
  /\ asked \in [Applicants -> Names \union {NoName}]
  /\ told \in [Applicants -> {"nothing", "yours", "taken", "failed"}]
  /\ open \subseteq Founders

RegistryInit ==
  /\ holder = [n \in Names |-> Nobody]
  /\ asked = [r \in Applicants |-> NoName]
  /\ told = [r \in Applicants |-> "nothing"]
  /\ open = {}

Ask(r) ==
  /\ open # {}
  /\ asked[r] = NoName
  /\ \E n \in Names : asked' = [asked EXCEPT ![r] = n]
  /\ UNCHANGED <<holder, told, open>>

\* The name is given; a failure may be reported with it.
Register(r) ==
  /\ asked[r] # NoName
  /\ told[r] = "nothing"
  /\ holder[asked[r]] = Nobody
  /\ holder' = [holder EXCEPT ![asked[r]] = r]
  /\ \E t \in {"nothing", "failed"} : told' = [told EXCEPT ![r] = t]
  /\ UNCHANGED <<asked, open>>

Found(p) ==
  /\ holder[Reserved] = Nobody
  /\ holder' = [holder EXCEPT ![Reserved] = p]
  /\ UNCHANGED <<asked, told, open>>

Tell(r) ==
  /\ asked[r] # NoName
  /\ told[r] = "nothing"
  /\ \/ holder[asked[r]] = r /\ told' = [told EXCEPT ![r] = "yours"]
     \/ holder[asked[r]] \notin {Nobody, r} /\ told' = [told EXCEPT ![r] = "taken"]
     \/ told' = [told EXCEPT ![r] = "failed"]
  /\ UNCHANGED <<holder, asked, open>>

Open(p) ==
  /\ holder[Reserved] \in Founders
  /\ open' = open \union {p}
  /\ UNCHANGED <<holder, asked, told>>

Close(p) ==
  /\ open' = open \ {p}
  /\ UNCHANGED <<holder, asked, told>>

RegistryNext ==
  \/ \E r \in Applicants : Ask(r) \/ Register(r) \/ Tell(r)
  \/ \E p \in Founders : Found(p) \/ Open(p) \/ Close(p)

RegistrySpec == RegistryInit /\ [][RegistryNext]_registryVars
=============================================================================
