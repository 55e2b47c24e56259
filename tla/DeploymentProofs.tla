-------------------------- MODULE DeploymentProofs --------------------------
(***************************************************************************)
(* Proofs about accounts and replicas, for any number of requests,         *)
(* replicas and names, any number of failures and of edits.                *)
(***************************************************************************)
EXTENDS Deployment, TLAPS

-----------------------------------------------------------------------------
(* Steps that touch neither the table nor a session.                       *)

\* Replicas move; serving starts only when the superuser's name is taken, and
\* creating starts and ends with a session.
LEMMA PhaseStep ==
  ASSUME IInv, UNCHANGED accountVars, TypeOK',
         \A p \in Replicas : phase'[p] = "create" <=> phase[p] = "create",
         \A p \in Replicas :
           phase'[p] = "serving" => phase[p] = "serving" \/ Indexed(FirstSuperuser)
  PROVE  IInv'
<1> USE DEF IInv
<1>1. SessionsFollowCalls'
  BY DEF SessionsFollowCalls, accountVars, Creates
<1>2. InsertsAreAlone'
  BY DEF InsertsAreAlone, accountVars, Creates, Indexed
<1>3. RowsHaveMakers'
  BY DEF RowsHaveMakers, accountVars, Creates
<1>4. SuperuserFirst'
  BY DEF SuperuserFirst, accountVars, Indexed
<1>5. OneAccountPerName' /\ SuperuserNameReserved' /\ SomeoneHasTheName'
  BY DEF OneAccountPerName, SuperuserNameReserved, SomeoneHasTheName, accountVars
<1> QED
  BY <1>1, <1>2, <1>3, <1>4, <1>5

\* The commands of a container's start, but for FindSuperuser and BootEnds.
LEMMA BootSteps ==
  ASSUME IInv, NEW p \in Replicas,
         Start(p) \/ ReadRevision(p) \/ CreateTables(p) \/ CommitSchema(p) \/ Crash(p)
  PROVE  IInv'
<1>2. UNCHANGED accountVars
  BY DEF Start, ReadRevision, CreateTables, CommitSchema, Crash
<1>1. TypeOK'
  <2>1. AccountsTypeOK'
    BY <1>2 DEF IInv, TypeOK, AccountsTypeOK, accountVars
  <2>2. faults' \in 0..MaxFaults /\ edits' \in 0..MaxEdits
    BY DeploymentAssumption
    DEF IInv, TypeOK, Start, ReadRevision, CreateTables, CommitSchema, Crash
  <2>3. schema' \in BOOLEAN /\ phase' \in [Replicas -> Phases]
    BY DEF IInv, TypeOK, Phases, Enter, Start, ReadRevision, CreateTables, CommitSchema, Crash
  <2> QED
    BY <2>1, <2>2, <2>3 DEF TypeOK
<1>3. \A q \in Replicas : /\ phase'[q] = "create" <=> phase[q] = "create"
                          /\ phase'[q] = "serving" => phase[q] = "serving"
  BY DEF IInv, TypeOK, Enter, Start, ReadRevision, CreateTables, CommitSchema, Crash
<1> QED
  BY <1>1, <1>2, <1>3, PhaseStep

-----------------------------------------------------------------------------
(* Steps of one session that leave the table alone.                        *)

\* What SessionsFollowCalls says of one session.
Follows(s) ==
  /\ pc[s] = "new" <=> call[s].op = "none"
  /\ pc[s] \in {"check", "insert"} => Creates(s)
  /\ pc[s] \in {"load", "flush"} => call[s].op = "profile"
  /\ pc[s] # "done" => answer[s] = "none"
  /\ answer[s] \in {"created201", "conflict409", "duplicate500"} => Creates(s)
  /\ pc[s] = "commit" /\ call[s].op = "profile" => call[s].password \in {"strong", "unsent"}
  /\ IF Creates(s) THEN call[s].name \in Names ELSE call[s].name = NoName

\* What is promised of the answer of one request.
AnswerFits(r) ==
  /\ answer[r] \in {"conflict409", "duplicate500"} =>
       \E a \in table : a.name = call[r].name /\ a.id # r
  /\ answer[r] = "created201" => \E a \in table : a.name = call[r].name /\ a.id = r

\* A session that stays with its call moves on: it may come to its commit only
\* alone and with a name that is not in the table, to its refresh only from
\* there, and it is answered what fits.
LEMMA MoveStep ==
  ASSUME IInv, NEW s \in Sessions,
         UNCHANGED <<table, call, schema, phase>>, TypeOK',
         \A t \in Sessions \ {s} : pc'[t] = pc[t] /\ answer'[t] = answer[t],
         pc[s] \notin {"new", "done"}, pc'[s] # "new",
         Follows(s)', s \in Requests => AnswerFits(s)',
         answer'[s] = "created201" => pc[s] = "refresh",
         Creates(s) /\ pc'[s] = "commit" =>
           /\ ~Indexed(call[s].name)
           /\ Inserting(call[s].name) \subseteq {s},
         Creates(s) => pc'[s] # "refresh" /\ (pc[s] = "refresh" => pc'[s] = "done")
  PROVE  IInv'
<1> USE DEF IInv
<1>1. \A t \in Sessions : (Creates(t)' <=> Creates(t)) /\ call'[t] = call[t]
  BY DEF Creates
<1>2. SessionsFollowCalls'
  <2>1. \A t \in Sessions : Follows(t)'
    <3> SUFFICES ASSUME NEW t \in Sessions, t # s PROVE Follows(t)'
      OBVIOUS
    <3> QED
      BY <1>1 DEF SessionsFollowCalls, Follows
  <2> QED
    BY <1>1, <2>1 DEF SessionsFollowCalls, Follows
<1>3. InsertsAreAlone'
  <2> SUFFICES ASSUME NEW t \in Sessions, pc'[t] = "commit", Creates(t)
               PROVE  /\ ~Indexed(call[t].name)'
                      /\ \A u \in Sessions :
                           pc'[u] = "commit" /\ Creates(u) /\ call[u].name = call[t].name => u = t
    BY <1>1 DEF InsertsAreAlone
  <2>1. ~Indexed(call[t].name)
    BY DEF InsertsAreAlone
  <2>2. ASSUME NEW u \in Sessions, pc'[u] = "commit", Creates(u), call[u].name = call[t].name
        PROVE  u = t
    <3>1. CASE t = s
      BY <2>2, <3>1 DEF Inserting
    <3>2. CASE u = s
      BY <2>2, <3>2 DEF Inserting
    <3>3. CASE t # s /\ u # s
      BY <2>2, <3>3 DEF InsertsAreAlone
    <3> QED
      BY <3>1, <3>2, <3>3
  <2> QED
    BY <2>1, <2>2 DEF Indexed
<1>4. RowsHaveMakers'
  <2>1. \A a \in table : a.id \in Requests => pc'[a.id] \in {"refresh", "done"}
    BY DEF RowsHaveMakers, Sessions
  <2> QED
    BY <1>1, <2>1 DEF RowsHaveMakers, Sessions
<1>5. SuperuserFirst'
  BY DEF SuperuserFirst, Indexed, Sessions
<1>6. OneAccountPerName' /\ SuperuserNameReserved'
  BY DEF OneAccountPerName, SuperuserNameReserved
<1>7. SomeoneHasTheName'
  BY DEF SomeoneHasTheName, AnswerFits, Sessions
<1> QED
  BY <1>2, <1>3, <1>4, <1>5, <1>6, <1>7

\* The type of a session's next step.
LEMMA MoveTyped ==
  ASSUME TypeOK, NEW s \in Sessions, UNCHANGED <<table, call, schema, phase>>,
         faults' \in 0..MaxFaults, edits' \in 0..MaxEdits,
         NEW step \in {"check", "insert", "load", "flush", "commit", "refresh", "done"},
         NEW a \in Answers, NEW rows \in SUBSET Rows,
         pc' = [pc EXCEPT ![s] = step],
         loaded' = loaded \/ loaded' = [loaded EXCEPT ![s] = rows],
         answer' = [answer EXCEPT ![s] = a]
  PROVE  /\ TypeOK'
         /\ pc'[s] = step /\ answer'[s] = a
         /\ \A t \in Sessions \ {s} : pc'[t] = pc[t] /\ answer'[t] = answer[t]
BY DEF TypeOK, AccountsTypeOK

LEMMA Counters ==
  ASSUME TypeOK, UNCHANGED deployVars
  PROVE  /\ UNCHANGED <<schema, phase>>
         /\ faults' \in 0..MaxFaults /\ edits' \in 0..MaxEdits
BY DEF TypeOK, deployVars

LEMMA CheckStep ==
  ASSUME IInv, NEW s \in Sessions, Check(s), UNCHANGED deployVars
  PROVE  IInv'
<1>1. /\ pc[s] = "check" /\ Creates(s) /\ answer[s] = "none" /\ call[s].name \in Names
      /\ call[s].op # "none"
  BY DEF IInv, Check, SessionsFollowCalls
<1>2. /\ TypeOK'
      /\ \A t \in Sessions \ {s} : pc'[t] = pc[t] /\ answer'[t] = answer[t]
      /\ \/ Registered(call[s].name) /\ pc'[s] = "done" /\ answer'[s] = "conflict409"
         \/ pc'[s] = "done" /\ answer'[s] = "invalid400"
         \/ pc'[s] = "insert" /\ answer'[s] = "none"
  BY <1>1, Counters DEF IInv, TypeOK, AccountsTypeOK, Check, Answer, Goto, Answers
<1>3. Follows(s)'
  BY <1>1, <1>2 DEF Follows, Check, Creates
<1>4. s \in Requests => AnswerFits(s)'
  <2>1. ASSUME s \in Requests, Registered(call[s].name)
        PROVE  \E a \in table : a.name = call[s].name /\ a.id # s
    <3>1. PICK a \in table : a.name = call[s].name
      BY <2>1 DEF Registered
    <3>2. a.id # s
      BY <1>1, <2>1, <3>1 DEF IInv, RowsHaveMakers
    <3> QED
      BY <3>1, <3>2
  <2> QED
    BY <1>2, <2>1 DEF AnswerFits, Check
<1> QED
  BY <1>1, <1>2, <1>3, <1>4, Counters, MoveStep DEF Check, IInv

LEMMA InsertStep ==
  ASSUME IInv, NEW s \in Sessions, Insert(s), UNCHANGED deployVars
  PROVE  IInv'
<1>1. /\ pc[s] = "insert" /\ Creates(s) /\ answer[s] = "none" /\ call[s].name \in Names
      /\ call[s].op \notin {"none", "profile"}
  BY DEF IInv, Insert, SessionsFollowCalls, Creates
<1>2. /\ TypeOK'
      /\ \A t \in Sessions \ {s} : pc'[t] = pc[t] /\ answer'[t] = answer[t]
      /\ Inserting(call[s].name) = {}
      /\ \/ Indexed(call[s].name) /\ pc'[s] = "done" /\ answer'[s] = "duplicate500"
         \/ ~Indexed(call[s].name) /\ pc'[s] = "commit" /\ answer'[s] = "none"
  BY <1>1, Counters DEF IInv, TypeOK, AccountsTypeOK, Insert, Answer, Goto, Answers
<1>3. Follows(s)'
  BY <1>1, <1>2 DEF Follows, Insert, Creates
<1>4. s \in Requests => AnswerFits(s)'
  <2>1. ASSUME s \in Requests, Indexed(call[s].name)
        PROVE  \E a \in table : a.name = call[s].name /\ a.id # s
    <3>1. PICK a \in table : a.name = call[s].name
      BY <2>1 DEF Indexed
    <3>2. a.id # s
      BY <1>1, <2>1, <3>1 DEF IInv, RowsHaveMakers
    <3> QED
      BY <3>1, <3>2
  <2> QED
    BY <1>2, <2>1 DEF AnswerFits, Insert
<1> QED
  BY <1>1, <1>2, <1>3, <1>4, Counters, MoveStep DEF Insert, IInv

LEMMA LoadStep ==
  ASSUME IInv, NEW s \in Sessions, Load(s), UNCHANGED deployVars
  PROVE  IInv'
<1>1. /\ pc[s] = "load" /\ ~Creates(s) /\ call[s].op = "profile" /\ answer[s] = "none"
      /\ call[s].name = NoName
  BY DEF IInv, Load, SessionsFollowCalls, Creates
<1>2. /\ TypeOK'
      /\ \A t \in Sessions \ {s} : pc'[t] = pc[t] /\ answer'[t] = answer[t]
      /\ \/ pc'[s] = "done" /\ answer'[s] = "unauthorized401"
         \/ pc'[s] = "flush" /\ answer'[s] = "none"
  BY <1>1, Counters DEF IInv, TypeOK, AccountsTypeOK, Load, Answer, Answers
<1>3. Follows(s)' /\ AnswerFits(s)'
  BY <1>1, <1>2 DEF Follows, AnswerFits, Load, Creates
<1> QED
  BY <1>1, <1>2, <1>3, Counters, MoveStep DEF Load, IInv

LEMMA FlushStep ==
  ASSUME IInv, NEW s \in Sessions, Flush(s), UNCHANGED deployVars
  PROVE  IInv'
<1>1. /\ pc[s] = "flush" /\ ~Creates(s) /\ call[s].op = "profile" /\ answer[s] = "none"
      /\ call[s].name = NoName
  BY DEF IInv, Flush, SessionsFollowCalls, Creates
<1>2. /\ TypeOK'
      /\ \A t \in Sessions \ {s} : pc'[t] = pc[t] /\ answer'[t] = answer[t]
      /\ \/ pc'[s] = "done" /\ answer'[s] \in {"invalid400", "failed"}
         \/ pc'[s] = "refresh" /\ answer'[s] = "none"
         \/ /\ pc'[s] = "commit" /\ answer'[s] = "none"
            /\ call[s].password \in {"strong", "unsent"}
  BY <1>1, Counters DEF IInv, TypeOK, AccountsTypeOK, Flush, Answer, Goto, Answers
<1>3. Follows(s)' /\ AnswerFits(s)'
  BY <1>1, <1>2 DEF Follows, AnswerFits, Flush, Creates
<1> QED
  BY <1>1, <1>2, <1>3, Counters, MoveStep DEF Flush, IInv

LEMMA RefreshStep ==
  ASSUME IInv, NEW s \in Sessions, Refresh(s), UNCHANGED deployVars
  PROVE  IInv'
<1>1. /\ pc[s] = "refresh" /\ answer[s] = "none" /\ call[s].op # "none"
      /\ IF Creates(s) THEN call[s].name \in Names ELSE call[s].name = NoName
      /\ Creates(s) => \E a \in table : a.id = s /\ a.name = call[s].name
  BY DEF IInv, Refresh, SessionsFollowCalls, RowsHaveMakers
<1>2. /\ TypeOK'
      /\ \A t \in Sessions \ {s} : pc'[t] = pc[t] /\ answer'[t] = answer[t]
      /\ pc'[s] = "done"
      /\ answer'[s] = IF Creates(s) THEN "created201" ELSE "ok200"
  BY <1>1, Counters DEF IInv, TypeOK, AccountsTypeOK, Refresh, Answer, Answers
<1>3. Follows(s)' /\ AnswerFits(s)'
  BY <1>1, <1>2 DEF Follows, AnswerFits, Refresh, Creates
<1> QED
  BY <1>1, <1>2, <1>3, Counters, MoveStep DEF Refresh, IInv

-----------------------------------------------------------------------------
(* Steps that change the table.                                            *)

\* A session that commits its INSERT adds the one row with its name and id.
LEMMA CommitCreates ==
  ASSUME IInv, NEW s \in Sessions, pc[s] = "commit", Creates(s),
         UNCHANGED <<call, schema, phase>>, TypeOK',
         table' = table \union {NewRow(s)},
         \A t \in Sessions \ {s} : pc'[t] = pc[t] /\ answer'[t] = answer[t],
         \/ pc'[s] = "refresh" /\ answer'[s] = "none"
         \/ pc'[s] = "done" /\ answer'[s] = "failed"
  PROVE  IInv'
<1> USE DEF IInv
<1>1. /\ \A t \in Sessions : (Creates(t)' <=> Creates(t)) /\ call'[t] = call[t]
      /\ ~Indexed(call[s].name)
      /\ NewRow(s).id = s /\ NewRow(s).name = call[s].name
      /\ NewRow(s).is_superuser <=> call[s].op = "superuser"
      /\ NewRow(s) \in table'
  BY DEF Creates, NewRow, InsertsAreAlone
<1>2. \A a \in table : a.name # call[s].name /\ a.id # s
  <2>1. \A a \in table : a.name # call[s].name
    BY <1>1 DEF Indexed
  <2>2. CASE s \in Requests
    BY <2>1, <2>2 DEF RowsHaveMakers
  <2>3. CASE s \in Replicas
    BY <2>1, <2>3 DEF SessionsFollowCalls, SuperuserNameReserved, Creates
  <2> QED
    BY <2>1, <2>2, <2>3 DEF Sessions
<1>3. SessionsFollowCalls'
  <2>1. \A t \in Sessions : Follows(t)'
    BY <1>1 DEF SessionsFollowCalls, Follows
  <2> QED
    BY <1>1, <2>1 DEF SessionsFollowCalls, Follows
<1>4. InsertsAreAlone'
  BY <1>1 DEF InsertsAreAlone, Indexed
<1>5. RowsHaveMakers'
  BY <1>1, <1>2 DEF RowsHaveMakers, Sessions
<1>6. SuperuserFirst' /\ OneAccountPerName'
  BY <1>1, <1>2 DEF SuperuserFirst, OneAccountPerName, Indexed, Sessions
<1>7. SuperuserNameReserved'
  <2>1. CASE s \in Requests
    <3>1. Indexed(FirstSuperuser) /\ call[s].op = "signup"
      BY <2>1 DEF SuperuserFirst, SessionsFollowCalls, Creates
    <3> QED
      BY <1>1, <2>1, <3>1, AccountsAssumption DEF SuperuserNameReserved
  <2>2. CASE s \in Replicas
    BY <1>1, <2>2 DEF SuperuserNameReserved, SessionsFollowCalls, Creates
  <2> QED
    BY <2>1, <2>2 DEF Sessions
<1>8. SomeoneHasTheName'
  BY <1>1 DEF SomeoneHasTheName, Sessions
<1> QED
  BY <1>3, <1>4, <1>5, <1>6, <1>7, <1>8

\* A row that was edited keeps its id, its name and its privilege.
Kept(a, b) == b.id = a.id /\ b.name = a.name /\ b.is_superuser = a.is_superuser

EditedFrom(old, new) ==
  /\ \A a \in old : \E b \in new : Kept(a, b)
  /\ \A b \in new : \E a \in old : Kept(a, b)
  /\ \A b, c \in new : b.id = c.id => b = c

\* Such edits, by a session that moves to its refresh or its end, or by nobody.
LEMMA EditStep ==
  ASSUME IInv, UNCHANGED <<call, schema, phase>>, TypeOK',
         EditedFrom(table, table'),
         \A t \in Sessions :
           \/ pc'[t] = pc[t] /\ answer'[t] = answer[t]
           \/ /\ pc[t] = "commit" /\ call[t].op = "profile"
              /\ \/ pc'[t] = "refresh" /\ answer'[t] = "none"
                 \/ pc'[t] = "done" /\ answer'[t] = "failed"
  PROVE  IInv'
<1> USE DEF IInv
<1>1. \A t \in Sessions : (Creates(t)' <=> Creates(t)) /\ call'[t] = call[t]
  BY DEF Creates
<1>2. \A n \in Names : Indexed(n)' <=> Indexed(n)
  BY DEF Indexed, EditedFrom, Kept
<1>3. SessionsFollowCalls'
  <2>1. \A t \in Sessions : Follows(t)'
    BY <1>1 DEF SessionsFollowCalls, Follows, Creates
  <2> QED
    BY <1>1, <2>1 DEF SessionsFollowCalls, Follows
<1>4. InsertsAreAlone'
  <2>1. \A t \in Sessions : pc'[t] = "commit" => pc[t] = "commit"
    OBVIOUS
  <2>2. \A t \in Sessions : Creates(t) => call[t].name \in Names
    BY DEF SessionsFollowCalls
  <2>3. \A t \in Sessions : pc'[t] = "commit" /\ Creates(t) => ~Indexed(call[t].name)'
    <3> SUFFICES ASSUME NEW t \in Sessions, pc'[t] = "commit", Creates(t)
                 PROVE  ~Indexed(call[t].name)'
      OBVIOUS
    <3>1. ~Indexed(call[t].name) /\ call'[t].name = call[t].name /\ call[t].name \in Names
      BY <1>1, <2>1, <2>2 DEF InsertsAreAlone
    <3> QED
      BY <3>1, <1>2 DEF Indexed
  <2> QED
    BY <1>1, <2>1, <2>3 DEF InsertsAreAlone
<1>5. RowsHaveMakers'
  <2>1. \A b, c \in table' : b.id = c.id => b = c
    BY DEF EditedFrom
  <2>2. ASSUME NEW b \in table', b.id \in Requests
        PROVE  Creates(b.id)' /\ pc'[b.id] \in {"refresh", "done"} /\ b.name = call'[b.id].name
    <3>1. PICK a \in table : Kept(a, b)
      BY DEF EditedFrom
    <3>2. Creates(b.id) /\ pc[b.id] \in {"refresh", "done"} /\ b.name = call[b.id].name
      BY <2>2, <3>1 DEF Kept, RowsHaveMakers
    <3> QED
      BY <1>1, <2>2, <3>2 DEF Sessions
  <2>3. ASSUME NEW t \in Sessions, Creates(t), pc'[t] = "refresh" \/ answer'[t] = "created201"
        PROVE  \E b \in table' : b.id = t /\ b.name = call[t].name
    <3>1. pc[t] = "refresh" \/ answer[t] = "created201"
      BY <2>3 DEF Creates
    <3>2. PICK a \in table : a.id = t /\ a.name = call[t].name
      BY <2>3, <3>1 DEF RowsHaveMakers
    <3> QED
      BY <3>2 DEF EditedFrom, Kept
  <2> QED
    BY <1>1, <2>1, <2>2, <2>3 DEF RowsHaveMakers
<1>6. SuperuserFirst'
  <2>1. \A r \in Requests : pc'[r] # "new" => pc[r] # "new"
    BY DEF Sessions
  <2> QED
    BY <1>2, <2>1, AccountsAssumption DEF SuperuserFirst
<1>7. OneAccountPerName'
  <2> SUFFICES ASSUME NEW b \in table', NEW c \in table', b.name = c.name PROVE b = c
    BY DEF OneAccountPerName
  <2>1. PICK a \in table : Kept(a, b)
    BY DEF EditedFrom
  <2>2. PICK d \in table : Kept(d, c)
    BY DEF EditedFrom
  <2>3. a = d
    BY <2>1, <2>2 DEF Kept, OneAccountPerName
  <2> QED
    BY <2>1, <2>2, <2>3 DEF Kept, EditedFrom
<1>8. SuperuserNameReserved'
  BY DEF SuperuserNameReserved, EditedFrom, Kept
<1>9. SomeoneHasTheName'
  <2> SUFFICES ASSUME NEW r \in Requests PROVE AnswerFits(r)'
    BY DEF SomeoneHasTheName, AnswerFits
  <2>1. AnswerFits(r) /\ r \in Sessions
    BY DEF SomeoneHasTheName, AnswerFits, Sessions
  <2>2. answer'[r] = answer[r] \/ answer'[r] \in {"none", "failed"}
    BY <2>1
  <2> QED
    BY <2>1, <2>2 DEF AnswerFits, EditedFrom, Kept
<1> QED
  BY <1>3, <1>4, <1>5, <1>6, <1>7, <1>8, <1>9

\* The rows after the commit of a profile update.
LEMMA ChangedRows ==
  ASSUME IInv, NEW s \in Sessions, ~Creates(s)
  PROVE  EditedFrom(table, Committed(s)) /\ Committed(s) \subseteq Rows
<1> DEFINE New(a) == IF a.id = call[s].account THEN Changed(s, a) ELSE a
<1>1. Committed(s) = { New(a) : a \in table }
  BY DEF Committed
<1>2. \A a \in table : New(a) \in Rows /\ Kept(a, New(a))
  BY DEF IInv, TypeOK, AccountsTypeOK, Rows, Changed, Kept
<1> HIDE DEF New
<1> QED
  BY <1>1, <1>2 DEF EditedFrom, Kept, IInv, RowsHaveMakers

\* The row a COMMIT publishes, and what is left of the session.
LEMMA PublishStep ==
  ASSUME IInv, NEW s \in Sessions, pc[s] = "commit",
         UNCHANGED <<call, schema, phase>>, table' = Committed(s),
         faults' \in 0..MaxFaults, edits' \in 0..MaxEdits,
         loaded' = [loaded EXCEPT ![s] = {}],
         \/ pc' = [pc EXCEPT ![s] = "refresh"] /\ UNCHANGED answer
         \/ pc' = [pc EXCEPT ![s] = "done"] /\ answer' = [answer EXCEPT ![s] = "failed"]
  PROVE  IInv'
<1>1. call[s].op # "none" /\ answer[s] = "none"
  BY DEF IInv, SessionsFollowCalls
<1>2. call[s] \in Calls
  BY DEF IInv, TypeOK, AccountsTypeOK
<1>3. Committed(s) \subseteq Rows
  <2>1. CASE Creates(s)
    <3>1. NewRow(s) \in Rows
      BY <1>2, <2>1 DEF NewRow, Rows, Calls, IInv, SessionsFollowCalls
    <3> QED
      BY <2>1, <3>1 DEF Committed, IInv, TypeOK, AccountsTypeOK
  <2>2. CASE ~Creates(s)
    BY <2>2, ChangedRows
  <2> QED
    BY <2>1, <2>2
<1>4. TypeOK'
  BY <1>3 DEF IInv, TypeOK, AccountsTypeOK, Answers
<1>5. /\ \A t \in Sessions \ {s} : pc'[t] = pc[t] /\ answer'[t] = answer[t]
      /\ \/ pc'[s] = "refresh" /\ answer'[s] = "none"
         \/ pc'[s] = "done" /\ answer'[s] = "failed"
  BY <1>1 DEF IInv, TypeOK, AccountsTypeOK
<1>6. CASE Creates(s)
  BY <1>4, <1>5, <1>6, CommitCreates DEF Committed
<1>7. CASE ~Creates(s)
  <2>1. call[s].op = "profile"
    BY <1>1, <1>2, <1>7 DEF Calls, Creates
  <2> QED
    BY <1>4, <1>5, <1>7, <2>1, ChangedRows, EditStep
<1> QED
  BY <1>6, <1>7

LEMMA CommitStep ==
  ASSUME IInv, NEW s \in Sessions, Commit(s), UNCHANGED deployVars
  PROVE  IInv'
BY Counters, PublishStep DEF Commit, IInv

LEMMA FaultStep ==
  ASSUME IInv, NEW s \in Sessions, SessionFails(s)
  PROVE  IInv'
<1>1. /\ pc[s] \notin {"new", "done"} /\ answer[s] = "none" /\ call[s].op # "none"
      /\ IF Creates(s) THEN call[s].name \in Names ELSE call[s].name = NoName
      /\ UNCHANGED <<call, schema, phase>>
      /\ faults' \in 0..MaxFaults /\ edits' \in 0..MaxEdits
      /\ loaded' = [loaded EXCEPT ![s] = {}]
      /\ pc' = [pc EXCEPT ![s] = "done"]
      /\ answer' = [answer EXCEPT ![s] = "failed"]
  BY DeploymentAssumption DEF IInv, TypeOK, SessionFails, Fault, Answer, SessionsFollowCalls
<1>2. CASE pc[s] = "commit" /\ table' = Committed(s)
  BY <1>1, <1>2, PublishStep
<1>3. CASE table' = table
  <2>1. /\ TypeOK'
        /\ \A t \in Sessions \ {s} : pc'[t] = pc[t] /\ answer'[t] = answer[t]
        /\ pc'[s] = "done" /\ answer'[s] = "failed"
    BY <1>1, <1>3 DEF IInv, TypeOK, AccountsTypeOK, Answers
  <2>2. Follows(s)' /\ AnswerFits(s)'
    BY <1>1, <2>1 DEF Follows, AnswerFits, Creates
  <2> QED
    BY <1>1, <1>3, <2>1, <2>2, MoveStep
<1> QED
  BY <1>2, <1>3 DEF SessionFails, Fault

-----------------------------------------------------------------------------
(* Sessions that begin and end, and the administrator.                     *)

\* A new session: nothing depends on it yet.
LEMMA BeginStep ==
  ASSUME IInv, NEW s \in Sessions, NEW c \in Calls,
         NEW step \in {"check", "load"}, Begin(s, c, step),
         step = "check" => c.op \in {"signup", "superuser"} /\ c.name \in Names,
         step = "load" => c.op = "profile" /\ c.name = NoName,
         s \in Requests => c.op # "superuser" /\ Indexed(FirstSuperuser),
         UNCHANGED <<schema, faults, edits>>,
         phase' \in [Replicas -> Phases],
         \A p \in Replicas :
           /\ phase'[p] = "serving" => phase[p] = "serving"
           /\ p # s => (phase'[p] = "create" <=> phase[p] = "create")
           /\ p = s => phase'[p] = "create" /\ c.op = "superuser" /\ c.name = FirstSuperuser
  PROVE  IInv'
<1> USE DEF IInv
<1>1. /\ pc[s] = "new" /\ answer[s] = "none" /\ ~Creates(s)
      /\ pc'[s] = step /\ call'[s] = c /\ answer' = answer /\ table' = table
      /\ \A t \in Sessions \ {s} :
           pc'[t] = pc[t] /\ call'[t] = call[t] /\ (Creates(t)' <=> Creates(t))
  BY DEF TypeOK, AccountsTypeOK, Begin, Goto, SessionsFollowCalls, Creates
<1>2. TypeOK'
  BY DEF TypeOK, AccountsTypeOK, Begin, Goto
<1>3. SessionsFollowCalls'
  <2>1. Follows(s)'
    BY <1>1 DEF Follows, Creates
  <2>2. \A t \in Sessions \ {s} : Follows(t)'
    BY <1>1 DEF SessionsFollowCalls, Follows
  <2>3. \A r \in Requests : call'[r].op # "superuser"
    BY <1>1 DEF SessionsFollowCalls, Sessions
  <2>4. \A p \in Replicas : /\ call'[p].op \in {"none", "superuser"}
                            /\ call'[p].op = "superuser" <=> phase'[p] = "create"
                            /\ call'[p].op = "superuser" => call'[p].name = FirstSuperuser
    BY <1>1 DEF SessionsFollowCalls, Sessions
  <2> QED
    BY <2>1, <2>2, <2>3, <2>4 DEF SessionsFollowCalls, Follows
<1>4. InsertsAreAlone'
  BY <1>1 DEF InsertsAreAlone, Indexed
<1>5. RowsHaveMakers'
  BY <1>1 DEF RowsHaveMakers, Sessions
<1>6. SuperuserFirst'
  BY <1>1, AccountsAssumption DEF SuperuserFirst, Indexed, Sessions
<1>7. OneAccountPerName' /\ SuperuserNameReserved'
  BY <1>1 DEF OneAccountPerName, SuperuserNameReserved
<1>8. SomeoneHasTheName'
  BY <1>1 DEF SomeoneHasTheName, Sessions
<1> QED
  BY <1>2, <1>3, <1>4, <1>5, <1>6, <1>7, <1>8

LEMMA FindStep ==
  ASSUME IInv, NEW p \in Replicas, FindSuperuser(p)
  PROVE  IInv'
<1>1. CASE Registered(FirstSuperuser)
  <2>1. UNCHANGED accountVars /\ Enter(p, "serving") /\ phase[p] = "find"
        /\ UNCHANGED <<schema, faults, edits>>
    BY <1>1 DEF FindSuperuser
  <2>2. TypeOK'
    <3>1. AccountsTypeOK'
      BY <2>1 DEF IInv, TypeOK, AccountsTypeOK, accountVars
    <3> QED
      BY <2>1, <3>1 DEF IInv, TypeOK, Enter, Phases
  <2>3. \A q \in Replicas : /\ phase'[q] = "create" <=> phase[q] = "create"
                            /\ phase'[q] = "serving" => phase[q] = "serving" \/ q = p
    BY <2>1 DEF IInv, TypeOK, Enter
  <2>4. Indexed(FirstSuperuser)
    BY <1>1 DEF Registered, Indexed
  <2> QED
    BY <2>1, <2>2, <2>3, <2>4, PhaseStep
<1>2. CASE ~Registered(FirstSuperuser)
  <2> DEFINE c == [NoCall EXCEPT !.op = "superuser", !.name = FirstSuperuser, !.password = FirstPassword]
  <2>1. /\ c \in Calls /\ c.op = "superuser" /\ c.name = FirstSuperuser
        /\ p \in Sessions /\ p \notin Requests
    BY AccountsAssumption, DeploymentAssumption DEF NoCall, Calls, Passwords, Sessions
  <2>2. phase[p] = "find" /\ Enter(p, "create") /\ Begin(p, c, "check") /\ UNCHANGED <<schema, faults, edits>>
    BY <1>2 DEF FindSuperuser
  <2>3. /\ phase' \in [Replicas -> Phases]
        /\ \A q \in Replicas :
           /\ phase'[q] = "serving" => phase[q] = "serving"
           /\ q # p => (phase'[q] = "create" <=> phase[q] = "create")
           /\ q = p => phase'[q] = "create"
    BY <2>2 DEF IInv, TypeOK, Enter, Phases
  <2> HIDE DEF c
  <2> QED
    BY <2>1, <2>2, <2>3, BeginStep, AccountsAssumption
<1> QED
  BY <1>1, <1>2

LEMMA RequestStep ==
  ASSUME IInv, NEW r \in Requests, Request(r)
  PROVE  IInv'
<1>1. Indexed(FirstSuperuser) /\ r \in Sessions /\ r \notin Replicas
  BY AccountsAssumption DEF IInv, SuperuserFirst, Request, Sessions
<1>2. /\ UNCHANGED <<schema, phase, faults, edits>> /\ phase' \in [Replicas -> Phases]
  BY DEF Request, deployVars, IInv, TypeOK
<1>3. ASSUME NEW n \in Names, NEW w \in {"strong", "weak"},
             Begin(r, [NoCall EXCEPT !.op = "signup", !.name = n, !.password = w], "check")
      PROVE  IInv'
  <2> DEFINE c == [NoCall EXCEPT !.op = "signup", !.name = n, !.password = w]
  <2>1. c \in Calls /\ c.op = "signup" /\ c.name \in Names
    BY DEF NoCall, Calls, Passwords
  <2> HIDE DEF c
  <2>2. Begin(r, c, "check")
    BY <1>3 DEF c
  <2> QED
    BY <1>1, <1>2, <2>1, <2>2, BeginStep
<1>4. ASSUME NEW a \in table, NEW w \in Passwords,
             Begin(r, [NoCall EXCEPT !.op = "profile", !.account = a.id, !.password = w], "load")
      PROVE  IInv'
  <2> DEFINE c == [NoCall EXCEPT !.op = "profile", !.account = a.id, !.password = w]
  <2>1. c \in Calls /\ c.op = "profile" /\ c.name = NoName
    <3>1. a.id \in Sessions
      BY DEF IInv, TypeOK, AccountsTypeOK, Rows
    <3> QED
      BY <3>1 DEF NoCall, Calls
  <2> HIDE DEF c
  <2>2. Begin(r, c, "load")
    BY <1>4 DEF c
  <2> QED
    BY <1>1, <1>2, <2>1, <2>2, BeginStep
<1> QED
  BY <1>3, <1>4 DEF Request

LEMMA BootEndsStep ==
  ASSUME IInv, NEW p \in Replicas, BootEnds(p)
  PROVE  IInv'
<1> USE DEF IInv
<1>1. /\ p \in Sessions /\ p \notin Requests
      /\ pc'[p] = "new" /\ call'[p] = NoCall /\ answer'[p] = "none" /\ table' = table
      /\ phase'[p] \in {"serving", "down"}
      /\ \A t \in Sessions \ {p} :
           /\ pc'[t] = pc[t] /\ call'[t] = call[t] /\ answer'[t] = answer[t]
           /\ Creates(t)' <=> Creates(t)
      /\ \A q \in Replicas \ {p} : phase'[q] = phase[q]
  BY AccountsAssumption DEF TypeOK, AccountsTypeOK, BootEnds, Enter, Sessions, Creates
<1>2. TypeOK'
  <2>1. NoCall \in Calls
    BY DEF NoCall, Calls, Passwords
  <2> QED
    BY <2>1 DEF TypeOK, AccountsTypeOK, BootEnds, Enter, Sessions, Phases, Answers
<1>3. ~Creates(p)' /\ call'[p].op = "none" /\ call'[p].name = NoName
  BY <1>1 DEF Creates, NoCall
<1>4. SessionsFollowCalls'
  <2>1. \A t \in Sessions : Follows(t)'
    BY <1>1, <1>3 DEF SessionsFollowCalls, Follows
  <2>2. \A r \in Requests : call'[r].op # "superuser"
    BY <1>1 DEF SessionsFollowCalls, Sessions
  <2>3. \A q \in Replicas : /\ call'[q].op \in {"none", "superuser"}
                            /\ call'[q].op = "superuser" <=> phase'[q] = "create"
                            /\ call'[q].op = "superuser" => call'[q].name = FirstSuperuser
    BY <1>1, <1>3 DEF SessionsFollowCalls, Sessions
  <2> QED
    BY <2>1, <2>2, <2>3 DEF SessionsFollowCalls, Follows
<1>5. InsertsAreAlone' /\ RowsHaveMakers'
  BY <1>1, <1>3 DEF InsertsAreAlone, RowsHaveMakers, Indexed, Sessions
<1>6. SuperuserFirst'
  <2>1. ASSUME answer[p] = "created201" PROVE Indexed(FirstSuperuser)
    BY <1>1, <2>1 DEF RowsHaveMakers, SessionsFollowCalls, Indexed, Creates, BootEnds
  <2> QED
    BY <1>1, <2>1 DEF SuperuserFirst, Indexed, BootEnds, Enter, TypeOK, Sessions
<1>7. OneAccountPerName' /\ SuperuserNameReserved'
  BY <1>1 DEF OneAccountPerName, SuperuserNameReserved
<1>8. SomeoneHasTheName'
  BY <1>1 DEF SomeoneHasTheName, Sessions
<1> QED
  BY <1>2, <1>4, <1>5, <1>6, <1>7, <1>8

LEMMA AdministerStep ==
  ASSUME IInv, Administer
  PROVE  IInv'
<1>1. /\ UNCHANGED <<pc, call, loaded, answer, schema, phase, faults>>
      /\ edits' \in 0..MaxEdits
  BY DeploymentAssumption DEF IInv, TypeOK, Administer, SoftDelete, SetActive
<1>2. PICK a \in table, b \in Rows :
        /\ Kept(a, b)
        /\ table' = (table \ {a}) \union {b}
  <2>1. PICK a \in table : SoftDelete(a) \/ SetActive(a)
    BY DEF Administer
  <2>2. a \in Rows
    BY DEF IInv, TypeOK, AccountsTypeOK
  <2>3. /\ [a EXCEPT !.deleted = TRUE] \in Rows /\ Kept(a, [a EXCEPT !.deleted = TRUE])
        /\ [a EXCEPT !.is_active = ~@] \in Rows /\ Kept(a, [a EXCEPT !.is_active = ~@])
    BY <2>2 DEF Rows, Kept
  <2> QED
    BY <2>1, <2>3 DEF SoftDelete, SetActive
<1>3. EditedFrom(table, table')
  BY <1>2 DEF EditedFrom, Kept, IInv, RowsHaveMakers
<1>4. TypeOK'
  BY <1>1, <1>2 DEF IInv, TypeOK, AccountsTypeOK
<1> QED
  BY <1>1, <1>3, <1>4, EditStep

-----------------------------------------------------------------------------
(* The invariant, and what follows from it.                                *)

LEMMA InitInv ==
  Init => IInv
<1> SUFFICES ASSUME Init PROVE IInv
  OBVIOUS
<1> USE DEF Init, AccountsInit
<1>1. TypeOK
  <2>1. NoCall \in Calls
    BY DEF NoCall, Calls, Passwords
  <2>2. AccountsTypeOK
    <3>1. loaded \in [Sessions -> SUBSET Rows] /\ table \subseteq Rows
      OBVIOUS
    <3>2. call \in [Sessions -> Calls] /\ answer \in [Sessions -> Answers]
      BY <2>1 DEF Answers
    <3>3. pc \in [Sessions -> {"new", "check", "insert", "load", "flush", "commit", "refresh", "done"}]
      OBVIOUS
    <3> QED
      BY <3>1, <3>2, <3>3 DEF AccountsTypeOK
  <2>3. faults \in 0..MaxFaults /\ edits \in 0..MaxEdits
    BY DeploymentAssumption
  <2>4. schema \in BOOLEAN /\ phase \in [Replicas -> Phases]
    BY DEF Phases
  <2> QED
    BY <2>2, <2>3, <2>4 DEF TypeOK
<1>2. SessionsFollowCalls /\ InsertsAreAlone /\ RowsHaveMakers /\ SuperuserFirst
  BY DEF SessionsFollowCalls, InsertsAreAlone, RowsHaveMakers, SuperuserFirst,
         Creates, NoCall, Sessions
<1>3. OneAccountPerName /\ SuperuserNameReserved /\ SomeoneHasTheName
  BY DEF OneAccountPerName, SuperuserNameReserved, SomeoneHasTheName, Sessions
<1> QED
  BY <1>1, <1>2, <1>3 DEF IInv

LEMMA NextInv ==
  IInv /\ [Next]_vars => IInv'
<1> SUFFICES ASSUME IInv, [Next]_vars PROVE IInv'
  OBVIOUS
<1>1. ASSUME NEW p \in Replicas, Boot(p) PROVE IInv'
  BY <1>1, BootSteps, FindStep, BootEndsStep DEF Boot
<1>2. ASSUME NEW p \in Replicas, Crash(p) PROVE IInv'
  BY <1>2, BootSteps
<1>3. ASSUME NEW r \in Requests, Request(r) PROVE IInv'
  BY <1>3, RequestStep
<1>4. ASSUME NEW s \in Sessions, Step(s) PROVE IInv'
  BY <1>4, CheckStep, InsertStep, LoadStep, FlushStep, CommitStep, RefreshStep DEF Step, Proceed
<1>5. ASSUME NEW s \in Sessions, SessionFails(s) PROVE IInv'
  BY <1>5, FaultStep
<1>6. CASE Administer
  BY <1>6, AdministerStep
<1>7. CASE UNCHANGED vars
  <2>1. UNCHANGED accountVars /\ UNCHANGED deployVars
    BY <1>7 DEF vars
  <2>2. TypeOK'
    BY <2>1 DEF IInv, TypeOK, AccountsTypeOK, accountVars, deployVars
  <2> QED
    BY <2>1, <2>2, PhaseStep DEF deployVars
<1> QED
  BY <1>1, <1>2, <1>3, <1>4, <1>5, <1>6, <1>7 DEF Next

\* The inductive invariant holds in every behaviour.
THEOREM IInvHolds ==
  Spec => []IInv
BY InitInv, NextInv, PTL DEF Spec

\* The accounts and the replicas are well typed.
THEOREM TypeCorrect ==
  Spec => []TypeOK
<1>1. IInv => TypeOK
  BY DEF IInv
<1> QED
  BY IInvHolds, <1>1, PTL

\* A name is in the table once (users/service.py:14, and the UNIQUE index of
\* the migration).
THEOREM NamesAreUnique ==
  Spec => []OneAccountPerName
<1>1. IInv => OneAccountPerName
  BY DEF IInv
<1> QED
  BY IInvHolds, <1>1, PTL

\* The superuser's name is never an ordinary account's (entrypoint.sh:5-13).
THEOREM SuperuserIsReserved ==
  Spec => []SuperuserNameReserved
<1>1. IInv => SuperuserNameReserved
  BY DEF IInv
<1> QED
  BY IInvHolds, <1>1, PTL

\* Whoever is refused a name lost it to an account that exists
\* (users/service.py:15, :29).
THEOREM RefusalsHaveWinners ==
  Spec => []SomeoneHasTheName
<1>1. IInv => SomeoneHasTheName
  BY DEF IInv
<1> QED
  BY IInvHolds, <1>1, PTL

-----------------------------------------------------------------------------
(* What sessions may do to the rows of others.                             *)

\* How the table changes: by the COMMIT of a session, or by the administrator,
\* when no session moves.
LEMMA TableChanges ==
  ASSUME IInv, [Next]_vars
  PROVE  \/ table' = table
         \/ \E s \in Sessions : pc[s] = "commit" /\ pc'[s] # "commit" /\ table' = Committed(s)
         \/ pc' = pc /\ \E a \in table : SoftDelete(a) \/ SetActive(a)
<1>1. ASSUME NEW s \in Sessions, Commit(s) \/ Fault(s)
      PROVE  \/ table' = table
             \/ pc[s] = "commit" /\ pc'[s] # "commit" /\ table' = Committed(s)
  BY <1>1 DEF IInv, TypeOK, AccountsTypeOK, Commit, Fault, Answer
<1>2. ASSUME NEW s \in Sessions, Step(s) \/ SessionFails(s)
      PROVE  \/ table' = table
             \/ pc[s] = "commit" /\ pc'[s] # "commit" /\ table' = Committed(s)
  BY <1>1, <1>2 DEF Step, SessionFails, Proceed, Check, Insert, Load, Flush, Refresh
<1>3. ASSUME NEW p \in Replicas, Boot(p) \/ Crash(p) PROVE table' = table
  BY <1>3 DEF Boot, Crash, Start, ReadRevision, CreateTables, CommitSchema, FindSuperuser,
              BootEnds, Begin, accountVars
<1>4. ASSUME NEW r \in Requests, Request(r) PROVE table' = table
  BY <1>4 DEF Request, Begin
<1>5. CASE Administer
  BY <1>5 DEF Administer, SoftDelete, SetActive
<1>6. CASE UNCHANGED vars
  BY <1>6 DEF vars, accountVars
<1> QED
  BY <1>2, <1>3, <1>4, <1>5, <1>6 DEF Next

\* No session removes a row or changes what the administrator decides.
THEOREM AdminColumnsStay ==
  Spec => SessionsKeepAdminColumns
<1>1. ASSUME IInv, [Next]_vars, pc' # pc
      PROVE  \A a \in table : \E b \in table' : b = [a EXCEPT !.hash = b.hash]
  <2> SUFFICES ASSUME NEW a \in table PROVE \E b \in table' : b = [a EXCEPT !.hash = b.hash]
    OBVIOUS
  <2>1. a \in Rows /\ a = [a EXCEPT !.hash = a.hash]
    BY <1>1 DEF IInv, TypeOK, AccountsTypeOK, Rows
  <2>2. ASSUME NEW s \in Sessions, table' = Committed(s)
        PROVE  \E b \in table' : b = [a EXCEPT !.hash = b.hash]
    <3>1. CASE Creates(s)
      BY <2>1, <2>2, <3>1 DEF Committed
    <3>2. CASE ~Creates(s)
      <4> DEFINE b == IF a.id = call[s].account THEN Changed(s, a) ELSE a
      <4>1. b \in table'
        BY <2>2, <3>2 DEF Committed
      <4>2. b = [a EXCEPT !.hash = b.hash]
        BY <2>1 DEF Changed, Rows
      <4> QED
        BY <4>1, <4>2
    <3> QED
      BY <3>1, <3>2
  <2> QED
    BY <1>1, <2>1, <2>2, TableChanges
<1>2. IInv /\ [Next]_vars =>
        [pc' # pc => \A a \in table : \E b \in table' : b = [a EXCEPT !.hash = b.hash]]_vars
  BY <1>1
<1> QED
  BY IInvHolds, <1>2, PTL DEF Spec, SessionsKeepAdminColumns

\* The hash of a row, and the update that set it.
AskedOnly ==
  \A a \in table, b \in table' :
    a.id = b.id /\ a.hash # b.hash =>
      /\ pc[b.hash] = "commit" /\ pc'[b.hash] # "commit"
      /\ call[b.hash].account = a.id
      /\ call[b.hash].password = "strong"

\* A password changes only as its owner asked, and only to a strong one.
THEOREM PasswordsChangeAsAsked ==
  Spec => OnlyAskedPasswordsChange
<1>1. ASSUME IInv, [Next]_vars PROVE AskedOnly
  <2> SUFFICES ASSUME NEW a \in table, NEW b \in table', a.id = b.id, a.hash # b.hash
               PROVE  /\ pc[b.hash] = "commit" /\ pc'[b.hash] # "commit"
                      /\ call[b.hash].account = a.id
                      /\ call[b.hash].password = "strong"
    BY DEF AskedOnly
  <2>1. \A c \in table : c \in Rows /\ (c.id = a.id => c = a)
    BY <1>1 DEF IInv, TypeOK, AccountsTypeOK, RowsHaveMakers
  <2>2. b \notin table
    BY <2>1
  <2>3. ASSUME NEW s \in Sessions, pc[s] = "commit", pc'[s] # "commit", table' = Committed(s)
        PROVE  /\ pc[b.hash] = "commit" /\ pc'[b.hash] # "commit"
               /\ call[b.hash].account = a.id
               /\ call[b.hash].password = "strong"
    <3>1. CASE Creates(s)
      <4>1. b = NewRow(s) /\ b.name = call[s].name /\ b.id = s
        BY <2>2, <2>3, <3>1 DEF Committed, NewRow
      <4>2. ~Indexed(call[s].name)
        BY <1>1, <2>3, <3>1 DEF IInv, InsertsAreAlone
      <4>3. CASE s \in Requests
        BY <1>1, <2>3, <4>1, <4>3 DEF IInv, RowsHaveMakers
      <4>4. CASE s \in Replicas
        BY <1>1, <3>1, <4>1, <4>2, <4>4
        DEF IInv, SuperuserNameReserved, SessionsFollowCalls, Indexed, Creates
      <4> QED
        BY <4>3, <4>4 DEF Sessions
    <3>2. CASE ~Creates(s)
      <4>1. PICK c \in table : b = IF c.id = call[s].account THEN Changed(s, c) ELSE c
        BY <2>3, <3>2 DEF Committed
      <4>2. b = Changed(s, c) /\ c.id = call[s].account
        BY <2>2, <4>1
      <4>3. b.id = c.id /\ c = a
        BY <2>1, <4>2 DEF Changed, Rows
      <4>4. b.hash = s /\ call[s].password = "strong"
        BY <2>1, <4>2, <4>3 DEF Changed, Rows
      <4> QED
        BY <2>3, <4>2, <4>3, <4>4
    <3> QED
      BY <3>1, <3>2
  <2>4. ASSUME NEW c \in table, SoftDelete(c) \/ SetActive(c) PROVE FALSE
    <3>1. b = [c EXCEPT !.deleted = TRUE] \/ b = [c EXCEPT !.is_active = ~@]
      BY <2>2, <2>4 DEF SoftDelete, SetActive
    <3>2. b.id = c.id /\ b.hash = c.hash
      BY <2>1, <3>1 DEF Rows
    <3> QED
      BY <2>1, <3>2
  <2> QED
    BY <1>1, <2>2, <2>3, <2>4, TableChanges
<1>2. IInv /\ [Next]_vars => [AskedOnly]_vars
  BY <1>1
<1> QED
  BY IInvHolds, <1>2, PTL DEF Spec, OnlyAskedPasswordsChange, AskedOnly

-----------------------------------------------------------------------------
(* Why containers are restarted.                                           *)

\* Rows stay, and stay deleted; a new row is its session's commit.
LEMMA RowsStay ==
  ASSUME IInv, [Next]_vars
  PROVE  /\ \A a \in table : \E b \in table' :
              b.id = a.id /\ b.name = a.name /\ (a.deleted => b.deleted)
         /\ \A b \in table' :
              \/ \E a \in table : a.id = b.id /\ (a.deleted => b.deleted)
              \/ pc[b.id] = "commit" /\ pc'[b.id] # "commit"
<1>0. \A a \in table : a \in Rows
  BY DEF IInv, TypeOK, AccountsTypeOK
<1>1. CASE table' = table
  BY <1>1
<1>2. ASSUME NEW s \in Sessions, pc[s] = "commit", pc'[s] # "commit", table' = Committed(s)
      PROVE  /\ \A a \in table : \E b \in table' :
                  b.id = a.id /\ b.name = a.name /\ (a.deleted => b.deleted)
             /\ \A b \in table' :
                  \/ \E a \in table : a.id = b.id /\ (a.deleted => b.deleted)
                  \/ pc[b.id] = "commit" /\ pc'[b.id] # "commit"
  <2>1. CASE Creates(s)
    BY <1>2, <2>1 DEF Committed, NewRow
  <2>2. CASE ~Creates(s)
    <3> DEFINE New(a) == IF a.id = call[s].account THEN Changed(s, a) ELSE a
    <3>1. table' = { New(a) : a \in table }
      BY <1>2, <2>2 DEF Committed
    <3>2. \A a \in table :
            New(a).id = a.id /\ New(a).name = a.name /\ New(a).deleted = a.deleted
      BY <1>0 DEF Changed, Rows
    <3> HIDE DEF New
    <3> QED
      BY <3>1, <3>2
  <2> QED
    BY <2>1, <2>2
<1>3. ASSUME NEW c \in table, SoftDelete(c) \/ SetActive(c)
      PROVE  /\ \A a \in table : \E b \in table' :
                  b.id = a.id /\ b.name = a.name /\ (a.deleted => b.deleted)
             /\ \A b \in table' : \E a \in table : a.id = b.id /\ (a.deleted => b.deleted)
  <2>1. PICK d : /\ table' = (table \ {c}) \union {d}
                 /\ d = [c EXCEPT !.deleted = TRUE] \/ d = [c EXCEPT !.is_active = ~@]
    BY <1>3 DEF SoftDelete, SetActive
  <2>2. d.id = c.id /\ d.name = c.name /\ (c.deleted => d.deleted)
    BY <1>0, <2>1 DEF Rows
  <2> QED
    BY <2>1, <2>2
<1> QED
  BY <1>1, <1>2, <1>3, TableChanges

\* What BootsHaveCause says of one replica.
Caused(p) ==
  /\ phase[p] \in {"tables", "version"} /\ schema => Replicas # {p}
  /\ phase[p] = "create" =>
       /\ call[p].password = FirstPassword
       /\ pc[p] = "done" =>
            answer[p] \in {"created201", "invalid400", "conflict409", "duplicate500", "failed"}
       /\ pc[p] \in {"check", "insert"} => \A a \in table : a.id = p => a.deleted
       /\ answer[p] = "failed" => faults > 0
       /\ answer[p] = "invalid400" => FirstPassword = "weak"
       /\ answer[p] \in {"conflict409", "duplicate500"} => LostSuperuser(p)

\* A replica that does not move itself keeps its reasons.
LEMMA OthersKeepCause ==
  ASSUME IInv, [Next]_vars, NEW p \in Replicas, Caused(p),
         phase'[p] = phase[p], pc'[p] = pc[p], call'[p] = call[p], answer'[p] = answer[p],
         faults \in Nat, faults' \in {faults, faults + 1},
         schema' = schema \/ Replicas # {p}
  PROVE  Caused(p)'
<1>1. LostSuperuser(p) => LostSuperuser(p)'
  BY RowsStay DEF LostSuperuser
<1>2. (\A a \in table : a.id = p => a.deleted) /\ pc[p] \in {"check", "insert"}
        => \A a \in table' : a.id = p => a.deleted
  BY RowsStay
<1> QED
  BY <1>1, <1>2 DEF Caused

\* A step of bootstrap_db's session: until its own commit, a row that is not
\* deleted is another's.
LEMMA SessionKeepsCause ==
  ASSUME IInv, NEW p \in Replicas, Caused(p), Step(p) \/ SessionFails(p)
  PROVE  Caused(p)'
<1> USE DEF IInv
<1>1. p \in Sessions
  BY DEF Sessions
<1>2. /\ phase[p] = "create" /\ call[p].op = "superuser" /\ Creates(p)
      /\ call[p].name = FirstSuperuser /\ call[p].password = FirstPassword
      /\ phase' = phase /\ call' = call /\ schema' = schema
      /\ pc[p] \notin {"new", "done"} /\ answer[p] = "none"
      /\ faults \in Nat
  <2>1. pc[p] \notin {"new", "done"}
    BY DEF Step, SessionFails, Fault, Proceed, Check, Insert, Load, Flush, Commit, Refresh
  <2>2. call[p].op = "superuser" /\ phase[p] = "create" /\ answer[p] = "none"
    BY <1>1, <2>1 DEF SessionsFollowCalls
  <2>3. phase' = phase /\ call' = call /\ schema' = schema
    BY DEF Step, SessionFails, Fault, Proceed, Check, Insert, Load, Flush, Commit, Refresh,
           deployVars
  <2> QED
    BY <2>1, <2>2, <2>3, DeploymentAssumption DEF SessionsFollowCalls, Creates, Caused, TypeOK
<1>3. CASE Step(p)
  <2>0. faults' = faults
    BY <1>3 DEF Step, deployVars
  <2>1. CASE Check(p)
    <3>1. table' = table /\ pc[p] = "check" /\ \A a \in table : a.id = p => a.deleted
      BY <1>2, <2>1 DEF Check, Caused
    <3>2. Registered(FirstSuperuser) => LostSuperuser(p)
      BY <3>1 DEF Registered, LostSuperuser
    <3>3. \/ Registered(FirstSuperuser) /\ pc'[p] = "done" /\ answer'[p] = "conflict409"
          \/ FirstPassword = "weak" /\ pc'[p] = "done" /\ answer'[p] = "invalid400"
          \/ pc'[p] = "insert" /\ answer'[p] = "none"
      BY <1>1, <1>2, <2>1 DEF Check, Goto, Answer, TypeOK, AccountsTypeOK
    <3> QED
      BY <1>2, <3>1, <3>2, <3>3 DEF Caused, LostSuperuser
  <2>2. CASE Insert(p)
    <3>1. table' = table /\ pc[p] = "insert" /\ \A a \in table : a.id = p => a.deleted
      BY <1>2, <2>2 DEF Insert, Caused
    <3>2. Indexed(FirstSuperuser) => LostSuperuser(p)
      BY <3>1 DEF Indexed, LostSuperuser
    <3>3. \/ Indexed(FirstSuperuser) /\ pc'[p] = "done" /\ answer'[p] = "duplicate500"
          \/ pc'[p] = "commit" /\ answer'[p] = "none"
      BY <1>1, <1>2, <2>2 DEF Insert, Goto, Answer, TypeOK, AccountsTypeOK
    <3> QED
      BY <1>2, <3>1, <3>2, <3>3 DEF Caused, LostSuperuser
  <2>3. CASE Load(p) \/ Flush(p)
    BY <1>1, <1>2, <2>3 DEF Load, Flush, SessionsFollowCalls
  <2>4. CASE Commit(p) \/ Refresh(p)
    <3>1. \/ pc'[p] = "refresh" /\ answer'[p] = "none"
          \/ pc'[p] = "done" /\ answer'[p] = "created201"
      BY <1>1, <1>2, <2>4 DEF Commit, Refresh, Answer, TypeOK, AccountsTypeOK
    <3> QED
      BY <1>2, <3>1 DEF Caused
  <2> QED
    BY <1>3, <2>1, <2>2, <2>3, <2>4 DEF Step, Proceed
<1>4. CASE SessionFails(p)
  <2>1. pc'[p] = "done" /\ answer'[p] = "failed" /\ faults' > 0
    BY <1>1, <1>2, <1>4 DEF SessionFails, Fault, Answer, TypeOK, AccountsTypeOK
  <2> QED
    BY <1>2, <2>1 DEF Caused
<1> QED
  BY <1>3, <1>4

\* A command of the container itself.
LEMMA BootKeepsCause ==
  ASSUME IInv, NEW p \in Replicas, Caused(p), Boot(p) \/ Crash(p)
  PROVE  Caused(p)'
<1> USE DEF IInv
<1>1. p \in Sessions /\ phase \in [Replicas -> Phases]
  BY DEF Sessions, TypeOK
<1>2. CASE Start(p) \/ ReadRevision(p) \/ CreateTables(p) \/ CommitSchema(p) \/ Crash(p) \/ BootEnds(p)
  <2>1. phase'[p] # "create"
    BY <1>1, <1>2 DEF Start, ReadRevision, CreateTables, CommitSchema, Crash, BootEnds, Enter
  <2>2. phase'[p] \in {"tables", "version"} => ~schema'
    BY <1>1, <1>2 DEF Start, ReadRevision, CreateTables, CommitSchema, Crash, BootEnds, Enter, TypeOK
  <2> QED
    BY <2>1, <2>2 DEF Caused
<1>3. CASE FindSuperuser(p)
  <2>1. CASE phase'[p] = "serving"
    BY <2>1 DEF Caused
  <2>2. CASE phase'[p] # "serving"
    <3> DEFINE c == [NoCall EXCEPT !.op = "superuser", !.name = FirstSuperuser,
                                   !.password = FirstPassword]
    <3>1. /\ ~Registered(FirstSuperuser) /\ Begin(p, c, "check") /\ phase'[p] = "create"
          /\ table' = table
      BY <1>1, <1>3, <2>2 DEF FindSuperuser, Enter, Begin
    <3>2. c.password = FirstPassword
      BY DEF NoCall
    <3> HIDE DEF c
    <3>3. call'[p] = c /\ pc'[p] = "check" /\ answer'[p] = "none"
      BY <1>1, <3>1 DEF Begin, Goto, TypeOK, AccountsTypeOK, SessionsFollowCalls
    <3>4. \A a \in table : a.id = p => a.deleted
      BY <3>1 DEF Registered, SuperuserNameReserved
    <3> QED
      BY <3>1, <3>2, <3>3, <3>4 DEF Caused
  <2> QED
    BY <2>1, <2>2
<1> QED
  BY <1>2, <1>3 DEF Boot

\* A step moves one replica, or none.
LEMMA OneReplicaMoves ==
  ASSUME IInv, [Next]_vars, NEW p \in Replicas
  PROVE  \/ Boot(p) \/ Crash(p) \/ Step(p) \/ SessionFails(p)
         \/ /\ phase'[p] = phase[p] /\ pc'[p] = pc[p] /\ call'[p] = call[p]
            /\ answer'[p] = answer[p]
            /\ faults' \in {faults, faults + 1} /\ faults \in Nat
            /\ schema' = schema \/ Replicas # {p}
<1> USE DEF IInv, TypeOK, AccountsTypeOK
<1>0. p \in Sessions /\ faults \in Nat /\ p \notin Requests
  BY DeploymentAssumption, AccountsAssumption DEF Sessions
<1>1. ASSUME NEW q \in Replicas, q # p, Boot(q) \/ Crash(q)
      PROVE  /\ phase'[p] = phase[p] /\ pc'[p] = pc[p] /\ call'[p] = call[p]
             /\ answer'[p] = answer[p] /\ faults' \in {faults, faults + 1} /\ Replicas # {p}
  BY <1>0, <1>1 DEF Boot, Crash, Start, ReadRevision, CreateTables, CommitSchema, FindSuperuser,
       BootEnds, Enter, Begin, Goto, accountVars, Sessions
<1>2. ASSUME NEW t \in Sessions, t # p, Step(t) \/ SessionFails(t)
      PROVE  /\ phase' = phase /\ pc'[p] = pc[p] /\ call'[p] = call[p]
             /\ answer'[p] = answer[p] /\ faults' \in {faults, faults + 1} /\ schema' = schema
  BY <1>0, <1>2 DEF Step, SessionFails, Fault, Proceed, Check, Insert, Load, Flush, Commit,
       Refresh, Answer, Goto, deployVars
<1>3. ASSUME NEW r \in Requests, Request(r)
      PROVE  /\ phase' = phase /\ pc'[p] = pc[p] /\ call'[p] = call[p]
             /\ answer'[p] = answer[p] /\ faults' = faults /\ schema' = schema
  BY <1>0, <1>3 DEF Request, Begin, Goto, deployVars, Sessions
<1>4. ASSUME Administer
      PROVE  /\ phase' = phase /\ UNCHANGED <<pc, call, answer>> /\ faults' = faults
             /\ schema' = schema
  BY <1>4 DEF Administer, SoftDelete, SetActive
<1>5. CASE UNCHANGED vars
  BY <1>0, <1>5 DEF vars, accountVars, deployVars
<1> QED
  BY <1>0, <1>1, <1>2, <1>3, <1>4, <1>5 DEF Next

\* The end of a bootstrap_db that did not create the superuser was caused.
THEOREM BootsAreCaused == Spec => []BootsHaveCause
<1>1. Init => BootsHaveCause
  BY DEF Init, BootsHaveCause
<1>2. BootsHaveCause <=> \A p \in Replicas : Caused(p)
  BY DEF BootsHaveCause, Caused
<1>3. IInv /\ BootsHaveCause /\ [Next]_vars => BootsHaveCause'
  <2> SUFFICES ASSUME IInv, \A p \in Replicas : Caused(p), [Next]_vars, NEW p \in Replicas
               PROVE  Caused(p)'
    BY DEF BootsHaveCause, Caused
  <2> QED
    BY OneReplicaMoves, OthersKeepCause, SessionKeepsCause, BootKeepsCause
<1> QED
  BY IInvHolds, <1>1, <1>3, PTL DEF Spec

\* A container exits only when it was killed, failed, was misconfigured or lost
\* to another replica, or to the administrator's deletion.
THEOREM RestartsAreCaused == Spec => RestartsHaveCause
<1>1. ASSUME IInv, BootsHaveCause, [Next]_vars
      PROVE  \A p \in Replicas :
               phase[p] # "down" /\ phase'[p] = "down" =>
                 \/ faults' > faults
                 \/ phase[p] = "tables" /\ schema /\ Replicas # {p}
                 \/ /\ phase[p] = "create"
                    /\ \/ answer[p] = "failed" /\ faults > 0
                       \/ answer[p] = "invalid400" /\ FirstPassword = "weak"
                       \/ answer[p] \in {"conflict409", "duplicate500"} /\ LostSuperuser(p)
  <2> SUFFICES ASSUME NEW p \in Replicas, phase[p] # "down", phase'[p] = "down"
               PROVE  \/ faults' > faults
                      \/ phase[p] = "tables" /\ schema /\ Replicas # {p}
                      \/ /\ phase[p] = "create"
                         /\ \/ answer[p] = "failed" /\ faults > 0
                            \/ answer[p] = "invalid400" /\ FirstPassword = "weak"
                            \/ answer[p] \in {"conflict409", "duplicate500"} /\ LostSuperuser(p)
    OBVIOUS
  <2>0. phase \in [Replicas -> Phases] /\ faults \in Nat
    BY <1>1, DeploymentAssumption DEF IInv, TypeOK
  <2>1. Boot(p) \/ Crash(p)
    BY <1>1, <2>0, OneReplicaMoves DEF Step, SessionFails, deployVars
  <2>2. CASE Crash(p)
    BY <2>0, <2>2 DEF Crash
  <2>3. CASE Boot(p)
    <3>1. \/ phase[p] = "tables" /\ schema
          \/ phase[p] = "create" /\ pc[p] = "done" /\ answer[p] # "created201"
      BY <2>0, <2>3 DEF Boot, Start, ReadRevision, CreateTables, CommitSchema, FindSuperuser,
                        BootEnds, Enter
    <3> QED
      BY <1>1, <3>1 DEF BootsHaveCause
  <2> QED
    BY <2>1, <2>2, <2>3
<1>2. IInv /\ BootsHaveCause /\ [Next]_vars =>
        [ \A p \in Replicas :
            phase[p] # "down" /\ phase'[p] = "down" =>
              \/ faults' > faults
              \/ phase[p] = "tables" /\ schema /\ Replicas # {p}
              \/ /\ phase[p] = "create"
                 /\ \/ answer[p] = "failed" /\ faults > 0
                    \/ answer[p] = "invalid400" /\ FirstPassword = "weak"
                    \/ answer[p] \in {"conflict409", "duplicate500"} /\ LostSuperuser(p) ]_vars
  BY <1>1
<1> QED
  BY IInvHolds, BootsAreCaused, <1>2, PTL DEF Spec, RestartsHaveCause

\* Without edits nobody is deleted.
NoneDeleted == edits = 0 => \A a \in table : ~a.deleted

LEMMA EditsDelete == Spec => []NoneDeleted
<1>1. Init => NoneDeleted
  BY DEF Init, AccountsInit, NoneDeleted
<1>2. IInv /\ NoneDeleted /\ [Next]_vars => NoneDeleted'
  <2> SUFFICES ASSUME IInv, NoneDeleted, [Next]_vars, edits' = 0 PROVE \A a \in table' : ~a.deleted
    BY DEF NoneDeleted
  <2>1. edits \in Nat
    BY DeploymentAssumption DEF IInv, TypeOK
  <2>2. edits = 0 /\ ~Administer
    <3>1. CASE Administer
      BY <2>1, <3>1 DEF Administer
    <3>2. CASE ~Administer
      <4>1. edits' = edits
        BY <3>2 DEF Next, Boot, Crash, Start, ReadRevision, CreateTables, CommitSchema,
                    FindSuperuser, BootEnds, Request, Step, SessionFails, deployVars, vars
      <4> QED
        BY <3>2, <4>1
    <3> QED
      BY <3>1, <3>2
  <2>3. \A a \in table : ~a.deleted /\ a \in Rows
    BY <2>2 DEF NoneDeleted, IInv, TypeOK, AccountsTypeOK
  <2>4. \/ table' = table
        \/ \E s \in Sessions : table' = Committed(s)
    <3>1. ASSUME NEW s \in Sessions, Step(s) \/ SessionFails(s)
          PROVE  table' = table \/ table' = Committed(s)
      BY <3>1 DEF Step, SessionFails, Proceed, Check, Insert, Load, Flush, Refresh, Commit, Fault
    <3>2. ASSUME NEW p \in Replicas, Boot(p) \/ Crash(p) PROVE table' = table
      BY <3>2 DEF Boot, Crash, Start, ReadRevision, CreateTables, CommitSchema, FindSuperuser,
                  BootEnds, Begin, accountVars
    <3>3. ASSUME NEW r \in Requests, Request(r) PROVE table' = table
      BY <3>3 DEF Request, Begin
    <3>4. CASE UNCHANGED vars
      BY <3>4 DEF vars, accountVars
    <3> QED
      BY <2>2, <3>1, <3>2, <3>3, <3>4 DEF Next
  <2>5. ASSUME NEW s \in Sessions, table' = Committed(s) PROVE \A a \in table' : ~a.deleted
    <3>1. ~NewRow(s).deleted /\ \A a \in table : ~Changed(s, a).deleted
      BY <2>3 DEF NewRow, Changed, Rows
    <3> QED
      BY <2>3, <2>5, <3>1 DEF Committed
  <2> QED
    BY <2>3, <2>4, <2>5
<1> QED
  BY IInvHolds, <1>1, <1>2, PTL DEF Spec

\* One replica with a strong password, whose statements do not fail and whose
\* rows nobody edits, comes up on an empty database without ever exiting.
THEOREM AloneComesUp ==
  ASSUME NEW p, Replicas = {p}, MaxFaults = 0, MaxEdits = 0, FirstPassword = "strong"
  PROVE  Spec => [][phase[p] = "down" \/ phase'[p] # "down"]_vars
<1>1. ASSUME IInv, NoneDeleted, BootsHaveCause, [Next]_vars,
             phase[p] # "down", phase'[p] = "down"
      PROVE  FALSE
  <2>1. faults = 0 /\ edits = 0 /\ phase \in [Replicas -> Phases] /\ p \in Replicas
    BY <1>1 DEF IInv, TypeOK
  <2>2. Boot(p)
    BY <1>1, <2>1, OneReplicaMoves DEF Crash, Step, SessionFails, deployVars
  <2>3. \/ phase[p] = "tables" /\ schema
        \/ phase[p] = "create" /\ pc[p] = "done" /\ answer[p] # "created201"
    BY <1>1, <2>1, <2>2 DEF Boot, Start, ReadRevision, CreateTables, CommitSchema, FindSuperuser,
                      BootEnds, Enter
  <2>4. LostSuperuser(p)
    BY <1>1, <2>1, <2>3 DEF BootsHaveCause
  <2>5. PICK a \in table : a.name = FirstSuperuser /\ (a.id # p \/ a.deleted)
    BY <2>4 DEF LostSuperuser
  <2>6. a.id = p /\ ~a.deleted
    BY <1>1, <2>1, <2>5 DEF IInv, SuperuserNameReserved, NoneDeleted
  <2> QED
    BY <2>5, <2>6
<1>2. IInv /\ NoneDeleted /\ BootsHaveCause /\ [Next]_vars =>
        [phase[p] = "down" \/ phase'[p] # "down"]_vars
  BY <1>1
<1> QED
  BY IInvHolds, EditsDelete, BootsAreCaused, <1>2, PTL DEF Spec

-----------------------------------------------------------------------------
(* Nobody waits for ever on another.                                       *)

\* Whoever creates an account sent a password that is strong or weak.
PasswordsAreSent ==
  \A s \in Sessions : Creates(s) => call[s].password \in {"strong", "weak"}

LEMMA PasswordsSent == Spec => []PasswordsAreSent
<1>1. Init => PasswordsAreSent
  BY DEF Init, AccountsInit, PasswordsAreSent, Creates, NoCall
<1>2. IInv /\ PasswordsAreSent /\ [Next]_vars => PasswordsAreSent'
  <2> SUFFICES ASSUME IInv, PasswordsAreSent, [Next]_vars PROVE PasswordsAreSent'
    OBVIOUS
  <2>0. call \in [Sessions -> Calls]
    BY DEF IInv, TypeOK, AccountsTypeOK
  <2>1. CASE call' = call
    BY <2>1 DEF PasswordsAreSent, Creates
  <2>2. ASSUME NEW s \in Sessions, NEW c, call' = [call EXCEPT ![s] = c],
               c.op \in {"signup", "superuser"} => c.password \in {"strong", "weak"}
        PROVE  PasswordsAreSent'
    BY <2>0, <2>2 DEF PasswordsAreSent, Creates
  <2>3. ASSUME NEW p \in Replicas, FindSuperuser(p) \/ BootEnds(p) PROVE PasswordsAreSent'
    <3>1. p \in Sessions
      BY DEF Sessions
    <3>2. CASE call' = [call EXCEPT ![p] = NoCall]
      BY <2>2, <3>1, <3>2 DEF NoCall
    <3>3. CASE call' = [call EXCEPT ![p] = [NoCall EXCEPT !.op = "superuser", !.name = FirstSuperuser,
                                                          !.password = FirstPassword]]
      <4> DEFINE c == [NoCall EXCEPT !.op = "superuser", !.name = FirstSuperuser,
                                     !.password = FirstPassword]
      <4>1. c.password \in {"strong", "weak"}
        BY DeploymentAssumption DEF NoCall
      <4>2. call' = [call EXCEPT ![p] = c]
        BY <3>3
      <4> HIDE DEF c
      <4> QED
        BY <2>2, <3>1, <4>1, <4>2
    <3>4. CASE call' = call
      BY <2>1, <3>4
    <3> QED
      BY <2>3, <3>2, <3>3, <3>4 DEF FindSuperuser, BootEnds, Begin, accountVars
  <2>4. ASSUME NEW r \in Requests, Request(r) PROVE PasswordsAreSent'
    <3>1. r \in Sessions
      BY DEF Sessions
    <3>2. PICK c : /\ call' = [call EXCEPT ![r] = c]
                   /\ c.op \in {"signup", "superuser"} => c.password \in {"strong", "weak"}
      <4>1. ASSUME NEW n \in Names, NEW w \in {"strong", "weak"}
            PROVE  LET c == [NoCall EXCEPT !.op = "signup", !.name = n, !.password = w]
                   IN  c.op \in {"signup", "superuser"} => c.password \in {"strong", "weak"}
        BY DEF NoCall
      <4>2. ASSUME NEW a \in table, NEW w \in Passwords
            PROVE  LET c == [NoCall EXCEPT !.op = "profile", !.account = a.id, !.password = w]
                   IN  c.op \notin {"signup", "superuser"}
        BY DEF NoCall
      <4> QED
        BY <2>4, <4>1, <4>2 DEF Request, Begin
    <3> QED
      BY <2>2, <3>1, <3>2
  <2>5. \/ call' = call
        \/ \E p \in Replicas : FindSuperuser(p) \/ BootEnds(p)
        \/ \E r \in Requests : Request(r)
    BY DEF Next, Boot, Crash, Start, ReadRevision, CreateTables, CommitSchema, Step, SessionFails,
           Fault, Proceed, Check, Insert, Load, Flush, Commit, Refresh, Administer, SoftDelete,
           SetActive, vars, accountVars, deployVars
  <2> QED
    BY <2>1, <2>3, <2>4, <2>5
<1> QED
  BY IInvHolds, <1>1, <1>2, PTL DEF Spec

\* A commit waits for nothing: so locks of names, rows and the schema are
\* given back, and only a system that is done stands still.
THEOREM NobodyBlocksForGood == Spec => []OnlyServedStandStill
<1>1. ASSUME IInv, PasswordsAreSent PROVE OnlyServedStandStill
  <2> SUFFICES ASSUME \A p \in Replicas : ~CanBoot(p), \A s \in Sessions : ~CanStep(s)
               PROVE  /\ \A p \in Replicas : phase[p] = "serving"
                      /\ \A s \in Sessions : pc[s] \in {"new", "done"}
    BY DEF OnlyServedStandStill
  <2>1. \A s \in Sessions : pc[s] \notin {"load", "commit", "refresh"}
    BY DEF CanStep
  <2>2. \A n : Inserting(n) = {} /\ Updating(n) = {}
    BY <2>1 DEF Inserting, Updating
  <2>3. \A s \in Sessions : pc[s] \in {"new", "done"}
    <3> SUFFICES ASSUME NEW s \in Sessions, pc[s] \notin {"new", "done"} PROVE FALSE
      OBVIOUS
    <3>1. pc[s] \in {"check", "insert", "flush"}
      BY <1>1, <2>1 DEF IInv, TypeOK, AccountsTypeOK
    <3>2. pc[s] = "check" => call[s].password \in {"strong", "weak"}
      BY <1>1 DEF IInv, SessionsFollowCalls, PasswordsAreSent
    <3> QED
      BY <2>2, <3>1, <3>2 DEF CanStep
  <2>4. Migrating = {}
    BY DEF CanBoot, Migrating
  <2>5. ASSUME NEW p \in Replicas PROVE phase[p] = "serving"
    <3>1. p \in Sessions /\ phase[p] \in Phases
      BY <1>1 DEF Sessions, IInv, TypeOK
    <3>2. phase[p] = "find" => pc[p] = "new"
      BY <1>1, <3>1 DEF IInv, SessionsFollowCalls
    <3>3. phase[p] = "create" => pc[p] # "new"
      BY <1>1, <3>1 DEF IInv, SessionsFollowCalls
    <3> QED
      BY <2>3, <2>4, <3>1, <3>2, <3>3 DEF CanBoot, Phases
  <2> QED
    BY <2>3, <2>5
<1> QED
  BY IInvHolds, PasswordsSent, <1>1, PTL

-----------------------------------------------------------------------------
(* The registry.                                                           *)

Holder == [n \in Names |-> HolderOf(n)]
Asked == [r \in Requests |-> call[r].name]
Told == [r \in Requests |-> ToldTo(r)]
OpenNow == { p \in Replicas : phase[p] = "serving" }

\* Who holds a name is who made its row.
LEMMA HolderIsMaker ==
  ASSUME IInv
  PROVE  /\ \A a \in table : HolderOf(a.name) = a.id
         /\ \A n : ~Indexed(n) => HolderOf(n) = NoOne
         /\ \A a \in table : a.id # NoOne
<1>1. ASSUME NEW a \in table PROVE HolderOf(a.name) = a.id
  <2>1. \A b \in table : b.name = a.name => b = a
    BY DEF IInv, OneAccountPerName
  <2>2. (CHOOSE b \in table : b.name = a.name) = a
    BY <2>1
  <2> QED
    BY <2>2 DEF HolderOf, Indexed
<1>2. \A a \in table : a.id # NoOne
  BY AccountsAssumption DEF IInv, TypeOK, AccountsTypeOK, Rows
<1> QED
  BY <1>1, <1>2 DEF HolderOf

\* Edits of rows keep their holders.
LEMMA HolderKept ==
  ASSUME IInv, IInv', EditedFrom(table, table')
  PROVE  Holder' = Holder
<1> SUFFICES ASSUME NEW n \in Names PROVE HolderOf(n)' = HolderOf(n)
  BY DEF Holder
<1>0. /\ \A b \in table' : HolderOf(b.name)' = b.id
      /\ ~Indexed(n)' => HolderOf(n)' = NoOne
  <2>1. ASSUME NEW b \in table' PROVE HolderOf(b.name)' = b.id
    <3>1. \A c \in table' : c.name = b.name => c = b
      BY DEF IInv, OneAccountPerName
    <3>2. (CHOOSE c \in table' : c.name = b.name) = b
      BY <3>1
    <3> QED
      BY <3>2 DEF HolderOf, Indexed
  <2> QED
    BY <2>1 DEF HolderOf
<1>1. CASE Indexed(n)
  <2>1. PICK a \in table : a.name = n
    BY <1>1 DEF Indexed
  <2>2. PICK b \in table' : Kept(a, b)
    BY DEF EditedFrom
  <2> QED
    BY <1>0, <2>1, <2>2, HolderIsMaker DEF Kept
<1>2. CASE ~Indexed(n)
  <2>1. ~Indexed(n)'
    BY <1>2 DEF Indexed, EditedFrom, Kept
  <2> QED
    BY <1>0, <1>2, <2>1, HolderIsMaker
<1> QED
  BY <1>1, <1>2

LEMMA SameTable ==
  ASSUME IInv
  PROVE  EditedFrom(table, table)
BY DEF IInv, EditedFrom, Kept, RowsHaveMakers

\* A committed INSERT gives a free name to the session.
LEMMA HolderGiven ==
  ASSUME IInv, IInv', NEW s \in Sessions, pc[s] = "commit", Creates(s), table' = Committed(s)
  PROVE  /\ call[s].name \in Names
         /\ Holder[call[s].name] = NoOne
         /\ Holder' = [Holder EXCEPT ![call[s].name] = s]
<1>1. call[s].name \in Names /\ ~Indexed(call[s].name)
  BY DEF IInv, SessionsFollowCalls, InsertsAreAlone
<1>2. PICK m \in Names : m = call[s].name
  BY <1>1
<1>3. table' = table \union {NewRow(s)} /\ NewRow(s).name = m /\ NewRow(s).id = s
  BY <1>2 DEF Committed, NewRow
<1>4. ASSUME NEW b \in table', NEW n \in Names, b.name = n PROVE HolderOf(n)' = b.id
  <2>1. \A c \in table' : c.name = n => c = b
    BY <1>4 DEF IInv, OneAccountPerName
  <2>2. (CHOOSE c \in table' : c.name = n) = b
    BY <1>4, <2>1
  <2> QED
    BY <1>4, <2>2 DEF HolderOf, Indexed
<1>5. \A n \in Names \ {m} : HolderOf(n)' = HolderOf(n)
  <2> SUFFICES ASSUME NEW n \in Names, n # m PROVE HolderOf(n)' = HolderOf(n)
    OBVIOUS
  <2>1. CASE Indexed(n)
    <3>1. PICK a \in table : a.name = n
      BY <2>1 DEF Indexed
    <3>2. HolderOf(n)' = a.id
      BY <1>3, <1>4, <3>1
    <3> QED
      BY <3>1, <3>2, HolderIsMaker
  <2>2. CASE ~Indexed(n)
    BY <1>3, <2>2 DEF HolderOf, Indexed
  <2> QED
    BY <2>1, <2>2
<1>6. HolderOf(m)' = s
  <2>1. NewRow(s) \in table'
    BY <1>3
  <2> QED
    BY <1>3, <1>4, <2>1
<1>7. HolderOf(m) = NoOne
  BY <1>1, <1>2, HolderIsMaker
<1> QED
  BY <1>2, <1>5, <1>6, <1>7 DEF Holder

\* What the registry sees of a step, by the kind of step.
RegistryKept == Holder' = Holder /\ Asked' = Asked /\ Told' = Told /\ OpenNow' = OpenNow

LEMMA RegistryKeeps ==
  ASSUME RegistryKept
  PROVE  UNCHANGED Registry!registryVars
BY DEF RegistryKept, Registry!registryVars, Holder, Asked, Told, OpenNow

\* A session that answers or moves on without a COMMIT.
LEMMA AnswerMaps ==
  ASSUME IInv, IInv', NEW s \in Sessions, pc[s] \notin {"new", "done"},
         UNCHANGED <<table, call, phase>>,
         \A t \in Sessions \ {s} : answer'[t] = answer[t]
  PROVE  [Registry!RegistryNext]_(Registry!registryVars)
<1>1. Holder' = Holder
  BY SameTable, HolderKept
<1>2. Asked' = Asked /\ OpenNow' = OpenNow
  BY DEF Asked, OpenNow
<1>3. \A r \in Requests \ {s} : ToldTo(r)' = ToldTo(r)
  BY DEF ToldTo, Creates, Sessions
<1>4. answer[s] = "none"
  BY DEF IInv, SessionsFollowCalls
<1>5. CASE s \in Replicas
  <2>1. Told' = Told
    BY <1>3, <1>5, AccountsAssumption DEF Told
  <2> QED
    BY <1>1, <1>2, <2>1, RegistryKeeps DEF RegistryKept
<1>6. CASE s \in Requests /\ (~Creates(s) \/ answer'[s] = "none")
  <2>1. ToldTo(s)' = ToldTo(s)
    BY <1>4, <1>6 DEF ToldTo, Creates
  <2>2. Told' = Told
    BY <1>3, <2>1 DEF Told
  <2> QED
    BY <1>1, <1>2, <2>2, RegistryKeeps DEF RegistryKept
<1>7. CASE s \in Requests /\ Creates(s) /\ answer'[s] # "none"
  <2>1. Told[s] = "nothing" /\ Told' = [Told EXCEPT ![s] = ToldTo(s)']
    BY <1>3, <1>4, <1>7 DEF Told, ToldTo
  <2>2. PICK m \in Names : m = call[s].name /\ m = call'[s].name
    BY <1>7 DEF IInv, SessionsFollowCalls
  <2>3. Asked[s] = m /\ m # NoName
    BY <1>7, <2>2, AccountsAssumption DEF Asked
  <2>4. Creates(s)'
    BY <1>7 DEF Creates
  <2>5. \/ ToldTo(s)' = "yours" /\ Holder[m] = s
        \/ ToldTo(s)' = "taken" /\ Holder[m] \notin {NoOne, s}
        \/ ToldTo(s)' = "failed"
    <3>1. CASE answer'[s] = "created201"
      <4>1. PICK a \in table : a.name = m /\ a.id = s
        BY <1>7, <2>2, <3>1 DEF IInv, SomeoneHasTheName
      <4> QED
        BY <2>4, <3>1, <4>1, HolderIsMaker DEF ToldTo, Holder
    <3>2. CASE answer'[s] \in {"conflict409", "duplicate500"}
      <4>1. PICK a \in table : a.name = m /\ a.id # s
        BY <1>7, <2>2, <3>2 DEF IInv, SomeoneHasTheName
      <4> QED
        BY <2>4, <3>2, <4>1, HolderIsMaker DEF ToldTo, Holder
    <3>3. CASE answer'[s] \notin {"created201", "conflict409", "duplicate500"}
      BY <1>7, <2>4, <3>3 DEF ToldTo
    <3> QED
      BY <3>1, <3>2, <3>3
  <2>6. Registry!Tell(s)
    BY <1>1, <1>2, <2>1, <2>3, <2>5 DEF Registry!Tell, Holder, Asked, Told, OpenNow
  <2> QED
    BY <1>7, <2>6 DEF Registry!RegistryNext
<1> QED
  BY <1>5, <1>6, <1>7 DEF Sessions

\* A COMMIT of an INSERT.
LEMMA CommitMaps ==
  ASSUME IInv, IInv', NEW s \in Sessions, pc[s] = "commit",
         table' = Committed(s), UNCHANGED <<call, phase>>,
         \A t \in Sessions \ {s} : answer'[t] = answer[t],
         answer'[s] \in {"none", "failed"}
  PROVE  [Registry!RegistryNext]_(Registry!registryVars)
<1>1. Asked' = Asked /\ OpenNow' = OpenNow
  BY DEF Asked, OpenNow
<1>2. \A r \in Requests \ {s} : ToldTo(r)' = ToldTo(r)
  BY DEF ToldTo, Creates, Sessions
<1>3. answer[s] = "none"
  BY DEF IInv, SessionsFollowCalls
<1>4. CASE ~Creates(s)
  <2>1. Holder' = Holder
    BY <1>4, ChangedRows, HolderKept
  <2>2. Told' = Told
    BY <1>2, <1>4 DEF Told, ToldTo, Creates
  <2> QED
    BY <1>1, <2>1, <2>2, RegistryKeeps DEF RegistryKept
<1>5. CASE Creates(s) /\ s \in Replicas
  <2>1. Told' = Told
    BY <1>2, <1>5, AccountsAssumption DEF Told
  <2>2. call[s].name = FirstSuperuser
    BY <1>5 DEF IInv, SessionsFollowCalls, Creates
  <2>3. Registry!Found(s)
    BY <1>1, <1>5, <2>1, <2>2, HolderGiven DEF Registry!Found, Holder, Asked, Told, OpenNow
  <2> QED
    BY <1>5, <2>3 DEF Registry!RegistryNext
<1>6. CASE Creates(s) /\ s \in Requests
  <2>1. /\ Told[s] = "nothing"
        /\ Told' = [Told EXCEPT ![s] = ToldTo(s)']
        /\ ToldTo(s)' \in {"nothing", "failed"}
    BY <1>2, <1>3, <1>6 DEF Told, ToldTo, Creates
  <2>2. Asked[s] = call[s].name /\ call[s].name # NoName
    BY <1>6, HolderGiven, AccountsAssumption DEF Asked
  <2>3. Registry!Register(s)
    BY <1>1, <1>6, <2>1, <2>2, HolderGiven DEF Registry!Register, Holder, Asked, Told, OpenNow
  <2> QED
    BY <1>6, <2>3 DEF Registry!RegistryNext
<1> QED
  BY <1>4, <1>5, <1>6 DEF Sessions

\* A replica that opens, closes or does neither.
LEMMA ReplicaMaps ==
  ASSUME IInv, IInv', NEW p \in Replicas, table' = table,
         \A r \in Requests : call'[r] = call[r] /\ answer'[r] = answer[r],
         \A q \in Replicas \ {p} : phase'[q] = phase[q],
         phase'[p] = "serving" => Indexed(FirstSuperuser)
  PROVE  [Registry!RegistryNext]_(Registry!registryVars)
<1>1. Holder' = Holder
  BY SameTable, HolderKept
<1>2. Asked' = Asked /\ Told' = Told
  BY DEF Asked, Told, ToldTo, Creates
<1>3. CASE phase'[p] = "serving"
  <2>1. PICK a \in table : a.name = FirstSuperuser /\ a.id \in Replicas
    BY <1>3 DEF IInv, SuperuserNameReserved, Indexed
  <2>2. Holder[FirstSuperuser] \in Replicas
    BY <2>1, HolderIsMaker, AccountsAssumption DEF Holder
  <2>3. OpenNow' = OpenNow \union {p}
    BY <1>3 DEF OpenNow
  <2>4. Registry!Open(p)
    BY <1>1, <1>2, <2>2, <2>3 DEF Registry!Open, Holder, Asked, Told, OpenNow
  <2> QED
    BY <2>4 DEF Registry!RegistryNext
<1>4. CASE phase'[p] # "serving"
  <2>1. OpenNow' = OpenNow \ {p}
    BY <1>4 DEF OpenNow
  <2>2. Registry!Close(p)
    BY <1>1, <1>2, <2>1 DEF Registry!Close, Holder, Asked, Told, OpenNow
  <2> QED
    BY <2>2 DEF Registry!RegistryNext
<1> QED
  BY <1>3, <1>4

LEMMA RequestMaps ==
  ASSUME IInv, IInv', NEW r \in Requests, Request(r)
  PROVE  [Registry!RegistryNext]_(Registry!registryVars)
<1>0. /\ pc[r] = "new" /\ table' = table /\ answer' = answer /\ phase' = phase
      /\ \E p \in Replicas : phase[p] = "serving"
      /\ \E c : call' = [call EXCEPT ![r] = c]
  BY DEF Request, Begin, Goto, deployVars
<1>a. call[r].op = "none" /\ answer[r] = "none" /\ call[r].name = NoName
  BY <1>0 DEF IInv, SessionsFollowCalls, Creates, Sessions
<1>b. OpenNow # {}
  BY <1>0 DEF OpenNow
<1>c. \A q \in Requests \ {r} : call'[q] = call[q]
  BY <1>0 DEF IInv, TypeOK, AccountsTypeOK, Sessions
<1>1. /\ pc[r] = "new" /\ call[r].name = NoName /\ ~Creates(r) /\ answer[r] = "none"
      /\ table' = table /\ answer' = answer /\ phase' = phase
      /\ OpenNow # {}
      /\ \A q \in Requests \ {r} : call'[q] = call[q]
  BY <1>0, <1>a, <1>b, <1>c DEF Creates
<1>2. Holder' = Holder
  BY <1>1, SameTable, HolderKept
<1>3. Told' = Told /\ OpenNow' = OpenNow
  BY <1>1 DEF Told, ToldTo, Creates, OpenNow
<1>4. call'[r].name \in Names \union {NoName}
  BY DEF IInv, TypeOK, AccountsTypeOK, Calls, Sessions
<1>5. Asked' = [Asked EXCEPT ![r] = call'[r].name] /\ Asked[r] = NoName
  BY <1>1 DEF Asked
<1>6. CASE call'[r].name \in Names
  <2>1. Registry!Ask(r)
    BY <1>1, <1>2, <1>3, <1>5, <1>6 DEF Registry!Ask, Holder, Asked, Told, OpenNow
  <2> QED
    BY <2>1 DEF Registry!RegistryNext
<1>7. CASE call'[r].name = NoName
  <2>1. Asked' = Asked
    BY <1>1, <1>7 DEF Asked
  <2> QED
    BY <1>2, <1>3, <2>1, RegistryKeeps DEF RegistryKept
<1> QED
  BY <1>4, <1>6, <1>7

LEMMA StepMaps ==
  ASSUME IInv, IInv', [Next]_vars
  PROVE  [Registry!RegistryNext]_(Registry!registryVars)
<1>1. ASSUME NEW p \in Replicas, Boot(p) \/ Crash(p)
      PROVE  [Registry!RegistryNext]_(Registry!registryVars)
  <2>1. table' = table
    BY <1>1 DEF Boot, Start, ReadRevision, CreateTables, CommitSchema, FindSuperuser, BootEnds,
                Crash, Begin, accountVars
  <2>2. \A r \in Requests : call'[r] = call[r] /\ answer'[r] = answer[r]
    BY <1>1, AccountsAssumption
    DEF Boot, Start, ReadRevision, CreateTables, CommitSchema, FindSuperuser, BootEnds,
        Crash, Begin, Goto, accountVars, IInv, TypeOK, AccountsTypeOK, Sessions
  <2>3. \A q \in Replicas \ {p} : phase'[q] = phase[q]
    BY <1>1 DEF Boot, Start, ReadRevision, CreateTables, CommitSchema, FindSuperuser, BootEnds,
                Crash, Enter, IInv, TypeOK
  <2>4. phase'[p] = "serving" => Indexed(FirstSuperuser)
    BY <2>1 DEF IInv, SuperuserFirst, Indexed
  <2> QED
    BY <2>1, <2>2, <2>3, <2>4, ReplicaMaps
<1>2. ASSUME NEW r \in Requests, Request(r)
      PROVE  [Registry!RegistryNext]_(Registry!registryVars)
  BY <1>2, RequestMaps
<1>3. ASSUME NEW s \in Sessions, Step(s)
      PROVE  [Registry!RegistryNext]_(Registry!registryVars)
  <2>1. CASE Commit(s)
    <3>1. answer[s] = "none"
      BY <2>1 DEF Commit, IInv, SessionsFollowCalls
    <3> QED
      BY <1>3, <2>1, <3>1, CommitMaps DEF Commit, Step, deployVars
  <2>2. CASE Check(s) \/ Insert(s) \/ Load(s) \/ Flush(s) \/ Refresh(s)
    <3>1. /\ pc[s] \notin {"new", "done"} /\ UNCHANGED <<table, call, phase>>
          /\ \A t \in Sessions \ {s} : answer'[t] = answer[t]
      BY <1>3, <2>2 DEF Step, deployVars, Check, Insert, Load, Flush, Refresh, Answer, Goto,
                        IInv, TypeOK, AccountsTypeOK
    <3> QED
      BY <3>1, AnswerMaps
  <2> QED
    BY <1>3, <2>1, <2>2 DEF Step, Proceed
<1>4. ASSUME NEW s \in Sessions, SessionFails(s)
      PROVE  [Registry!RegistryNext]_(Registry!registryVars)
  <2>1. /\ pc[s] \notin {"new", "done"} /\ UNCHANGED <<call, phase>>
        /\ \A t \in Sessions \ {s} : answer'[t] = answer[t]
        /\ answer'[s] = "failed"
    BY <1>4 DEF SessionFails, Fault, Answer, IInv, TypeOK, AccountsTypeOK
  <2>2. CASE table' = table
    BY <2>1, <2>2, AnswerMaps
  <2>3. CASE pc[s] = "commit" /\ table' = Committed(s)
    BY <2>1, <2>3, CommitMaps
  <2> QED
    BY <1>4, <2>2, <2>3 DEF SessionFails, Fault
<1>5. CASE Administer
  <2>1. UNCHANGED <<pc, call, answer, phase>>
    BY <1>5 DEF Administer, SoftDelete, SetActive
  <2>2. EditedFrom(table, table')
    <3>1. PICK a \in table : SoftDelete(a) \/ SetActive(a)
      BY <1>5 DEF Administer
    <3>2. a \in Rows
      BY DEF IInv, TypeOK, AccountsTypeOK
    <3>3. /\ Kept(a, [a EXCEPT !.deleted = TRUE])
          /\ Kept(a, [a EXCEPT !.is_active = ~@])
      BY <3>2 DEF Rows, Kept
    <3>4. PICK b : Kept(a, b) /\ table' = (table \ {a}) \union {b}
      BY <3>1, <3>3 DEF SoftDelete, SetActive
    <3> QED
      BY <3>4 DEF EditedFrom, Kept, IInv, RowsHaveMakers
  <2>3. Holder' = Holder
    BY <2>2, HolderKept
  <2>4. Asked' = Asked /\ Told' = Told /\ OpenNow' = OpenNow
    BY <2>1 DEF Asked, Told, ToldTo, Creates, OpenNow
  <2> QED
    BY <2>3, <2>4, RegistryKeeps DEF RegistryKept
<1>6. CASE UNCHANGED vars
  <2>1. RegistryKept
    BY <1>6 DEF vars, accountVars, deployVars, RegistryKept, Holder, HolderOf, Indexed,
                Asked, Told, ToldTo, Creates, OpenNow
  <2> QED
    BY <2>1, RegistryKeeps
<1> QED
  BY <1>1, <1>2, <1>3, <1>4, <1>5, <1>6 DEF Next

\* Sessions, index and replicas implement the registry.
THEOREM Implements ==
  Spec => ImplementsRegistry
<1>1. Init => Registry!RegistryInit
  <2> SUFFICES ASSUME Init PROVE Registry!RegistryInit
    OBVIOUS
  <2>1. Holder = [n \in Names |-> NoOne]
    BY DEF Init, AccountsInit, Holder, HolderOf, Indexed
  <2>2. Asked = [r \in Requests |-> NoName] /\ Told = [r \in Requests |-> "nothing"]
    BY DEF Init, AccountsInit, Asked, Told, ToldTo, Creates, NoCall, Sessions
  <2>3. OpenNow = {}
    BY DEF Init, OpenNow
  <2> QED
    BY <2>1, <2>2, <2>3 DEF Registry!RegistryInit, Holder, Asked, Told, OpenNow
<1>2. IInv /\ IInv' /\ [Next]_vars => [Registry!RegistryNext]_(Registry!registryVars)
  BY StepMaps
<1> QED
  BY IInvHolds, <1>1, <1>2, PTL DEF Spec, ImplementsRegistry, Registry!RegistrySpec
=============================================================================
