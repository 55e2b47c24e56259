------------------------- MODULE ItemRecordsProofs -------------------------
(***************************************************************************)
(* Proofs about the items service, for any number of requests, items,      *)
(* users, columns and values, and any set of failing operations.           *)
(***************************************************************************)
EXTENDS ItemRecords, TLAPS

-----------------------------------------------------------------------------
(* Columns and rows.                                                       *)

\* A body gives values to some of the columns.
LEMMA BodyShape ==
  ASSUME NEW b
  PROVE  b \in Bodies <=> DOMAIN b \subseteq Fields /\ b \in [DOMAIN b -> Values \union {Null}]
BY DEF Bodies

\* The columns an UPDATE names are some of those sent, with the values sent.
LEMMA ChangedShape ==
  ASSUME TypeOK, NEW r \in Requests
  PROVE  /\ ChangedColumns(r) \in Bodies
         /\ DOMAIN ChangedColumns(r) = { g \in DOMAIN body[r] : body[r][g] # loaded[r][g] }
         /\ \A f \in DOMAIN ChangedColumns(r) : ChangedColumns(r)[f] = body[r][f]
<1>1. DOMAIN body[r] \subseteq Fields /\ body[r] \in [DOMAIN body[r] -> Values \union {Null}]
  BY BodyShape DEF TypeOK
<1>2. /\ DOMAIN ChangedColumns(r) = { g \in DOMAIN body[r] : body[r][g] # loaded[r][g] }
      /\ \A f \in DOMAIN ChangedColumns(r) : ChangedColumns(r)[f] = body[r][f]
      /\ ChangedColumns(r) \in [DOMAIN ChangedColumns(r) -> Values \union {Null}]
  BY <1>1 DEF ChangedColumns
<1> QED
  BY <1>1, <1>2, BodyShape

\* A row with some columns replaced is a row.
LEMMA MergedShape ==
  ASSUME NEW c \in Contents, NEW change \in Bodies
  PROVE  Merged(c, change) \in Contents
<1>1. DOMAIN change \subseteq Fields /\ change \in [DOMAIN change -> Values \union {Null}]
  BY BodyShape
<1> QED
  BY <1>1 DEF Merged, Contents

\* What the commit of r makes of its row.
LEMMA PublishedShape ==
  ASSUME IInv, NEW r \in Requests, pc[r] = "commit"
  PROVE  /\ Published(r) \in Rows
         /\ Published(r).state # "absent"
         /\ row[item[r]].state = "deleted" => Published(r).state = "deleted"
         /\ op[r] = "delete" => Published(r).state = "deleted"
         /\ op[r] = "create" => row[item[r]].state = "absent"
         /\ op[r] # "create" => /\ row[item[r]].state # "absent"
                                /\ Published(r).owner = row[item[r]].owner
         /\ \A f \in Fields :
              Published(r).fields[f] # row[item[r]].fields[f] => f \in DOMAIN body[r]
         /\ op[r] = "update" =>
              \A f \in DOMAIN body[r] :
                \/ body[r][f] = loaded[r][f]
                \/ Published(r).fields[f] = body[r][f]
<1> USE DEF IInv
<1>1. item[r] \in Items /\ row[item[r]] \in Rows /\ user[r] \in Users
  BY DEF TypeOK, StepsFollowOperation
<1>2. CASE op[r] = "create"
  <2>1. /\ DOMAIN body[r] = Fields
        /\ body[r] \in [Fields -> Values \union {Null}]
        /\ dirty[r] = body[r]
        /\ row[item[r]].state = "absent"
    BY <1>2, BodyShape DEF TypeOK, StepsFollowOperation, WritesAreAsked, IdsAreFresh
  <2>2. Published(r) = [state |-> "live", owner |-> user[r], fields |-> body[r]]
    BY <1>2, <2>1 DEF Published
  <2> QED
    BY <1>1, <1>2, <2>1, <2>2 DEF Rows, Contents
<1>3. CASE op[r] = "update"
  <2>1. dirty[r] = ChangedColumns(r) /\ row[item[r]].state # "absent"
    BY <1>3 DEF WritesAreAsked, LoadedRowsStay
  <2>2. Published(r) = [row[item[r]] EXCEPT !.fields = Merged(row[item[r]].fields, ChangedColumns(r))]
    BY <1>3, <2>1 DEF Published
  <2>3. row[item[r]].fields \in Contents
    BY <1>1 DEF Rows
  <2>4. Merged(row[item[r]].fields, ChangedColumns(r)) \in Contents
    BY <2>3, ChangedShape, MergedShape
  <2>5. /\ Published(r) \in Rows
        /\ Published(r).state = row[item[r]].state
        /\ Published(r).owner = row[item[r]].owner
        /\ Published(r).fields = Merged(row[item[r]].fields, ChangedColumns(r))
    BY <1>1, <2>2, <2>4 DEF Rows
  <2>6. DOMAIN body[r] \subseteq Fields
    BY BodyShape DEF TypeOK
  <2>7. \A f \in Fields :
          Published(r).fields[f] = IF f \in DOMAIN ChangedColumns(r)
                                   THEN body[r][f] ELSE row[item[r]].fields[f]
    BY <2>5, ChangedShape DEF Merged
  <2> QED
    BY <1>3, <2>1, <2>5, <2>6, <2>7, ChangedShape
<1>4. CASE op[r] = "delete"
  <2>1. Published(r) = [row[item[r]] EXCEPT !.state = "deleted"]
    BY <1>4 DEF Published
  <2>2. row[item[r]].state # "absent"
    BY <1>4 DEF LoadedRowsStay
  <2> QED
    BY <1>1, <1>4, <2>1, <2>2 DEF Rows
<1> QED
  BY <1>2, <1>3, <1>4 DEF StepsFollowOperation

-----------------------------------------------------------------------------
(* The invariant at the start, and after each step.                        *)

LEMMA InitInv ==
  Init => IInv
<1> SUFFICES ASSUME Init PROVE IInv
  OBVIOUS
<1> USE DEF Init
<1>1. /\ Blank \in Contents
      /\ NoChange \in Bodies /\ DOMAIN NoChange = {}
  BY BodyShape DEF Blank, Contents, NoChange
<1>2. TypeOK
  <2>1. row \in [Items -> Rows]
    BY <1>1 DEF Rows, NoRow
  <2> QED
    BY <1>1, <2>1 DEF TypeOK, Answers
<1>3. StepsFollowOperation
  BY DEF StepsFollowOperation
<1>4. IdsAreFresh
  BY DEF IdsAreFresh, NoRow
<1>5. LoadedRowsStay /\ WritesAreAsked
  BY DEF LoadedRowsStay, WritesAreAsked
<1>6. TombsAreDeleted /\ UpdateTookEffect /\ GoneAfterDelete
  BY DEF TombsAreDeleted, UpdateTookEffect, GoneAfterDelete
<1> QED
  BY <1>2, <1>3, <1>4, <1>5, <1>6 DEF IInv

WritesOf(r) ==
  /\ pc[r] \in {"new", "load", "flush"} => dirty[r] = NoChange
  /\ op[r] = "create" /\ pc[r] = "commit" => dirty[r] = body[r]
  /\ op[r] = "update" /\ pc[r] = "commit" => dirty[r] = ChangedColumns(r)
  /\ op[r] = "update" /\ pc[r] \in {"flush", "commit"} =>
       Matching(r, loaded[r]) \subseteq held[r] /\ held[r] \subseteq DOMAIN body[r]
  /\ op[r] = "update" /\ pc[r] = "refresh" => held[r] = DOMAIN body[r]

\* What a step leaves alone stays as it was asked for.
LEMMA WritesKept ==
  ASSUME NEW r, WritesOf(r), UNCHANGED <<pc[r], op[r], body[r], loaded[r], dirty[r], held[r]>>
  PROVE  WritesOf(r)'
<1>1. ChangedColumns(r)' = ChangedColumns(r) /\ Matching(r, loaded[r])' = Matching(r, loaded[r])
  BY DEF ChangedColumns, Matching
<1> QED
  BY <1>1 DEF WritesOf

\* A request begins: only a create may name an id that was not in use.
LEMMA BeginStep ==
  ASSUME IInv, NEW r \in Requests, NEW o \in {"create", "get", "update", "delete"},
         NEW u \in Users, NEW i \in Items, NEW b \in Bodies,
         IF o = "create" THEN i \notin used /\ DOMAIN b = Fields ELSE i \in used,
         Begin(r, o, u, i, b)
  PROVE  IInv'
<1> USE DEF IInv, Begin, Goto
<1>1. TypeOK'
  <2>1. \A s \in Requests : answer[s] = "noContent204" => item[s] \in Items
    BY DEF TypeOK, StepsFollowOperation
  <2> QED
    BY <2>1 DEF TypeOK
<1>2. StepsFollowOperation'
  BY DEF TypeOK, StepsFollowOperation
<1>3. IdsAreFresh'
  BY DEF TypeOK, StepsFollowOperation, IdsAreFresh
<1>4. LoadedRowsStay'
  BY DEF TypeOK, LoadedRowsStay, MayTouch
<1>5. WritesAreAsked'
  <2>1. \A s \in Requests \ {r} : UNCHANGED <<pc[s], op[s], body[s], loaded[s], dirty[s], held[s]>>
    BY DEF TypeOK
  <2>2. \A s \in Requests \ {r} : WritesOf(s)'
    BY <2>1, WritesKept DEF WritesAreAsked, WritesOf
  <2>3. pc'[r] \in {"load", "insert"} /\ dirty'[r] = NoChange
    BY DEF TypeOK, WritesAreAsked
  <2> QED
    BY <2>2, <2>3 DEF WritesAreAsked, WritesOf
<1>6. TombsAreDeleted'
  BY DEF TypeOK, StepsFollowOperation, IdsAreFresh, TombsAreDeleted
<1>7. UpdateTookEffect' /\ GoneAfterDelete'
  BY DEF TypeOK, StepsFollowOperation, UpdateTookEffect, GoneAfterDelete
<1> QED
  BY <1>1, <1>2, <1>3, <1>4, <1>5, <1>6, <1>7

LEMMA LoadStep ==
  ASSUME IInv, NEW r \in Requests, Load(r)
  PROVE  IInv'
<1> USE DEF IInv, Load, Goto, Answer, rowVars, callVars
<1>0. row[item[r]] \in Rows /\ row[item[r]].fields \in Contents /\ op[r] \in {"get", "update", "delete"}
  BY DEF TypeOK, StepsFollowOperation, Rows
<1>1. TypeOK'
  <2>1. Matching(r, row[item[r]].fields) \subseteq Fields
    BY BodyShape DEF TypeOK, Matching
  <2> QED
    BY <1>0, <2>1 DEF TypeOK, Answers
<1>2. StepsFollowOperation'
  BY DEF TypeOK, StepsFollowOperation
<1>3. IdsAreFresh'
  BY <1>0 DEF TypeOK, IdsAreFresh
<1>4. LoadedRowsStay'
  BY DEF TypeOK, LoadedRowsStay, MayTouch, Found
<1>5. WritesAreAsked'
  <2>1. \A s \in Requests \ {r} : UNCHANGED <<pc[s], op[s], body[s], loaded[s], dirty[s], held[s]>>
    BY DEF TypeOK
  <2>2. \A s \in Requests \ {r} : WritesOf(s)'
    BY <2>1, WritesKept DEF WritesAreAsked, WritesOf
  <2>3. \/ pc'[r] = "done"
        \/ /\ pc'[r] = "flush" /\ body'[r] = body[r]
           /\ loaded'[r] = row[item[r]].fields
           /\ held'[r] = Matching(r, row[item[r]].fields)
           /\ dirty'[r] = NoChange
    BY DEF TypeOK, WritesAreAsked
  <2>4. pc'[r] = "flush" => Matching(r, loaded[r])' = held'[r] /\ held'[r] \subseteq DOMAIN body'[r]
    BY <2>3 DEF Matching
  <2>5. WritesOf(r)'
    BY <2>3, <2>4 DEF WritesOf
  <2> QED
    BY <2>2, <2>5 DEF WritesAreAsked, WritesOf
<1>6. TombsAreDeleted'
  BY DEF TypeOK, TombsAreDeleted, Found
<1>7. UpdateTookEffect' /\ GoneAfterDelete'
  <2>1. Found(r) => item[r] \notin tombs[r]
    BY DEF TypeOK, TombsAreDeleted, Found
  <2>2. answer'[r] = "ok200" => Found(r) /\ op[r] = "get"
    BY DEF TypeOK, StepsFollowOperation
  <2>3. answer'[r] = "denied403" => Found(r)
    BY DEF TypeOK, StepsFollowOperation
  <2>4. answer'[r] # "noContent204"
    BY DEF TypeOK, StepsFollowOperation
  <2>5. \A s \in Requests \ {r} : UNCHANGED <<answer[s], held[s]>>
    BY DEF TypeOK
  <2> QED
    BY <2>1, <2>2, <2>3, <2>4, <2>5 DEF TypeOK, UpdateTookEffect, GoneAfterDelete
<1> QED
  BY <1>1, <1>2, <1>3, <1>4, <1>5, <1>6, <1>7

\* Flushing writes to no row.
LEMMA FlushStep ==
  ASSUME IInv, NEW r \in Requests, Insert(r) \/ FlushUpdate(r) \/ FlushDelete(r)
  PROVE  IInv'
<1> USE DEF IInv, Insert, FlushUpdate, FlushDelete, Goto, Answer, callVars, history
<1>1. TypeOK'
  <2>1. ChangedColumns(r) \in Bodies
    BY ChangedShape
  <2> QED
    BY <2>1 DEF TypeOK, Answers
<1>2. StepsFollowOperation'
  BY DEF TypeOK, StepsFollowOperation
<1>3. IdsAreFresh'
  BY DEF TypeOK, IdsAreFresh, StepsFollowOperation
<1>4. LoadedRowsStay'
  BY DEF TypeOK, LoadedRowsStay, MayTouch, StepsFollowOperation
<1>5. WritesAreAsked'
  <2>1. \A s \in Requests \ {r} : UNCHANGED <<pc[s], op[s], body[s], loaded[s], dirty[s], held[s]>>
    BY DEF TypeOK
  <2>2. \A s \in Requests \ {r} : WritesOf(s)'
    BY <2>1, WritesKept DEF WritesAreAsked, WritesOf
  <2>3. ChangedColumns(r)' = ChangedColumns(r) /\ Matching(r, loaded[r])' = Matching(r, loaded[r])
    BY DEF ChangedColumns, Matching
  <2>4. WritesOf(r)
    BY DEF WritesAreAsked, WritesOf
  <2>5. ASSUME Insert(r) PROVE WritesOf(r)'
    BY <2>4, <2>5 DEF WritesOf, TypeOK, StepsFollowOperation
  <2>6. ASSUME FlushUpdate(r) PROVE WritesOf(r)'
    <3>1. DOMAIN ChangedColumns(r) = {} => ChangedColumns(r) = NoChange
      BY DEF ChangedColumns, NoChange
    <3>2. \/ pc'[r] = "done"
          \/ pc'[r] = "commit" /\ dirty'[r] = ChangedColumns(r)
      BY <2>4, <2>6, <3>1 DEF WritesOf, TypeOK
    <3> QED
      BY <2>3, <2>4, <2>6, <3>2 DEF WritesOf
  <2>7. ASSUME FlushDelete(r) PROVE WritesOf(r)'
    BY <2>7 DEF WritesOf, TypeOK
  <2>8. WritesOf(r)'
    BY <2>5, <2>6, <2>7
  <2> QED
    BY <2>2, <2>8 DEF WritesAreAsked, WritesOf
<1>6. TombsAreDeleted'
  BY DEF TypeOK, TombsAreDeleted
<1>7. UpdateTookEffect' /\ GoneAfterDelete'
  BY DEF TypeOK, UpdateTookEffect, GoneAfterDelete
<1> QED
  BY <1>1, <1>2, <1>3, <1>4, <1>5, <1>6, <1>7

\* A request ends without changing a row.
LEMMA EndStep ==
  ASSUME IInv, NEW r \in Requests, pc[r] \notin {"new", "done"},
         NEW a \in {"ok200", "created201", "error500", "lost"},
         a \in {"ok200", "created201"} => pc[r] = "refresh",
         Answer(r, a), lock' = lock \/ lock' = Unlocked(r),
         UNCHANGED <<row, used, callVars, loaded, dirty, history>>
  PROVE  IInv'
<1> USE DEF IInv, Answer, callVars, history
<1>1. TypeOK'
  BY DEF TypeOK, Answers, Unlocked
<1>2. StepsFollowOperation'
  BY DEF TypeOK, StepsFollowOperation
<1>3. IdsAreFresh'
  BY DEF TypeOK, IdsAreFresh
<1>4. LoadedRowsStay'
  BY DEF TypeOK, LoadedRowsStay, MayTouch
<1>5. WritesAreAsked'
  <2>1. \A s \in Requests \ {r} : UNCHANGED <<pc[s], op[s], body[s], loaded[s], dirty[s], held[s]>>
    BY DEF TypeOK
  <2>2. \A s \in Requests \ {r} : WritesOf(s)'
    BY <2>1, WritesKept DEF WritesAreAsked, WritesOf
  <2>3. pc'[r] = "done"
    BY DEF TypeOK
  <2> QED
    BY <2>2, <2>3 DEF WritesAreAsked, WritesOf
<1>6. TombsAreDeleted'
  BY DEF TypeOK, TombsAreDeleted
<1>7. UpdateTookEffect' /\ GoneAfterDelete'
  BY DEF TypeOK, UpdateTookEffect, GoneAfterDelete, TombsAreDeleted, WritesAreAsked
<1> QED
  BY <1>1, <1>2, <1>3, <1>4, <1>5, <1>6, <1>7

\* A row is published: a transaction that is still under way keeps its
\* premises, because no other create has its id and no commit takes a row
\* away or gives it another owner.
LEMMA PublishStep ==
  ASSUME IInv, NEW r \in Requests, pc[r] = "commit", Publish(r), lock' = Unlocked(r),
         \/ Goto(r, "refresh") /\ op[r] # "delete"
         \/ Answer(r, "error500")
         \/ Answer(r, "noContent204") /\ op[r] = "delete",
         UNCHANGED <<used, callVars, loaded, dirty, tombs>>
  PROVE  IInv'
<1> USE DEF IInv, callVars, Publish
<1>a. /\ item[r] \in Items /\ item[r] \in used /\ op[r] \in {"create", "update", "delete"}
      /\ item[r] \notin tombs[r]
  BY DEF TypeOK, StepsFollowOperation, TombsAreDeleted
<1>b. /\ row'[item[r]] = Published(r)
      /\ \A i \in Items \ {item[r]} : row'[i] = row[i]
  BY <1>a DEF TypeOK
<1>c. \/ pc'[r] = "refresh" /\ answer'[r] = "none" /\ op[r] # "delete"
      \/ pc'[r] = "done" /\ answer'[r] = "error500"
      \/ pc'[r] = "done" /\ answer'[r] = "noContent204" /\ op[r] = "delete"
  BY DEF Goto, Answer, TypeOK, StepsFollowOperation
<1>d. \A s \in Requests \ {r} : UNCHANGED <<pc[s], answer[s]>>
  BY DEF Goto, Answer, TypeOK
<1>e. \A s \in Requests :
        held'[s] = IF item[s] = item[r] /\ pc[s] \in {"flush", "commit", "refresh"}
                   THEN held[s] \union Matching(s, Published(r).fields) ELSE held[s]
  OBVIOUS
<1>f. \A s \in Requests : Matching(s, Published(r).fields) \subseteq DOMAIN body[s]
  BY DEF Matching
<1>1. TypeOK'
  <2>1. row' \in [Items -> Rows]
    BY PublishedShape DEF TypeOK
  <2>2. held' \in [Requests -> SUBSET Fields]
    <3>1. \A s \in Requests : DOMAIN body[s] \subseteq Fields
      BY BodyShape DEF TypeOK
    <3> QED
      BY <1>f, <3>1 DEF TypeOK
  <2>3. lock' \in [Items -> Requests \union {NoRequest}]
    BY DEF Unlocked, TypeOK
  <2>4. /\ pc' \in [Requests -> {"new", "load", "insert", "flush", "commit", "refresh", "done"}]
        /\ answer' \in [Requests -> Answers]
    BY DEF Goto, Answer, Answers, TypeOK
  <2> QED
    BY <2>1, <2>2, <2>3, <2>4 DEF TypeOK
<1>2. StepsFollowOperation'
  BY <1>a, <1>c, <1>d DEF StepsFollowOperation
<1>3. IdsAreFresh'
  <2>1. \A s \in Requests \ {r} :
          op[s] = "create" /\ pc[s] \in {"insert", "commit"} => item[s] # item[r]
    BY <1>a, PublishedShape DEF IdsAreFresh
  <2>2. \A s \in Requests :
          op[s] = "create" /\ pc'[s] \in {"insert", "commit"} =>
            s # r /\ pc[s] \in {"insert", "commit"} /\ item[s] \in Items
    BY <1>c, <1>d DEF StepsFollowOperation, TypeOK
  <2>3. \A i \in Items \ used' : row'[i].state = "absent"
    BY <1>a, <1>b DEF IdsAreFresh
  <2> QED
    BY <1>b, <2>1, <2>2, <2>3 DEF IdsAreFresh
<1>4. LoadedRowsStay'
  <2>1. ASSUME NEW s \in Requests, op[s] \in {"update", "delete"}, pc'[s] \in {"flush", "commit"}
        PROVE  row'[item[s]].state # "absent" /\ MayTouch(s)'
    <3>1. pc[s] \in {"flush", "commit"} /\ item[s] \in Items
      BY <1>c, <1>d, <2>1 DEF StepsFollowOperation, TypeOK
    <3>2. row[item[s]].state # "absent" /\ MayTouch(s)
      BY <2>1, <3>1 DEF LoadedRowsStay
    <3>3. /\ row'[item[s]].state # "absent"
          /\ row'[item[s]].owner = row[item[s]].owner
      BY <1>a, <1>b, <3>1, <3>2, PublishedShape
    <3> QED
      BY <3>2, <3>3 DEF MayTouch
  <2> QED
    BY <2>1 DEF LoadedRowsStay
<1>5. WritesAreAsked'
  <2>1. ASSUME NEW s \in Requests \ {r} PROVE WritesOf(s)'
    <3>1. /\ WritesOf(s)
          /\ ChangedColumns(s)' = ChangedColumns(s)
          /\ Matching(s, loaded[s])' = Matching(s, loaded[s])
      BY DEF WritesAreAsked, WritesOf, ChangedColumns, Matching
    <3>2. pc'[s] = pc[s] /\ held[s] \subseteq held'[s]
          /\ (held'[s] = held[s] \/ held'[s] \subseteq held[s] \union DOMAIN body[s])
      BY <1>d, <1>e, <1>f
    <3> QED
      BY <3>1, <3>2 DEF WritesOf
  <2>2. WritesOf(r)'
    <3>1. op[r] = "update" =>
            /\ Matching(r, loaded[r]) \subseteq held[r] /\ held[r] \subseteq DOMAIN body[r]
            /\ held'[r] = held[r] \union Matching(r, Published(r).fields)
      BY <1>e DEF WritesAreAsked
    <3>2. op[r] = "update" => held'[r] = DOMAIN body[r]
      BY <1>f, <3>1, PublishedShape DEF Matching
    <3> QED
      BY <1>c, <3>2 DEF WritesOf
  <2> QED
    BY <2>1, <2>2 DEF WritesAreAsked, WritesOf
<1>6. TombsAreDeleted'
  <2>1. \A i \in Items : row[i].state = "deleted" => row'[i].state = "deleted"
    BY <1>a, <1>b, PublishedShape
  <2>2. \A s \in Requests : answer'[s] = "noContent204" => row'[item[s]].state = "deleted"
    BY <1>a, <1>b, <1>c, <1>d, <2>1, PublishedShape DEF TombsAreDeleted, StepsFollowOperation, TypeOK
  <2>3. \A s \in Requests : \A i \in tombs'[s] : row'[i].state = "deleted"
    BY <2>1 DEF TombsAreDeleted, TypeOK
  <2>4. \A s \in Requests : item[s] \in tombs[s] => pc'[s] \in {"load", "done"}
    BY <1>a, <1>d DEF TombsAreDeleted
  <2> QED
    BY <2>2, <2>3, <2>4 DEF TombsAreDeleted
<1>7. UpdateTookEffect' /\ GoneAfterDelete'
  <2>1. \A s \in Requests : answer'[s] = "ok200" => s # r /\ pc[s] = "done" /\ held'[s] = held[s]
    BY <1>c, <1>d, <1>e DEF StepsFollowOperation
  <2> QED
    BY <1>a, <1>d, <2>1 DEF UpdateTookEffect, GoneAfterDelete
<1> QED
  BY <1>1, <1>2, <1>3, <1>4, <1>5, <1>6, <1>7

\* The two ends of a session, as the steps of ItemRecords take them.
LEMMA EndsWithoutRow ==
  ASSUME IInv, NEW r \in Requests,
         \/ Refresh(r) \/ StatementError(r) \/ RefreshError(r) \/ WorkerKilled(r)
         \/ CommitError(r) /\ UNCHANGED <<row, held, applied>>
  PROVE  /\ pc[r] \notin {"new", "done"}
         /\ \E a \in {"ok200", "created201", "error500", "lost"} :
              Answer(r, a) /\ (a \in {"ok200", "created201"} => pc[r] = "refresh")
         /\ lock' = lock \/ lock' = Unlocked(r)
         /\ UNCHANGED <<row, used, callVars, loaded, dirty, history>>
BY DEF Refresh, StatementError, RefreshError, WorkerKilled, CommitError, rowVars, history

LEMMA EndsWithRow ==
  ASSUME IInv, NEW r \in Requests, Commit(r) \/ (CommitError(r) /\ Publish(r))
  PROVE  /\ pc[r] = "commit" /\ Publish(r) /\ lock' = Unlocked(r)
         /\ \/ Goto(r, "refresh") /\ op[r] # "delete"
            \/ Answer(r, "error500")
            \/ Answer(r, "noContent204") /\ op[r] = "delete"
         /\ UNCHANGED <<used, callVars, loaded, dirty, tombs>>
BY DEF Commit, CommitError

\* Every step is of one of five kinds.
LEMMA StepKinds ==
  ASSUME IInv, NEW r \in Requests, Call(r) \/ Proceed(r) \/ Failure(r)
  PROVE  \/ Call(r)
         \/ Load(r)
         \/ Insert(r) \/ FlushUpdate(r) \/ FlushDelete(r)
         \/ \/ Refresh(r) \/ StatementError(r) \/ RefreshError(r) \/ WorkerKilled(r)
            \/ CommitError(r) /\ UNCHANGED <<row, held, applied>>
         \/ Commit(r) \/ (CommitError(r) /\ Publish(r))
BY DEF Proceed, Failure, CommitError

\* A call is the beginning of a create with a new id, or of another request
\* with an id in use.
LEMMA CallShape ==
  ASSUME IInv, NEW r \in Requests, Call(r)
  PROVE  \E o \in {"create", "get", "update", "delete"}, u \in Users, i \in Items, b \in Bodies :
           /\ IF o = "create" THEN i \notin used /\ DOMAIN b = Fields ELSE i \in used
           /\ Begin(r, o, u, i, b)
<1>1. PICK u \in Users :
        \/ \E i \in Items \ used, b \in Contents : Complete(b) /\ Begin(r, "create", u, i, b)
        \/ \E i \in used, b \in Bodies : Begin(r, "update", u, i, b)
        \/ \E i \in used, o \in {"get", "delete"} : Begin(r, o, u, i, NoChange)
  BY DEF Call
<1>2. used \subseteq Items
  BY DEF IInv, TypeOK
<1>3. \A b \in Contents : b \in Bodies /\ DOMAIN b = Fields
  BY BodyShape DEF Contents
<1>4. NoChange \in Bodies
  BY BodyShape DEF NoChange
<1> QED
  BY <1>1, <1>2, <1>3, <1>4

LEMMA NextInv ==
  IInv /\ [Next]_vars => IInv'
<1> SUFFICES ASSUME IInv, [Next]_vars PROVE IInv'
  OBVIOUS
<1>1. CASE UNCHANGED vars
  <2> USE <1>1 DEF vars, rowVars, callVars, history, IInv
  <2>1. TypeOK' /\ StepsFollowOperation' /\ IdsAreFresh'
    BY DEF TypeOK, StepsFollowOperation, IdsAreFresh
  <2>2. LoadedRowsStay'
    BY DEF LoadedRowsStay, MayTouch
  <2>3. WritesAreAsked'
    BY DEF WritesAreAsked, ChangedColumns, Matching
  <2>4. TombsAreDeleted' /\ UpdateTookEffect' /\ GoneAfterDelete'
    BY DEF TombsAreDeleted, UpdateTookEffect, GoneAfterDelete
  <2> QED
    BY <2>1, <2>2, <2>3, <2>4
<1>2. ASSUME NEW r \in Requests, Call(r) \/ Proceed(r) \/ Failure(r) PROVE IInv'
  <2>1. CASE Call(r)
    BY <2>1, CallShape, BeginStep
  <2>2. CASE Load(r)
    BY <2>2, LoadStep
  <2>3. CASE Insert(r) \/ FlushUpdate(r) \/ FlushDelete(r)
    BY <2>3, FlushStep
  <2>4. CASE \/ Refresh(r) \/ StatementError(r) \/ RefreshError(r) \/ WorkerKilled(r)
             \/ CommitError(r) /\ UNCHANGED <<row, held, applied>>
    BY <2>4, EndsWithoutRow, EndStep
  <2>5. CASE Commit(r) \/ (CommitError(r) /\ Publish(r))
    BY <2>5, EndsWithRow, PublishStep
  <2> QED
    BY <1>2, <2>1, <2>2, <2>3, <2>4, <2>5, StepKinds
<1> QED
  BY <1>1, <1>2 DEF Next

-----------------------------------------------------------------------------
(* The theorems.                                                           *)

\* The inductive invariant holds: what a transaction has written is what was
\* asked for, and the row it is about to change is still there and its own.
THEOREM IInvHolds == Spec => []IInv
BY InitInv, NextInv, PTL DEF Spec

\* Rows, sessions and answers are well typed: what a commit publishes is a
\* complete row.
THEOREM TypeCorrect == Spec => []TypeOK
<1>1. IInv => TypeOK
  BY DEF IInv
<1> QED
  BY IInvHolds, <1>1, PTL

\* An update answered 200 had each value it sent in the table at some moment
\* of the request, also the columns that flush skipped.
THEOREM UpdatesAreReal == Spec => []UpdateTookEffect
<1>1. IInv => UpdateTookEffect
  BY DEF IInv
<1> QED
  BY IInvHolds, <1>1, PTL

\* A request that begins after a deletion was answered is told 404.
THEOREM DeletedIsGone == Spec => []GoneAfterDelete
<1>1. IInv => GoneAfterDelete
  BY DEF IInv
<1> QED
  BY IInvHolds, <1>1, PTL

\* Rows change only when they are published.
LEMMA RowsKept ==
  ASSUME IInv, Next, row' # row
  PROVE  \E r \in Requests :
           /\ pc[r] = "commit" /\ Publish(r)
           /\ UNCHANGED <<item, body>>
<1>1. PICK r \in Requests : Call(r) \/ Proceed(r) \/ Failure(r)
  BY DEF Next
<1>2. ~Call(r)
  BY CallShape DEF Begin
<1>3. ~Load(r) /\ ~(Insert(r) \/ FlushUpdate(r) \/ FlushDelete(r))
  BY DEF Load, Insert, FlushUpdate, FlushDelete, rowVars
<1>4. Commit(r) \/ (CommitError(r) /\ Publish(r))
  BY <1>1, <1>2, <1>3, StepKinds, EndsWithoutRow
<1> QED
  BY <1>4, EndsWithRow DEF callVars

\* A deleted item never comes back, whichever update had loaded it before.
THEOREM DeletionIsFinal == Spec => DeletedStaysDeleted
<1>1. ASSUME IInv, [Next]_vars
      PROVE  \A i \in Items : row[i].state = "deleted" => row'[i].state = "deleted"
  <2>1. CASE row' = row
    BY <2>1
  <2>2. CASE row' # row
    <3>1. Next
      BY <1>1, <2>2 DEF vars, rowVars
    <3>2. PICK r \in Requests : pc[r] = "commit" /\ Publish(r)
      BY <1>1, <2>2, <3>1, RowsKept
    <3>3. \A i \in Items : row'[i] = IF i = item[r] THEN Published(r) ELSE row[i]
      BY <1>1, <3>2 DEF Publish, IInv, TypeOK
    <3> QED
      BY <1>1, <3>2, <3>3, PublishedShape
  <2> QED
    BY <2>1, <2>2
<1> QED
  BY IInvHolds, <1>1, PTL DEF Spec, DeletedStaysDeleted

\* No column changes but by a commit of a request that sent it.
THEOREM NoColumnIsLost == Spec => OnlyAskedColumnsChange
<1>1. ASSUME IInv, [Next]_vars
      PROVE  \A i \in Items, f \in Fields :
               row[i].fields[f] # row'[i].fields[f] =>
                 \E r \in applied' \ applied : item'[r] = i /\ f \in DOMAIN body[r]
  <2>1. CASE row' = row
    BY <2>1
  <2>2. CASE row' # row
    <3>1. Next
      BY <1>1, <2>2 DEF vars, rowVars
    <3>2. PICK r \in Requests : pc[r] = "commit" /\ Publish(r) /\ UNCHANGED <<item, body>>
      BY <1>1, <2>2, <3>1, RowsKept
    <3>3. \A i \in Items : row'[i] = IF i = item[r] THEN Published(r) ELSE row[i]
      BY <1>1, <3>2 DEF Publish, IInv, TypeOK
    <3>4. r \in applied' \ applied
      BY <1>1, <3>2 DEF Publish, IInv, StepsFollowOperation
    <3> QED
      BY <1>1, <3>2, <3>3, <3>4, PublishedShape
  <2> QED
    BY <2>1, <2>2
<1> QED
  BY IInvHolds, <1>1, PTL DEF Spec, OnlyAskedColumnsChange

\* A row changes only for a user who may change it when the commit publishes
\* it, however long ago the owner was checked, and keeps its owner.
THEOREM PermissionHolds == Spec => OnlyPermittedChange
<1>1. ASSUME IInv, [Next]_vars
      PROVE  \A i \in Items :
               row[i].state # "absent" /\ row'[i] # row[i] =>
                 /\ row'[i].owner = row[i].owner /\ row'[i].state # "absent"
                 /\ \E r \in applied' \ applied :
                      item[r] = i /\ (user[r] \in Superusers \/ user[r] = row[i].owner)
  <2>1. CASE row' = row
    BY <2>1
  <2>2. CASE row' # row
    <3>1. Next
      BY <1>1, <2>2 DEF vars, rowVars
    <3>2. PICK r \in Requests : pc[r] = "commit" /\ Publish(r)
      BY <1>1, <2>2, <3>1, RowsKept
    <3>3. \A i \in Items : row'[i] = IF i = item[r] THEN Published(r) ELSE row[i]
      BY <1>1, <3>2 DEF Publish, IInv, TypeOK
    <3>4. r \in applied' \ applied
      BY <1>1, <3>2 DEF Publish, IInv, StepsFollowOperation
    <3>5. row[item[r]].state # "absent" => op[r] \in {"update", "delete"} /\ MayTouch(r)
      BY <1>1, <3>2, PublishedShape DEF IInv, StepsFollowOperation, LoadedRowsStay
    <3>6. row[item[r]].state # "absent" =>
            Published(r).owner = row[item[r]].owner /\ Published(r).state # "absent"
      BY <1>1, <3>2, <3>5, PublishedShape
    <3>7. ASSUME NEW i \in Items, row[i].state # "absent", row'[i] # row[i]
          PROVE  /\ row'[i].owner = row[i].owner /\ row'[i].state # "absent"
                 /\ \E q \in applied' \ applied :
                      item[q] = i /\ (user[q] \in Superusers \/ user[q] = row[i].owner)
      <4>1. i = item[r] /\ row'[i] = Published(r)
        BY <3>3, <3>7
      <4> QED
        BY <3>4, <3>5, <3>6, <3>7, <4>1 DEF MayTouch
    <3> QED
      BY <3>7
  <2> QED
    BY <2>1, <2>2
<1> QED
  BY IInvHolds, <1>1, PTL DEF Spec, OnlyPermittedChange

-----------------------------------------------------------------------------
(* Row locks.                                                              *)

\* A step of r is all that moves r, and it gives no lock to anyone else.
LEMMA LockSteps ==
  ASSUME IInv, NEW r \in Requests, Call(r) \/ Proceed(r) \/ Failure(r)
  PROVE  /\ \A s \in Requests \ {r} : pc'[s] = pc[s] /\ item'[s] = item[s]
         /\ \/ lock' = lock /\ pc[r] # "commit"
            \/ lock' = Unlocked(r)
            \/ /\ lock' = [lock EXCEPT ![item[r]] = r]
               /\ pc[r] # "commit" /\ pc'[r] = "commit" /\ item' = item
<1> USE DEF IInv, TypeOK
<1>1. CASE Call(r)
  BY <1>1, CallShape DEF Begin, Goto
<1>2. CASE Load(r) \/ Refresh(r) \/ StatementError(r) \/ RefreshError(r)
  BY <1>2 DEF Load, Refresh, StatementError, RefreshError, Goto, Answer, rowVars, callVars
<1>3. CASE Insert(r) \/ FlushDelete(r)
  BY <1>3 DEF Insert, FlushDelete, Goto, callVars
<1>4. CASE FlushUpdate(r)
  BY <1>4 DEF FlushUpdate, Goto, Answer, callVars
<1>5. CASE Commit(r) \/ CommitError(r) \/ WorkerKilled(r)
  BY <1>5 DEF Commit, CommitError, WorkerKilled, Goto, Answer, callVars
<1> QED
  BY <1>1, <1>2, <1>3, <1>4, <1>5 DEF Proceed, Failure

LEMMA LockStep ==
  ASSUME IInv, LockHoldersCommit, [Next]_vars
  PROVE  LockHoldersCommit'
<1>1. CASE UNCHANGED vars
  BY <1>1 DEF vars, rowVars, callVars, LockHoldersCommit
<1>2. CASE Next
  <2>1. PICK r \in Requests : Call(r) \/ Proceed(r) \/ Failure(r)
    BY <1>2 DEF Next
  <2>2. /\ lock \in [Items -> Requests \union {NoRequest}]
        /\ pc[r] # "new" => item[r] \in Items
    BY DEF IInv, TypeOK, StepsFollowOperation
  <2>3. \A s \in Requests \ {r} : pc'[s] = pc[s] /\ item'[s] = item[s]
    BY <2>1, LockSteps
  <2>4. ASSUME NEW i \in Items, lock'[i] # NoRequest
        PROVE  pc'[lock'[i]] = "commit" /\ item'[lock'[i]] = i
    <3>1. CASE lock' = lock /\ pc[r] # "commit"
      BY <2>2, <2>3, <2>4, <3>1 DEF LockHoldersCommit
    <3>2. CASE lock' = Unlocked(r)
      BY <2>2, <2>3, <2>4, <3>2 DEF LockHoldersCommit, Unlocked
    <3>3. CASE /\ lock' = [lock EXCEPT ![item[r]] = r]
               /\ pc[r] # "commit" /\ pc'[r] = "commit" /\ item' = item
      <4>1. CASE i = item[r]
        BY <2>2, <3>3, <4>1
      <4>2. CASE i # item[r]
        BY <2>2, <2>3, <2>4, <3>3, <4>2 DEF LockHoldersCommit
      <4> QED
        BY <4>1, <4>2
    <3> QED
      BY <2>1, <3>1, <3>2, <3>3, LockSteps
  <2> QED
    BY <2>4 DEF LockHoldersCommit
<1> QED
  BY <1>1, <1>2

\* Whoever holds a row lock has nothing left to do but its commit.
THEOREM LocksHeldToCommit == Spec => []LockHoldersCommit
<1>1. Init => LockHoldersCommit
  BY DEF Init, LockHoldersCommit
<1> QED
  BY IInvHolds, <1>1, LockStep, PTL DEF Spec

\* No deadlock over rows: a request that cannot go on waits for one session,
\* which holds no other row and can commit.
THEOREM WaitsStayShort == Spec => []WaitsAreShort
<1>1. ASSUME IInv, LockHoldersCommit PROVE WaitsAreShort
  <2>1. ASSUME NEW r \in Requests, pc[r] \notin {"new", "done"}, ~CanProceed(r)
        PROVE  \E s \in Requests :
                 /\ s # r /\ lock[item[r]] = s /\ pc[s] = "commit"
                 /\ \A i \in Items : lock[i] = s => i = item[r]
    <3>1. pc[r] = "flush" /\ lock[item[r]] # NoRequest
      BY <1>1, <2>1 DEF CanProceed, IInv, TypeOK
    <3>2. item[r] \in Items /\ lock[item[r]] \in Requests
      BY <1>1, <2>1, <3>1 DEF IInv, TypeOK, StepsFollowOperation
    <3>3. pc[lock[item[r]]] = "commit" /\ item[lock[item[r]]] = item[r]
      BY <1>1, <3>1, <3>2 DEF LockHoldersCommit
    <3>4. \A i \in Items : lock[i] = lock[item[r]] => i = item[r]
      BY <1>1, <3>1, <3>3 DEF LockHoldersCommit
    <3> QED
      BY <3>1, <3>2, <3>3, <3>4
  <2> QED
    BY <2>1 DEF WaitsAreShort
<1> QED
  BY IInvHolds, LocksHeldToCommit, <1>1, PTL

\* Steps between a request and its answer.
StepsLeft ==
  [ step \in {"new", "load", "insert", "flush", "commit", "refresh", "done"} |->
      CASE step = "new" -> 5
        [] step = "load" -> 4
        [] step \in {"insert", "flush"} -> 3
        [] step = "commit" -> 2
        [] step = "refresh" -> 1
        [] OTHER -> 0 ]

\* No request runs in circles: every step of the service moves one request
\* nearer to its answer and no other one away from it.  With WaitsStayShort,
\* the requests end, but for the fairness of their sessions.
THEOREM EveryStepIsNearer ==
  Spec => [][ \E r \in Requests :
                /\ StepsLeft[pc'[r]] < StepsLeft[pc[r]]
                /\ \A s \in Requests \ {r} : pc'[s] = pc[s] ]_vars
<1>1. ASSUME IInv, NEW r \in Requests, Call(r) \/ Proceed(r) \/ Failure(r)
      PROVE  StepsLeft[pc'[r]] < StepsLeft[pc[r]]
  <2>0. r \in DOMAIN pc
    BY <1>1 DEF IInv, TypeOK
  <2>1. \/ pc[r] = "new" /\ pc'[r] \in {"load", "insert"}
        \/ pc[r] = "load" /\ pc'[r] \in {"flush", "done"}
        \/ pc[r] \in {"insert", "flush"} /\ pc'[r] \in {"commit", "done"}
        \/ pc[r] = "commit" /\ pc'[r] \in {"refresh", "done"}
        \/ pc[r] = "refresh" /\ pc'[r] = "done"
    <3> USE <2>0 DEF Goto, Answer
    <3>1. CASE Call(r)
      <4>1. pc[r] = "new" /\ \E step \in {"load", "insert"} : pc' = [pc EXCEPT ![r] = step]
        BY <1>1, <3>1, CallShape DEF Begin, Goto
      <4> QED
        BY <4>1
    <3>2. CASE Load(r)
      BY <3>2 DEF Load
    <3>3. CASE Insert(r) \/ FlushUpdate(r) \/ FlushDelete(r)
      BY <3>3 DEF Insert, FlushUpdate, FlushDelete
    <3>4. CASE Commit(r) \/ CommitError(r)
      BY <3>4 DEF Commit, CommitError
    <3>5. CASE Refresh(r) \/ RefreshError(r) \/ StatementError(r)
      BY <3>5 DEF Refresh, RefreshError, StatementError
    <3>6. CASE WorkerKilled(r)
      <4>1. pc[r] \in {"load", "insert", "flush", "commit", "refresh"} /\ pc'[r] = "done"
        BY <1>1, <3>6 DEF WorkerKilled, IInv, TypeOK
      <4> QED
        BY <4>1
    <3> QED
      BY <1>1, <3>1, <3>2, <3>3, <3>4, <3>5, <3>6 DEF Proceed, Failure
  <2> QED
    BY <2>1 DEF StepsLeft
<1>2. ASSUME IInv, Next
      PROVE  \E r \in Requests :
               /\ StepsLeft[pc'[r]] < StepsLeft[pc[r]]
               /\ \A s \in Requests \ {r} : pc'[s] = pc[s]
  BY <1>1, <1>2, LockSteps DEF Next
<1>3. IInv /\ [Next]_vars =>
        [ \E r \in Requests :
            /\ StepsLeft[pc'[r]] < StepsLeft[pc[r]]
            /\ \A s \in Requests \ {r} : pc'[s] = pc[s] ]_vars
  BY <1>2
<1> QED
  BY IInvHolds, <1>3, PTL DEF Spec

-----------------------------------------------------------------------------
(* The service implements the store.                                       *)

orders == [r \in Requests |-> OrderOf(r)]
outcomes == [r \in Requests |-> OutcomeOf(r)]

\* Every request asks for something the store knows.
LEMMA OrderShape ==
  ASSUME IInv, NEW r \in Requests
  PROVE  OrderOf(r) \in Store!Orders
<1> USE DEF IInv, Store!Orders, Store!Changes, OrderOf
<1>1. CASE op[r] = "none"
  <2>1. (CHOOSE i \in Items : TRUE) \in Items
    BY RecordsAssumption
  <2>2. NoChange \in Bodies
    BY BodyShape DEF NoChange
  <2> QED
    BY <1>1, <2>1, <2>2 DEF Bodies
<1>2. CASE op[r] # "none"
  <2>1. item[r] \in Items /\ user[r] \in Users /\ body[r] \in Bodies
    BY <1>2 DEF TypeOK, StepsFollowOperation
  <2> QED
    BY <1>2, <2>1 DEF TypeOK, Bodies
<1> QED
  BY <1>1, <1>2

LEMMA StoreInitMaps == Init => Store!StoreInit
<1> SUFFICES ASSUME Init PROVE Store!StoreInit
  OBVIOUS
<1>1. IInv
  BY InitInv
<1>2. \A i \in Items : row[i].state # "deleted"
  BY DEF Init, NoRow
<1>3. row \in [Items -> Store!Rows]
  BY <1>1 DEF IInv, TypeOK, Rows, Contents, Store!Rows, Store!Contents
<1>4. orders \in [Requests -> Store!Orders] /\ \A r \in Requests : orders[r].op = "none"
  BY <1>1, OrderShape DEF orders, OrderOf, Init
<1>5. outcomes = [r \in Requests |-> "open"]
  BY DEF outcomes, OutcomeOf, Init
<1> QED
  BY <1>2, <1>3, <1>4, <1>5 DEF Store!StoreInit, orders, outcomes

\* A step of r that leaves the calls alone shows at most in the outcome of r.
LEMMA OutcomeOnly ==
  ASSUME IInv, NEW r \in Requests, UNCHANGED callVars,
         applied' = applied \/ applied' = applied \union {r},
         \A s \in Requests \ {r} : UNCHANGED <<pc[s], answer[s]>>
  PROVE  /\ orders' = orders
         /\ outcomes' = [outcomes EXCEPT ![r] = OutcomeOf(r)']
<1>1. orders' = orders
  BY DEF orders, OrderOf, callVars
<1>2. \A s \in Requests \ {r} : OutcomeOf(s)' = OutcomeOf(s)
  BY DEF OutcomeOf
<1> QED
  BY <1>1, <1>2 DEF outcomes

\* A request that is neither new nor done is open, or applied if it refreshes.
LEMMA OutcomeNow ==
  ASSUME IInv, NEW r \in Requests, pc[r] \notin {"new", "done"}
  PROVE  /\ orders[r].op = op[r] /\ op[r] # "none"
         /\ outcomes[r] = IF r \in applied THEN "applied" ELSE "open"
         /\ pc[r] = "refresh" <=> r \in applied
BY DEF IInv, StepsFollowOperation, orders, outcomes, OrderOf, OutcomeOf

\* Ending without a row, a request fails, or acknowledges what it has applied
\* or read.
LEMMA StoreEnds ==
  ASSUME IInv, NEW r \in Requests, pc[r] \notin {"new", "done"}, NEW a \in Answers \ {"none"},
         a \in {"ok200", "created201", "noContent204"} => pc[r] = "refresh" \/ op[r] = "get",
         Answer(r, a), UNCHANGED <<row, applied, callVars>>
  PROVE  Store!StoreNext
<1>1. pc'[r] = "done" /\ answer'[r] = a /\ \A s \in Requests \ {r} : UNCHANGED <<pc[s], answer[s]>>
  BY DEF Answer, IInv, TypeOK
<1>2. orders' = orders /\ outcomes' = [outcomes EXCEPT ![r] = OutcomeOf(r)']
  BY <1>1, OutcomeOnly
<1>3. CASE a \in {"ok200", "created201", "noContent204"}
  <2>1. OutcomeOf(r)' = "acknowledged"
    BY <1>1, <1>3 DEF OutcomeOf
  <2>2. Store!Acknowledge(r)
    BY <1>2, <1>3, <2>1, OutcomeNow DEF Store!Acknowledge, orders, outcomes
  <2> QED
    BY <2>2 DEF Store!StoreNext
<1>4. CASE a \notin {"ok200", "created201", "noContent204"}
  <2>1. OutcomeOf(r)' = "failed"
    BY <1>1, <1>4 DEF OutcomeOf
  <2>2. Store!Fail(r)
    BY <1>2, <2>1, OutcomeNow DEF Store!Fail, orders, outcomes
  <2> QED
    BY <2>2 DEF Store!StoreNext
<1> QED
  BY <1>3, <1>4

\* What a commit publishes is an outcome of what was asked for.
LEMMA PublishedIsOutcome ==
  ASSUME IInv, NEW r \in Requests, pc[r] = "commit"
  PROVE  /\ orders[r].item = item[r]
         /\ Published(r) \in Store!Outcomes(orders[r], row[item[r]])
<1> USE DEF IInv
<1>0. /\ op[r] \in {"create", "update", "delete"}
      /\ orders[r] = [op |-> op[r], item |-> item[r], user |-> user[r], change |-> body[r]]
  BY DEF StepsFollowOperation, orders, OrderOf
<1>1. row[item[r]] \in Rows
  BY DEF TypeOK, StepsFollowOperation
<1>2. CASE op[r] = "create"
  <2>1. /\ body[r] \in Contents /\ dirty[r] = body[r]
        /\ row[item[r]].state = "absent"
    BY <1>2, BodyShape DEF TypeOK, StepsFollowOperation, WritesAreAsked, IdsAreFresh, Contents
  <2>2. Published(r) = [state |-> "live", owner |-> user[r], fields |-> body[r]]
    BY <1>2, <2>1 DEF Published
  <2>3. body[r] \in { x \in Contents : \A f \in DOMAIN body[r] : x[f] = body[r][f] }
    BY <2>1
  <2>4. Store!Outcomes(orders[r], row[item[r]]) =
          { [state |-> "live", owner |-> user[r], fields |-> c] :
              c \in { x \in Contents : \A f \in DOMAIN body[r] : x[f] = body[r][f] } }
    BY <1>0, <1>2, <2>1 DEF Store!Outcomes, Store!Contents, Contents
  <2> QED
    BY <1>0, <2>2, <2>3, <2>4
<1>3. CASE op[r] = "update"
  <2>1. /\ dirty[r] = ChangedColumns(r)
        /\ row[item[r]].state # "absent" /\ Store!Permitted(orders[r], row[item[r]])
    BY <1>0, <1>3 DEF WritesAreAsked, LoadedRowsStay, MayTouch, Store!Permitted
  <2>2. DOMAIN ChangedColumns(r) \subseteq DOMAIN body[r]
    BY ChangedShape
  <2>3. Merged(row[item[r]].fields, ChangedColumns(r)) =
          [f \in Fields |-> IF f \in DOMAIN ChangedColumns(r)
                            THEN body[r][f] ELSE row[item[r]].fields[f]]
    BY ChangedShape DEF Merged
  <2>4. Published(r) = [row[item[r]] EXCEPT !.fields = Merged(row[item[r]].fields, ChangedColumns(r))]
    BY <1>3, <2>1 DEF Published
  <2>5. Store!Outcomes(orders[r], row[item[r]]) =
          { [row[item[r]] EXCEPT !.fields =
              [f \in Fields |-> IF f \in F THEN body[r][f] ELSE row[item[r]].fields[f]]] :
              F \in SUBSET DOMAIN body[r] }
    BY <1>0, <1>3, <2>1 DEF Store!Outcomes
  <2> QED
    BY <1>0, <2>2, <2>3, <2>4, <2>5
<1>4. CASE op[r] = "delete"
  BY <1>0, <1>4 DEF LoadedRowsStay, MayTouch, Store!Permitted, Store!Outcomes, Published
<1> QED
  BY <1>0, <1>2, <1>3, <1>4

\* A commit applies what was asked for.
LEMMA StoreApplies ==
  ASSUME IInv, NEW r \in Requests, pc[r] = "commit", Publish(r),
         \/ Goto(r, "refresh") /\ op[r] # "delete"
         \/ Answer(r, "error500")
         \/ Answer(r, "noContent204") /\ op[r] = "delete",
         UNCHANGED callVars
  PROVE  Store!StoreNext
<1>1. /\ \A s \in Requests \ {r} : UNCHANGED <<pc[s], answer[s]>>
      /\ \/ pc'[r] = "refresh" /\ answer'[r] = "none"
         \/ pc'[r] = "done" /\ answer'[r] \in {"error500", "noContent204"}
  BY DEF Goto, Answer, IInv, TypeOK, StepsFollowOperation
<1>2. applied' = applied \union {r} /\ row' = [row EXCEPT ![item[r]] = Published(r)]
  BY DEF Publish
<1>3. orders' = orders /\ outcomes' = [outcomes EXCEPT ![r] = OutcomeOf(r)']
  BY <1>1, <1>2, OutcomeOnly
<1>4. OutcomeOf(r)' \in {"applied", "acknowledged", "failed"}
  BY <1>1, <1>2 DEF OutcomeOf
<1>5. outcomes[r] = "open"
  BY OutcomeNow
<1>6. Store!Apply(r)
  BY <1>2, <1>3, <1>4, <1>5, PublishedIsOutcome DEF Store!Apply, orders, outcomes
<1> QED
  BY <1>6 DEF Store!StoreNext

\* A step of r that neither ends it nor changes a row stutters.
LEMMA StoreStutters ==
  ASSUME IInv, NEW r \in Requests, pc[r] \notin {"new", "done"},
         NEW step \in {"flush", "commit"}, Goto(r, step), UNCHANGED <<row, applied, callVars>>
  PROVE  UNCHANGED Store!storeVars
<1>1. /\ pc'[r] = step
      /\ \A s \in Requests \ {r} : UNCHANGED pc[s]
      /\ UNCHANGED answer
  BY DEF Goto, IInv, TypeOK
<1>2. orders' = orders /\ outcomes' = [outcomes EXCEPT ![r] = OutcomeOf(r)']
  BY <1>1, OutcomeOnly
<1>3. OutcomeOf(r)' = OutcomeOf(r)
  BY <1>1 DEF OutcomeOf
<1>4. outcomes' = outcomes
  BY <1>2, <1>3 DEF outcomes
<1> QED
  BY <1>2, <1>4 DEF Store!storeVars, orders, outcomes

LEMMA StoreAsks ==
  ASSUME IInv, NEW r \in Requests, Call(r)
  PROVE  Store!StoreNext
<1>1. /\ pc[r] = "new" /\ pc'[r] \in {"load", "insert"} /\ op'[r] # "none"
      /\ UNCHANGED <<row, answer, applied>>
      /\ \A s \in Requests \ {r} : UNCHANGED <<pc[s], op[s], user[s], item[s], body[s]>>
  BY CallShape DEF Begin, Goto, IInv, TypeOK
<1>2. op[r] = "none" /\ answer[r] = "none"
  BY <1>1 DEF IInv, StepsFollowOperation
<1>3. \A s \in Requests \ {r} : OrderOf(s)' = OrderOf(s)
  BY <1>1 DEF OrderOf
<1>4. OrderOf(r)' \in Store!Orders
  <2>1. /\ op'[r] \in {"create", "get", "update", "delete"} /\ item'[r] \in Items
        /\ user'[r] \in Users /\ body'[r] \in Bodies
    BY CallShape DEF Begin, IInv, TypeOK
  <2> QED
    BY <2>1 DEF OrderOf, Bodies, Store!Orders, Store!Changes
<1>5. \A s \in Requests : OutcomeOf(s)' = OutcomeOf(s)
  BY <1>1, <1>2 DEF OutcomeOf
<1>6. /\ orders[r].op = "none"
      /\ orders'[r] \in Store!Orders
      /\ orders' = [orders EXCEPT ![r] = orders'[r]]
      /\ outcomes' = outcomes
  BY <1>2, <1>3, <1>4, <1>5 DEF orders, outcomes, OrderOf
<1>7. Store!Ask(r)
  BY <1>1, <1>6 DEF Store!Ask, orders, outcomes
<1> QED
  BY <1>7 DEF Store!StoreNext

LEMMA StoreStep ==
  ASSUME IInv, [Next]_vars
  PROVE  Store!StoreNext \/ UNCHANGED Store!storeVars
<1>1. CASE UNCHANGED vars
  BY <1>1 DEF vars, rowVars, callVars, history, Store!storeVars, OrderOf, OutcomeOf
<1>2. ASSUME NEW r \in Requests, Call(r) \/ Proceed(r) \/ Failure(r)
      PROVE  Store!StoreNext \/ UNCHANGED Store!storeVars
  <2>1. CASE Call(r)
    BY <2>1, StoreAsks
  <2>2. CASE Load(r)
    <3>1. /\ pc[r] = "load" /\ UNCHANGED <<row, applied, callVars>>
          /\ \/ Answer(r, "notFound404")
             \/ Answer(r, "denied403")
             \/ Answer(r, "ok200") /\ op[r] = "get"
             \/ Goto(r, "flush")
      BY <2>2 DEF Load, rowVars, IInv, TypeOK, StepsFollowOperation, history
    <3> QED
      BY <3>1, StoreEnds, StoreStutters DEF Answers
  <2>3. CASE Insert(r) \/ FlushUpdate(r) \/ FlushDelete(r)
    <3>1. /\ pc[r] \in {"insert", "flush"} /\ UNCHANGED <<row, applied, callVars>>
          /\ Goto(r, "commit") \/ Answer(r, "error500")
      BY <2>3 DEF Insert, FlushUpdate, FlushDelete, history
    <3> QED
      BY <3>1, StoreEnds, StoreStutters DEF Answers
  <2>4. CASE \/ Refresh(r) \/ StatementError(r) \/ RefreshError(r) \/ WorkerKilled(r)
             \/ CommitError(r) /\ UNCHANGED <<row, held, applied>>
    <3>1. UNCHANGED <<row, applied, callVars>>
      BY <2>4, EndsWithoutRow DEF history
    <3> QED
      BY <2>4, <3>1, EndsWithoutRow, StoreEnds DEF Answers
  <2>5. CASE Commit(r) \/ (CommitError(r) /\ Publish(r))
    BY <2>5, EndsWithRow, StoreApplies
  <2> QED
    BY <1>2, <2>1, <2>2, <2>3, <2>4, <2>5, StepKinds
<1> QED
  BY <1>1, <1>2 DEF Next

\* Sessions, row locks and partial UPDATEs implement the store: each request
\* changes one row once and only as asked, and acknowledges what it changed.
THEOREM Implements == Spec => ImplementsStore
BY StoreInitMaps, StoreStep, IInvHolds, PTL DEF Spec, ImplementsStore, Store!StoreSpec
=============================================================================
