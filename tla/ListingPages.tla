---------------------------- MODULE ListingPages ----------------------------
(***************************************************************************)
(* The lists of items and users: a client reads a list page by page while  *)
(* others insert, update and delete rows.  One page is one request, whose  *)
(* session sends two statements under READ COMMITTED: a count of the       *)
(* filtered rows, and the same filter sorted, with OFFSET and LIMIT.  The  *)
(* client begins at an offset of its choice, which need not be a multiple  *)
(* of the page's size, and adds that size until has_next is false.         *)
(*                                                                         *)
(* A row is what a list sees of it: whether it is live, its key, the value *)
(* of the column the list is sorted by, and its facet, which stands for    *)
(* the columns that filters test: owner_id and title of an item, username, *)
(* full_name, is_active and is_superuser of a user.                        *)
(***************************************************************************)
EXTENDS Integers, FiniteSets

CONSTANTS
  Rows,          \* primary keys
  Keys,
  Facets,
  Own,           \* the facets of the reader's own rows
  IsSuperuser,   \* of the reader
  MaxLimit,      \* bound: of a page's size, 100 in the code
  MaxSkip,       \* bound: of the offset a walk begins at; the code has none
  MaxWrites      \* bound: how often the table changes

ASSUME PagesAssumption ==
  /\ IsFiniteSet(Rows)
  /\ Keys \subseteq Int
  /\ Own \subseteq Facets
  /\ IsSuperuser \in BOOLEAN
  /\ MaxLimit \in Nat \ {0}
  /\ MaxSkip \in Nat
  /\ MaxWrites \in Nat

VARIABLES
  row,         \* the committed rows
  writes,      \* changes so far
  pc,
  filter, order, limit, skip,     \* the parameters of the page
  total, page,                    \* its count and its rows
  shown,       \* history: rows that some page has shown
  twice,       \* history: rows that more than one has shown
  before,      \* history: rows that lay before the walk's first offset
  steady,      \* history: rows listed all the time, with one key that no other row had
  left,        \* history: keys of the rows that left the list, or moved from there
  entered,     \* history: keys at which rows entered the list, or moved to
  late,        \* history: those between the last page's two statements
  torn         \* history: the table changed between them

tableVars == <<row, writes>>
queryVars == <<filter, order, limit>>
walkVars == <<queryVars, skip, total, page, shown, twice>>
changes == <<before, steady, left, entered, late, torn>>
vars == <<tableVars, pc, walkVars, changes>>

\* What the table holds under a primary key.
Absent == [state |-> "absent"]
Deleted == [state |-> "deleted"]
Live == [state : {"live"}, facet : Facets, key : Keys]
RowStates == Live \union {Absent, Deleted}

-----------------------------------------------------------------------------
(* What the statements return.                                             *)

\* What a reader may ask for: /items/my filters by the owner; /items/ and
\* /users/, with all their filters, are for superusers.
Filters == { f \in SUBSET Facets : IsSuperuser \/ f \subseteq Own }

\* _build_filtered_statement: deleted_at IS NULL, and the filter.
Listed == { x \in Rows : row[x].state = "live" /\ row[x].facet \in filter }

\* _apply_sort: ascending or descending; equal keys are in no order.
Before(k, l) == IF order = "asc" THEN k < l ELSE k > l

\* The first n rows of the list, in one of the orders the sort allows.
IsPrefix(D, n) ==
  /\ D \subseteq Listed
  /\ Cardinality(D) = IF Cardinality(Listed) < n THEN Cardinality(Listed) ELSE n
  /\ \A x \in D, y \in Listed \ D : ~Before(row[y].key, row[x].key)

IsTied(x) == \E y \in Listed \ {x} : row[y].key = row[x].key

Ahead(x) == { y \in Listed : Before(row[y].key, row[x].key) }

\* An untied row's index in the list.
Rank(x) == Cardinality(Ahead(x))

-----------------------------------------------------------------------------
(* The computed fields of Page.                                            *)

CurrentPage == skip \div limit + 1

\* Faulty variant: the page that is not full is always counted.
FloorPages == total \div limit + 1

\* math.ceil(total / limit).
TotalPages == IF total > 0 THEN (total + limit - 1) \div limit ELSE 0

\* Faulty variant: the last row is taken for an index.
HasNextIndex == skip + limit < total - 1

HasNext == skip + limit < total

HasPrevious == skip > 0

-----------------------------------------------------------------------------
(* A walk over the pages.                                                  *)

TypeOK ==
  /\ row \in [Rows -> RowStates]
  /\ writes \in 0..MaxWrites
  /\ pc \in {"idle", "count", "select", "page", "done"}
  /\ filter \subseteq Facets /\ order \in {"asc", "desc"}
  /\ limit \in 1..MaxLimit /\ skip \in Nat /\ total \in Nat
  /\ page \subseteq Rows /\ Cardinality(page) <= limit
  /\ shown \subseteq Rows /\ twice \subseteq shown /\ before \subseteq Rows
  /\ steady \subseteq Rows
  /\ left \subseteq Keys /\ entered \subseteq Keys /\ late \subseteq entered
  /\ torn \in BOOLEAN

Init ==
  /\ row \in [Rows -> RowStates]
  /\ writes = 0
  /\ pc = "idle"
  /\ filter = {} /\ order = "desc" /\ limit = MaxLimit /\ skip = 0
  /\ total = 0 /\ page = {} /\ shown = {} /\ twice = {}
  /\ before = {} /\ steady = {}
  /\ left = {} /\ entered = {} /\ late = {} /\ torn = FALSE

\* The parameters of the first request: skip is any number from 0, limit any
\* from 1.
Open ==
  /\ pc = "idle"
  /\ filter' \in Filters
  /\ order' \in {"asc", "desc"}
  /\ limit' \in 1..MaxLimit
  /\ skip' \in 0..MaxSkip
  /\ pc' = "count"
  /\ UNCHANGED <<tableVars, total, page, shown, twice>>
  /\ before' = { x \in Listed' : Rank(x)' < skip' }
  /\ steady' = { x \in Listed' : ~IsTied(x)' }
  /\ UNCHANGED <<left, entered, late, torn>>

\* Faulty variant: the count forgets the filter.
CountAll ==
  /\ pc = "count"
  /\ total' = Cardinality({ x \in Rows : row[x].state = "live" })
  /\ pc' = "select"
  /\ late' = {} /\ torn' = FALSE
  /\ UNCHANGED <<tableVars, queryVars, skip, page, shown, twice>>
  /\ UNCHANGED <<before, steady, left, entered>>

\* _count_statement.
Count ==
  /\ pc = "count"
  /\ total' = Cardinality(Listed)
  /\ pc' = "select"
  /\ late' = {} /\ torn' = FALSE
  /\ UNCHANGED <<tableVars, queryVars, skip, page, shown, twice>>
  /\ UNCHANGED <<before, steady, left, entered>>

\* A page of so many rows is read and answered.
Fetch(size) ==
  /\ pc = "select"
  /\ \E D \in SUBSET Listed :
       /\ IsPrefix(D, skip)
       /\ \E E \in SUBSET Listed :
            D \subseteq E /\ IsPrefix(E, skip + size) /\ page' = E \ D
  /\ shown' = shown \union page'
  /\ twice' = twice \union (shown \intersect page')
  /\ pc' = "page"
  /\ UNCHANGED <<tableVars, queryVars, skip, total, changes>>

\* Faulty variant: one row more is read to know if there is a next page, and
\* is not dropped.
SelectOneMore == Fetch(limit + 1)

Select == Fetch(limit)

NextPage ==
  /\ pc = "page"
  /\ IF HasNext THEN pc' = "count" /\ skip' = skip + limit
     ELSE pc' = "done" /\ skip' = skip
  /\ UNCHANGED <<tableVars, queryVars, total, page, shown, twice, changes>>

-----------------------------------------------------------------------------
(* What others commit meanwhile: the table is any when the walk begins, and *)
(* what becomes of it afterwards is not looked at.                         *)

\* Rows are inserted, updated, and deleted softly: they do not come back.
Outcomes(v) ==
  IF v = Absent THEN Live ELSE IF v = Deleted THEN {} ELSE (Live \ {v}) \union {Deleted}

\* Keys at which the old list has a row and the new one has not.
Gone(oldList, old, newList, new) ==
  { old[x].key : x \in { y \in oldList : ~ (y \in newList /\ new[y].key = old[y].key) } }

Write(x) ==
  /\ pc \notin {"idle", "done"}
  /\ writes < MaxWrites
  /\ writes' = writes + 1
  /\ \E v \in Outcomes(row[x]) : row' = [row EXCEPT ![x] = v]
  /\ UNCHANGED <<pc, walkVars, before>>
  /\ steady' = { y \in steady \intersect Listed' : row'[y].key = row[y].key /\ ~IsTied(y)' }
  /\ left' = left \union Gone(Listed, row, Listed', row')
  /\ entered' = entered \union Gone(Listed', row', Listed, row)
  /\ late' = IF pc = "select" THEN late \union Gone(Listed', row', Listed, row) ELSE late
  /\ torn' = (torn \/ pc = "select")

Next ==
  \/ Open \/ Count \/ Select \/ NextPage
  \/ \E x \in Rows : Write(x)

Spec == Init /\ [][Next]_vars

-----------------------------------------------------------------------------
(* What a reader may rely on.                                              *)

\* Rows the walk has left behind.
Passed == before \union shown

\* A walk to the end shows, from its first offset on, every row that was listed
\* all along and whose key no other row shared: it misses one only if a row
\* before it left, and the rest moved up past the offset, or if one entered
\* before it between the count and the page of the last request, and pushed it
\* out (items/repository.py:35-38).
OnlyShiftsHide ==
  pc = "done" =>
    \A x \in steady \ Passed : \E k \in left \union late : Before(k, row[x].key)

\* It shows none of them twice, and none that lay before its first offset,
\* unless a row before it entered: with the default order, newest first, that
\* is every row created meanwhile (items/repository.py:37).
OnlyEntriesRepeat ==
  \A x \in steady \intersect (twice \union (before \intersect shown)) :
    \E k \in entered : Before(k, row[x].key)

\* A page has as many rows as its total promises at its offset, unless the
\* table changed between the two statements (items/repository.py:35-38).
PageFitsTotal ==
  pc = "page" /\ ~torn =>
    Cardinality(page) =
      IF total <= skip THEN 0 ELSE IF HasNext THEN limit ELSE total - skip

\* The numbers of a page are computed by four formulas, from any skip, limit and
\* total.  The pages of this size hold the total, the last of them not empty.
\* An offset before the total lies on one of those pages; has_next says that
\* this is not the last; and a page that is not the first has a previous one.
\* The converses hold where skip is a multiple of limit, and not elsewhere:
\* with skip 1, limit 2 and total 3 a page is number 1 of 2 with no next and
\* with a previous one.  Even so current_page is no more than one short of
\* total_pages when there is no next page (common.py:34-50).
PageNumbersAgree ==
  pc = "page" =>
    /\ TotalPages = Cardinality({ i \div limit : i \in 0..(total - 1) })
    /\ skip < total => CurrentPage <= TotalPages
    /\ HasNext => CurrentPage < TotalPages
    /\ ~HasNext => TotalPages <= CurrentPage + 1
    /\ CurrentPage > 1 => HasPrevious
    /\ skip % limit = 0 =>
         /\ CurrentPage <= TotalPages => skip < total
         /\ CurrentPage < TotalPages => HasNext
         /\ HasPrevious => CurrentPage > 1

-----------------------------------------------------------------------------
(* Why: the inductive invariant.  A steady row's rank moves only when a    *)
(* row before it enters or leaves; what has been passed lies below the     *)
(* offset, and what has not lies at it or beyond.                          *)

Disturbed(x, keys) == \E k \in keys : Before(k, row[x].key)

\* The offset from which the walk goes on.
Position == IF pc = "page" THEN skip + limit ELSE skip

IdleIsBlank ==
  pc = "idle" =>
    /\ filter = {} /\ page = {} /\ shown = {} /\ twice = {}
    /\ before = {} /\ steady = {} /\ left = {} /\ entered = {} /\ late = {}

SteadyIsListed == \A x \in steady : x \in Listed /\ ~IsTied(x)

WalkKeepsUp ==
  pc \in {"count", "select", "page"} =>
    \A x \in steady :
      /\ x \notin Passed /\ ~Disturbed(x, left) => Position <= Rank(x)
      /\ x \in Passed /\ ~Disturbed(x, entered) => Rank(x) < Position

CountIsFresh ==
  /\ pc = "select" =>
       /\ ~torn => total = Cardinality(Listed)
       /\ \A x \in steady : ~Disturbed(x, late) => Rank(x) < total
  /\ pc = "page" /\ ~HasNext =>
       \A x \in steady \ Passed : Disturbed(x, left \union late)

IInv ==
  /\ TypeOK
  /\ IdleIsBlank
  /\ SteadyIsListed
  /\ WalkKeepsUp
  /\ CountIsFresh
  /\ OnlyShiftsHide
  /\ OnlyEntriesRepeat
  /\ PageFitsTotal
=============================================================================
