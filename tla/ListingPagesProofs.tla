------------------------- MODULE ListingPagesProofs -------------------------
(***************************************************************************)
(* Proofs about ListingPages.  The rank of a row is the number of the      *)
(* listed rows before it.  Two facts carry the proof: an untied row is     *)
(* among the first n rows of a list, whatever order the sort leaves open,  *)
(* exactly if its rank is less than n; and a change of the table raises or *)
(* lowers a steady row's rank only through a row before it.                *)
(***************************************************************************)
EXTENDS ListingPages, FiniteSetTheorems, TLAPS

\* Arithmetic of products and quotients, which the solver knows when asked for
\* no more.
LEMMA Division ==
  ASSUME NEW s \in Nat, NEW l \in Nat \ {0}, NEW q, q = s \div l
  PROVE  q \in Nat /\ l * q \in Nat /\ l * q <= s /\ s < l * q + l
<1>1. q \in Nat
  BY SMTT(30)
<1>2. l * q <= s
  BY SMTT(30)
<1>3. s < l * q + l
  BY SMTT(30)
<1>4. l * q \in Nat
  BY <1>1, SMTT(30)
<1> QED
  BY <1>1, <1>2, <1>3, <1>4

LEMMA Aligned ==
  ASSUME NEW s \in Nat, NEW l \in Nat \ {0}, s % l = 0
  PROVE  l * (s \div l) = s
BY SMTT(30)

\* t rows fill p pages of size l if the ceiling of t / l is p.
LEMMA Ceiling ==
  ASSUME NEW t \in Nat \ {0}, NEW l \in Nat \ {0}, NEW p, p = (t + l - 1) \div l
  PROVE  p \in Nat \ {0} /\ l * (p - 1) < t /\ t <= l * p
<1>1. p \in Nat \ {0}
  BY SMTT(30)
<1>2. l * (p - 1) < t
  BY SMTT(30)
<1>3. t <= l * p
  BY SMTT(30)
<1> QED
  BY <1>1, <1>2, <1>3

LEMMA PageBefore ==
  ASSUME NEW i \in Nat, NEW l \in Nat \ {0}, NEW p \in Nat, NEW t \in Nat, i < t, t <= l * p
  PROVE  i \div l \in 0..(p - 1)
BY SMTT(30)

LEMMA FirstOfPage ==
  ASSUME NEW j \in Nat, NEW l \in Nat \ {0}, NEW p \in Nat, NEW t \in Nat,
         j < p, l * (p - 1) < t
  PROVE  l * j \in 0..(t - 1) /\ (l * j) \div l = j
BY SMTT(30)

\* Products of l grow with the factor.
LEMMA Products ==
  ASSUME NEW a \in Nat, NEW b \in Nat, NEW l \in Nat \ {0}
  PROVE  /\ l * a \in Nat /\ l * b \in Nat
         /\ a <= b => l * a <= l * b
         /\ a < b => l * a + l <= l * b
         /\ l * (a + 1) = l * a + l
         /\ l * a > 0 <=> a > 0
<1>1. l * a \in Nat /\ l * b \in Nat
  BY SMTT(30)
<1>2. a <= b => l * a <= l * b
  BY SMTT(30)
<1>3. a < b => l * a + l <= l * b
  BY SMTT(30)
<1>4. l * (a + 1) = l * a + l
  BY SMTT(30)
<1>5. l * a > 0 <=> a > 0
  BY SMTT(30)
<1> QED
  BY <1>1, <1>2, <1>3, <1>4, <1>5

\* The pages of size l, numbered from 0, on which the first t rows lie.
Occupied(t, l) == { i \div l : i \in 0..(t - 1) }

\* The formula of total_pages counts them.
LEMMA PagesCounted ==
  ASSUME NEW t \in Nat, NEW l \in Nat \ {0}, NEW p,
         p = IF t > 0 THEN (t + l - 1) \div l ELSE 0
  PROVE  /\ p \in Nat /\ t <= l * p
         /\ p > 0 => l * (p - 1) < t
         /\ p = Cardinality(Occupied(t, l))
<1>1. CASE t = 0
  <2>1. p = 0 /\ Occupied(t, l) = {}
    BY <1>1 DEF Occupied
  <2>2. l * 0 = 0
    OBVIOUS
  <2> QED
    BY <1>1, <2>1, <2>2, FS_EmptySet
<1>2. CASE t # 0
  <2>1. p = (t + l - 1) \div l
    BY <1>2
  <2>2. p \in Nat \ {0} /\ l * (p - 1) < t /\ t <= l * p
    BY <1>2, <2>1, Ceiling
  <2> DEFINE numbers == { i \div l : i \in 0..(t - 1) }
  <2>3. numbers \subseteq 0..(p - 1)
    <3> SUFFICES ASSUME NEW i \in 0..(t - 1) PROVE i \div l \in 0..(p - 1)
      OBVIOUS
    <3>1. i \in Nat /\ i < t
      OBVIOUS
    <3> QED
      BY <2>2, <3>1, PageBefore
  <2>4. 0..(p - 1) \subseteq numbers
    <3> SUFFICES ASSUME NEW j \in 0..(p - 1) PROVE \E i \in 0..(t - 1) : i \div l = j
      OBVIOUS
    <3>1. p \in Nat /\ j \in Nat /\ j < p
      BY <2>2
    <3>2. l * j \in 0..(t - 1) /\ (l * j) \div l = j
      BY <2>2, <3>1, FirstOfPage
    <3> QED
      BY <3>2
  <2>5. Cardinality(0..(p - 1)) = p
    <3> HIDE <2>1
    <3>1. p \in Nat /\ p - 1 \in Int /\ 0 \in Int
      BY <2>2
    <3>2. Cardinality(0..(p - 1)) = IF 0 > p - 1 THEN 0 ELSE (p - 1) - 0 + 1
      BY <3>1, FS_Interval
    <3> QED
      BY <2>2, <3>2
  <2>6. numbers = 0..(p - 1)
    BY <2>3, <2>4
  <2> QED
    BY <2>2, <2>5, <2>6 DEF Occupied
<1> QED
  BY <1>1, <1>2

\* Where the page that begins at offset s stands among the p pages of t rows;
\* q is its number, from 0.
LEMMA Numbers ==
  ASSUME NEW t \in Nat, NEW l \in Nat \ {0}, NEW s \in Nat, NEW q \in Nat, NEW p \in Nat,
         l * q <= s, s < l * q + l, t <= l * p, p > 0 => l * (p - 1) < t
  PROVE  /\ s < t => q + 1 <= p
         /\ s + l < t => q + 1 < p
         /\ ~ (s + l < t) => p <= q + 1 + 1
         /\ q + 1 > 1 => s > 0
         /\ l * q = s =>
              /\ q + 1 <= p => s < t
              /\ q + 1 < p => s + l < t
              /\ s > 0 => q + 1 > 1
<1>1. l * q \in Nat /\ l * p \in Nat /\ (l * q > 0 <=> q > 0)
  BY Products
<1>2. q + 1 \in Nat /\ q + 2 \in Nat /\ l * (q + 1) = l * q + l /\ l * (q + 2) = l * q + l + l
  <2>1. l * (q + 1) = l * q + l
    BY Products
  <2>2. l * ((q + 1) + 1) = l * (q + 1) + l
    <3> q + 1 \in Nat
      OBVIOUS
    <3> QED
      BY Products
  <2>3. (q + 1) + 1 = q + 2
    OBVIOUS
  <2> QED
    BY <1>1, <2>1, <2>2, <2>3
<1>3. p <= q => l * p <= l * q
  BY Products
<1>4. p <= q + 1 => l * p <= l * q + l
  BY <1>2, Products
<1>5. p > q + 2 => l * q + l + l <= l * (p - 1)
  <2> SUFFICES ASSUME p > q + 2 PROVE l * q + l + l <= l * (p - 1)
    OBVIOUS
  <2>1. p - 1 \in Nat /\ q + 2 <= p - 1
    OBVIOUS
  <2>2. l * (q + 2) <= l * (p - 1)
    BY <1>2, <2>1, Products
  <2> QED
    BY <1>2, <2>2
<1>6. q < p => l * q <= l * (p - 1)
  <2> SUFFICES ASSUME q < p PROVE l * q <= l * (p - 1)
    OBVIOUS
  <2>1. p - 1 \in Nat /\ q <= p - 1
    OBVIOUS
  <2> QED
    BY <2>1, Products
<1>7. q + 1 < p => l * q + l <= l * (p - 1)
  <2> SUFFICES ASSUME q + 1 < p PROVE l * q + l <= l * (p - 1)
    OBVIOUS
  <2>1. p - 1 \in Nat /\ q + 1 <= p - 1
    OBVIOUS
  <2>2. l * (q + 1) <= l * (p - 1)
    BY <1>2, <2>1, Products
  <2> QED
    BY <1>2, <2>2
<1>8. p > 0 => l * (p - 1) \in Nat
  <2> SUFFICES ASSUME p > 0 PROVE l * (p - 1) \in Nat
    OBVIOUS
  <2>1. p - 1 \in Nat
    OBVIOUS
  <2> QED
    BY <2>1, Products
<1> DEFINE a == l * q
           b == l * p
           c == l * (p - 1)
<1> HIDE DEF a, b, c
<1>9. /\ a \in Nat /\ b \in Nat /\ (p > 0 => c \in Nat) /\ (a > 0 <=> q > 0)
      /\ a <= s /\ s < a + l /\ t <= b /\ (p > 0 => c < t)
      /\ p <= q => b <= a
      /\ p <= q + 1 => b <= a + l
      /\ p > q + 2 => a + l + l <= c
      /\ q < p => a <= c
      /\ q + 1 < p => a + l <= c
  BY <1>1, <1>3, <1>4, <1>5, <1>6, <1>7, <1>8 DEF a, b, c
<1>10. /\ s < t => q + 1 <= p
       /\ s + l < t => q + 1 < p
       /\ ~ (s + l < t) => p <= q + 1 + 1
       /\ q + 1 > 1 => s > 0
       /\ a = s =>
            /\ q + 1 <= p => s < t
            /\ q + 1 < p => s + l < t
            /\ s > 0 => q + 1 > 1
  BY <1>9
<1> QED
  BY <1>10 DEF a

LEMMA ListedRows ==
  ASSUME TypeOK
  PROVE  /\ Listed \subseteq Rows /\ IsFiniteSet(Listed) /\ Cardinality(Listed) \in Nat
         /\ \A x \in Listed : row[x] \in Live /\ row[x].key \in Keys /\ row[x].key \in Int
<1>1. Listed \subseteq Rows
  BY DEF Listed
<1>2. IsFiniteSet(Listed) /\ Cardinality(Listed) \in Nat
  BY <1>1, PagesAssumption, FS_Subset, FS_CardinalityType
<1>3. ASSUME NEW x \in Listed
      PROVE  row[x] \in Live /\ row[x].key \in Keys /\ row[x].key \in Int
  <2>1. row[x] \in RowStates /\ row[x].state = "live"
    BY <1>3 DEF Listed, TypeOK
  <2>2. row[x] \in Live
    BY <2>1 DEF RowStates, Absent, Deleted
  <2> QED
    BY <2>2, PagesAssumption DEF Live
<1> QED
  BY <1>1, <1>2, <1>3

LEMMA RankType ==
  ASSUME TypeOK, NEW x
  PROVE  /\ Ahead(x) \subseteq Listed /\ IsFiniteSet(Ahead(x)) /\ Rank(x) \in Nat
<1>1. Ahead(x) \subseteq Listed
  BY DEF Ahead
<1> QED
  BY <1>1, ListedRows, FS_Subset, FS_CardinalityType DEF Rank

\* Whatever order the sort leaves open, an untied row is among the first n
\* exactly if its rank is less than n.
LEMMA PrefixRank ==
  ASSUME TypeOK, NEW x \in Listed, ~IsTied(x), NEW n \in Nat, NEW D, IsPrefix(D, n)
  PROVE  x \in D <=> Rank(x) < n
<1>1. /\ D \subseteq Listed /\ IsFiniteSet(D) /\ Cardinality(D) \in Nat
      /\ Cardinality(D) = IF Cardinality(Listed) < n THEN Cardinality(Listed) ELSE n
      /\ \A y \in D, z \in Listed \ D : ~Before(row[z].key, row[y].key)
  BY ListedRows, FS_Subset, FS_CardinalityType DEF IsPrefix
<1>2. IsFiniteSet(Ahead(x)) /\ Rank(x) \in Nat /\ Ahead(x) \subseteq Listed
  BY RankType
<1>3. x \notin Ahead(x)
  BY ListedRows DEF Ahead, Before
<1>4. \A y \in Listed \ {x} : ~Before(row[x].key, row[y].key) => y \in Ahead(x)
  BY ListedRows DEF IsTied, Before, Ahead
<1>5. Cardinality(Ahead(x) \union {x}) = Rank(x) + 1
  BY <1>2, <1>3, FS_AddElement DEF Rank
<1>6. ASSUME x \in D PROVE Rank(x) < n
  <2>1. Ahead(x) \union {x} \subseteq D
    BY <1>1, <1>6 DEF Ahead
  <2>2. Rank(x) + 1 <= Cardinality(D)
    BY <1>1, <1>5, <2>1, FS_Subset
  <2> QED
    BY <1>1, <1>2, <2>2, ListedRows
<1>7. ASSUME x \notin D PROVE ~(Rank(x) < n)
  <2>1. D \subseteq Ahead(x)
    BY <1>1, <1>4, <1>7
  <2>2. Cardinality(D) <= Rank(x)
    BY <1>2, <2>1, FS_Subset DEF Rank
  <2>3. Rank(x) + 1 <= Cardinality(Listed)
    <3>1. Ahead(x) \union {x} \subseteq Listed
      BY <1>2
    <3> QED
      BY <1>5, <3>1, ListedRows, FS_Subset
  <2> QED
    BY <1>1, <1>2, <2>2, <2>3, ListedRows
<1> QED
  BY <1>6, <1>7

\* A change of the table that takes no row from before a steady row does not
\* lower its rank; one that puts none before it does not raise it.
LEMMA RanksMove ==
  ASSUME TypeOK, TypeOK', order' = order,
         NEW x \in Listed, x \in Listed', row'[x].key = row[x].key
  PROVE  /\ ~Disturbed(x, Gone(Listed, row, Listed', row')) => Rank(x) <= Rank(x)'
         /\ ~Disturbed(x, Gone(Listed', row', Listed, row)) => Rank(x)' <= Rank(x)
<1>1. \A k, l : Before(k, l)' <=> Before(k, l)
  BY DEF Before
<1>2. /\ IsFiniteSet(Ahead(x)) /\ Rank(x) = Cardinality(Ahead(x))
      /\ IsFiniteSet(Ahead(x)') /\ Rank(x)' = Cardinality(Ahead(x)')
  <2>1. IsFiniteSet(Ahead(x)) /\ Rank(x) = Cardinality(Ahead(x))
    BY RankType DEF Rank
  <2>2. Ahead(x)' \subseteq Rows
    BY DEF Ahead, Listed
  <2> QED
    BY <2>1, <2>2, PagesAssumption, FS_Subset DEF Rank
<1>3. ASSUME ~Disturbed(x, Gone(Listed, row, Listed', row')) PROVE Rank(x) <= Rank(x)'
  <2>1. Ahead(x) \subseteq Ahead(x)'
    BY <1>1, <1>3 DEF Ahead, Disturbed, Gone
  <2> QED
    BY <1>2, <2>1, FS_Subset
<1>4. ASSUME ~Disturbed(x, Gone(Listed', row', Listed, row)) PROVE Rank(x)' <= Rank(x)
  <2>1. Ahead(x)' \subseteq Ahead(x)
    BY <1>1, <1>4 DEF Ahead, Disturbed, Gone
  <2> QED
    BY <1>2, <2>1, FS_Subset
<1> QED
  BY <1>3, <1>4

-----------------------------------------------------------------------------
(* Each action keeps the invariant.                                        *)

LEMMA Starts == Init => IInv
<1> SUFFICES ASSUME Init PROVE IInv
  OBVIOUS
<1> USE PagesAssumption DEF Init
<1>1. TypeOK
  <2>1. Cardinality(page) = 0
    BY FS_EmptySet
  <2>2. limit \in 1..MaxLimit /\ writes \in 0..MaxWrites /\ Cardinality(page) <= limit
    BY <2>1
  <2> QED
    BY <2>2 DEF TypeOK
<1>2. IdleIsBlank /\ SteadyIsListed /\ WalkKeepsUp /\ CountIsFresh
  BY DEF IdleIsBlank, SteadyIsListed, WalkKeepsUp, CountIsFresh
<1>3. OnlyShiftsHide /\ OnlyEntriesRepeat /\ PageFitsTotal
  BY DEF OnlyShiftsHide, OnlyEntriesRepeat, PageFitsTotal
<1> QED
  BY <1>1, <1>2, <1>3 DEF IInv

LEMMA Opens == IInv /\ Open => IInv'
<1> SUFFICES ASSUME IInv, Open PROVE IInv'
  OBVIOUS
<1>1. TypeOK /\ IdleIsBlank
  BY DEF IInv
<1>2. /\ pc' = "count" /\ row' = row /\ writes' = writes
      /\ filter' \subseteq Facets /\ order' \in {"asc", "desc"} /\ limit' \in 1..MaxLimit
      /\ skip' \in 0..MaxSkip /\ total' = total /\ page' = {} /\ shown' = {} /\ twice' = {}
      /\ before' = { x \in Listed' : Rank(x)' < skip' }
      /\ steady' = { x \in Listed' : ~IsTied(x)' }
      /\ left' = {} /\ entered' = {} /\ late' = {} /\ torn' = torn
  BY <1>1 DEF Open, Filters, IdleIsBlank, tableVars
<1>3. steady' \subseteq Rows /\ before' \subseteq Rows
  BY <1>2 DEF Listed
<1>4. TypeOK'
  BY <1>1, <1>2, <1>3, FS_EmptySet, PagesAssumption DEF TypeOK
<1>5. SteadyIsListed'
  BY <1>2 DEF SteadyIsListed
<1>6. WalkKeepsUp'
  <2>1. Position' = skip' /\ skip' \in Nat /\ Passed' = before'
    BY <1>2, PagesAssumption DEF Position, Passed
  <2>2. \A x : (Rank(x)') \in Nat
    <3> SUFFICES ASSUME NEW x PROVE (Rank(x)') \in Nat
      OBVIOUS
    <3>1. Ahead(x)' \subseteq Rows
      BY DEF Ahead, Listed
    <3> QED
      BY <3>1, PagesAssumption, FS_Subset, FS_CardinalityType DEF Rank
  <2>3. ASSUME NEW x \in steady'
        PROVE  IF x \in Passed' THEN Rank(x)' < Position' ELSE Position' <= Rank(x)'
    BY <1>2, <2>1, <2>2
  <2> QED
    BY <2>3 DEF WalkKeepsUp
<1>7. IdleIsBlank' /\ CountIsFresh' /\ OnlyShiftsHide' /\ OnlyEntriesRepeat' /\ PageFitsTotal'
  BY <1>2 DEF IdleIsBlank, CountIsFresh, OnlyShiftsHide, OnlyEntriesRepeat, PageFitsTotal
<1> QED
  BY <1>4, <1>5, <1>6, <1>7 DEF IInv

\* What a step that reads leaves alone.
SameList == row' = row /\ filter' = filter /\ order' = order /\ limit' = limit

LEMMA ListStays ==
  ASSUME SameList
  PROVE  /\ Listed' = Listed
         /\ \A x : Ahead(x)' = Ahead(x) /\ Rank(x)' = Rank(x) /\ (IsTied(x)' <=> IsTied(x))
         /\ \A k, l : Before(k, l)' <=> Before(k, l)
         /\ \A x, keys : Disturbed(x, keys)' <=> Disturbed(x, keys)
BY DEF SameList, Listed, Ahead, Rank, IsTied, Before, Disturbed

LEMMA Counts == IInv /\ Count => IInv'
<1> SUFFICES ASSUME IInv, Count PROVE IInv'
  OBVIOUS
<1>1. /\ TypeOK /\ SteadyIsListed /\ WalkKeepsUp /\ OnlyEntriesRepeat
  BY DEF IInv
<1>2. /\ pc = "count" /\ pc' = "select" /\ SameList /\ writes' = writes
      /\ total' = Cardinality(Listed) /\ skip' = skip /\ page' = page
      /\ shown' = shown /\ twice' = twice /\ steady' = steady
      /\ before' = before /\ left' = left /\ entered' = entered /\ late' = {} /\ torn' = FALSE
  BY DEF Count, tableVars, queryVars, SameList
<1>3. TypeOK'
  BY <1>1, <1>2, ListedRows DEF TypeOK, SameList
<1>4. SteadyIsListed' /\ OnlyEntriesRepeat'
  BY <1>1, <1>2, ListStays DEF SteadyIsListed, OnlyEntriesRepeat, SameList
<1>5. WalkKeepsUp'
  BY <1>1, <1>2, ListStays DEF WalkKeepsUp, Position, Passed
<1>6. CountIsFresh'
  <2>1. ASSUME NEW x \in steady PROVE Rank(x) < Cardinality(Listed)
    <3>1. x \in Listed \ Ahead(x) /\ Ahead(x) \subseteq Listed \ {x}
      BY <1>1, ListedRows DEF SteadyIsListed, Ahead, Before
    <3>2. Cardinality(Listed \ {x}) = Cardinality(Listed) - 1
      BY <1>1, <3>1, ListedRows, FS_RemoveElement
    <3>3. Rank(x) <= Cardinality(Listed \ {x})
      BY <1>1, <3>1, ListedRows, FS_Subset DEF Rank
    <3> QED
      BY <1>1, <3>2, <3>3, ListedRows, RankType
  <2> QED
    BY <1>2, <2>1, ListStays DEF CountIsFresh
<1>7. IdleIsBlank' /\ OnlyShiftsHide' /\ PageFitsTotal'
  BY <1>2 DEF IdleIsBlank, OnlyShiftsHide, PageFitsTotal
<1> QED
  BY <1>3, <1>4, <1>5, <1>6, <1>7 DEF IInv

\* The rows of a page, and how many they are.
LEMMA PageRows ==
  ASSUME TypeOK, NEW D, NEW E, IsPrefix(D, skip), IsPrefix(E, skip + limit), D \subseteq E
  PROVE  /\ E \ D \subseteq Listed
         /\ Cardinality(E \ D) = IF Cardinality(Listed) <= skip THEN 0
                                 ELSE IF skip + limit < Cardinality(Listed) THEN limit
                                 ELSE Cardinality(Listed) - skip
         /\ \A x \in Listed : ~IsTied(x) =>
              (x \in E \ D <=> skip <= Rank(x) /\ Rank(x) < skip + limit)
<1>1. skip \in Nat /\ limit \in Nat /\ skip + limit \in Nat /\ Cardinality(Listed) \in Nat
  BY ListedRows, PagesAssumption DEF TypeOK
<1>2. /\ E \subseteq Listed /\ D \subseteq Listed
      /\ Cardinality(D) = IF Cardinality(Listed) < skip THEN Cardinality(Listed) ELSE skip
      /\ Cardinality(E) = IF Cardinality(Listed) < skip + limit THEN Cardinality(Listed)
                          ELSE skip + limit
  BY DEF IsPrefix
<1>3. IsFiniteSet(E) /\ IsFiniteSet(D)
  BY <1>2, ListedRows, FS_Subset
<1>4. Cardinality(E \ D) = Cardinality(E) - Cardinality(D)
  <2>1. E \intersect D = D
    OBVIOUS
  <2> QED
    BY <1>3, <2>1, FS_Difference
<1>5. Cardinality(E \ D) = IF Cardinality(Listed) <= skip THEN 0
                           ELSE IF skip + limit < Cardinality(Listed) THEN limit
                           ELSE Cardinality(Listed) - skip
  BY <1>1, <1>2, <1>4
<1>6. ASSUME NEW x \in Listed, ~IsTied(x)
      PROVE  x \in E \ D <=> skip <= Rank(x) /\ Rank(x) < skip + limit
  BY <1>1, <1>6, PrefixRank, RankType
<1> QED
  BY <1>2, <1>5, <1>6

LEMMA Selects == IInv /\ Select => IInv'
<1> SUFFICES ASSUME IInv, Select PROVE IInv'
  OBVIOUS
<1>1. /\ TypeOK /\ SteadyIsListed /\ WalkKeepsUp /\ CountIsFresh /\ OnlyEntriesRepeat
  BY DEF IInv
<1>2. /\ pc = "select" /\ pc' = "page" /\ SameList /\ writes' = writes
      /\ total' = total /\ skip' = skip
      /\ shown' = shown \union page' /\ twice' = twice \union (shown \intersect page')
      /\ before' = before /\ steady' = steady
      /\ left' = left /\ entered' = entered /\ late' = late /\ torn' = torn
  BY DEF Select, Fetch, tableVars, queryVars, changes, SameList
<1>3. /\ page' \subseteq Listed
      /\ Cardinality(page') = IF Cardinality(Listed) <= skip THEN 0
                              ELSE IF skip + limit < Cardinality(Listed) THEN limit
                              ELSE Cardinality(Listed) - skip
      /\ \A x \in Listed : ~IsTied(x) =>
           (x \in page' <=> skip <= Rank(x) /\ Rank(x) < skip + limit)
  BY <1>1, PageRows DEF Select, Fetch
<1>4. /\ skip \in Nat /\ limit \in Nat /\ total \in Nat /\ Cardinality(Listed) \in Nat
      /\ Listed \subseteq Rows /\ \A x : Rank(x) \in Nat
  BY <1>1, ListedRows, RankType, PagesAssumption DEF TypeOK
<1>5. \A x \in steady : x \in Listed /\ ~IsTied(x)
  BY <1>1 DEF SteadyIsListed
<1>6. \A x \in steady :
        /\ x \notin Passed /\ ~Disturbed(x, left) => skip <= Rank(x)
        /\ x \in Passed /\ ~Disturbed(x, entered) => Rank(x) < skip
  BY <1>1, <1>2 DEF WalkKeepsUp, Position, Passed
<1>7. TypeOK'
  <2>1. Cardinality(page') <= limit
    BY <1>3, <1>4
  <2>2. page' \subseteq Rows /\ shown' \subseteq Rows /\ twice' \subseteq shown'
    BY <1>1, <1>2, <1>3, <1>4 DEF TypeOK
  <2> QED
    BY <1>1, <1>2, <2>1, <2>2 DEF TypeOK, SameList
<1>8. SteadyIsListed'
  BY <1>1, <1>2, ListStays DEF SteadyIsListed
<1>9. WalkKeepsUp'
  <2>1. Position' = skip + limit
    BY <1>2 DEF Position, SameList
  <2>2. ASSUME NEW x \in steady
        PROVE  /\ x \notin Passed' /\ ~Disturbed(x, left) => skip + limit <= Rank(x)
               /\ x \in Passed' /\ ~Disturbed(x, entered) => Rank(x) < skip + limit
    BY <1>2, <1>3, <1>4, <1>5, <1>6 DEF Passed
  <2> QED
    BY <1>2, <2>1, <2>2, ListStays DEF WalkKeepsUp
<1>10. CountIsFresh'
  <2>1. ASSUME NEW x \in steady \ Passed', ~(skip + limit < total)
        PROVE  Disturbed(x, left \union late)
    <3>1. CASE Disturbed(x, left) \/ Disturbed(x, late)
      BY <3>1 DEF Disturbed
    <3>2. CASE ~Disturbed(x, left) /\ ~Disturbed(x, late)
      <4>1. Rank(x) < total
        BY <1>1, <1>2, <2>1, <3>2 DEF CountIsFresh
      <4> QED
        BY <1>2, <1>3, <1>4, <1>5, <1>6, <2>1, <3>2, <4>1 DEF Passed
    <3> QED
      BY <3>1, <3>2
  <2> QED
    BY <1>2, <2>1, ListStays DEF CountIsFresh, HasNext, SameList
<1>11. OnlyEntriesRepeat'
  <2>1. \A x \in steady \intersect (Passed \intersect page') : Disturbed(x, entered)
    BY <1>3, <1>4, <1>5, <1>6
  <2>2. twice' \union (before' \intersect shown')
          = (twice \union (before \intersect shown)) \union (Passed \intersect page')
    BY <1>2 DEF Passed
  <2> QED
    BY <1>1, <1>2, <2>1, <2>2, ListStays DEF OnlyEntriesRepeat, Disturbed, SameList
<1>12. PageFitsTotal'
  <2>1. ~torn => total = Cardinality(Listed)
    BY <1>1, <1>2 DEF CountIsFresh
  <2> QED
    BY <1>2, <1>3, <1>4, <2>1 DEF PageFitsTotal, HasNext, SameList
<1>13. IdleIsBlank' /\ OnlyShiftsHide'
  BY <1>2 DEF IdleIsBlank, OnlyShiftsHide
<1> QED
  BY <1>7, <1>8, <1>9, <1>10, <1>11, <1>12, <1>13 DEF IInv

LEMMA Turns == IInv /\ NextPage => IInv'
<1> SUFFICES ASSUME IInv, NextPage PROVE IInv'
  OBVIOUS
<1>1. /\ TypeOK /\ SteadyIsListed /\ WalkKeepsUp /\ CountIsFresh /\ OnlyEntriesRepeat
  BY DEF IInv
<1>2. /\ pc = "page" /\ SameList /\ writes' = writes
      /\ IF HasNext THEN pc' = "count" /\ skip' = skip + limit
         ELSE pc' = "done" /\ skip' = skip
      /\ total' = total /\ page' = page /\ shown' = shown /\ twice' = twice
      /\ before' = before /\ steady' = steady
      /\ left' = left /\ entered' = entered /\ late' = late /\ torn' = torn
  BY DEF NextPage, tableVars, queryVars, changes, SameList
<1>3. TypeOK'
  BY <1>1, <1>2, PagesAssumption DEF TypeOK, SameList
<1>4. SteadyIsListed' /\ OnlyEntriesRepeat'
  BY <1>1, <1>2, ListStays DEF SteadyIsListed, OnlyEntriesRepeat, SameList
<1>5. WalkKeepsUp'
  BY <1>1, <1>2, ListStays DEF WalkKeepsUp, Position, Passed
<1>6. OnlyShiftsHide'
  BY <1>1, <1>2, ListStays DEF CountIsFresh, OnlyShiftsHide, Disturbed, SameList, Passed
<1>7. IdleIsBlank' /\ CountIsFresh' /\ PageFitsTotal'
  BY <1>2 DEF IdleIsBlank, CountIsFresh, PageFitsTotal
<1> QED
  BY <1>3, <1>4, <1>5, <1>6, <1>7 DEF IInv

\* Steady rows through a change of the table.
LEMMA SteadyMoves ==
  ASSUME TypeOK, TypeOK', SteadyIsListed, NEW z \in Rows, Write(z), NEW x \in steady'
  PROVE  /\ x \in steady /\ row'[x].key = row[x].key
         /\ ~Disturbed(x, left') => ~Disturbed(x, left) /\ Rank(x) <= Rank(x)'
         /\ ~Disturbed(x, entered') => ~Disturbed(x, entered) /\ Rank(x)' <= Rank(x)
         /\ pc = "select" /\ ~Disturbed(x, late') => ~Disturbed(x, late) /\ Rank(x)' <= Rank(x)
<1> DEFINE out == Gone(Listed, row, Listed', row')
           in == Gone(Listed', row', Listed, row)
<1>1. /\ order' = order /\ left' = left \union out /\ entered' = entered \union in
      /\ late' = IF pc = "select" THEN late \union in ELSE late
      /\ x \in steady /\ x \in Listed' /\ row'[x].key = row[x].key
  BY DEF Write, walkVars, queryVars
<1>2. x \in Listed
  BY <1>1 DEF SteadyIsListed
<1>3. /\ ~Disturbed(x, out) => Rank(x) <= Rank(x)'
      /\ ~Disturbed(x, in) => Rank(x)' <= Rank(x)
  BY <1>1, <1>2, RanksMove
<1> HIDE DEF out, in
<1> QED
  BY <1>1, <1>3 DEF Disturbed

LEMMA Writes == ASSUME IInv, NEW z \in Rows, Write(z) PROVE IInv'
<1>1. /\ TypeOK /\ IdleIsBlank /\ SteadyIsListed /\ WalkKeepsUp /\ CountIsFresh
      /\ OnlyShiftsHide /\ OnlyEntriesRepeat /\ PageFitsTotal
  BY DEF IInv
<1>2. /\ pc' = pc /\ filter' = filter /\ order' = order /\ limit' = limit /\ skip' = skip
      /\ total' = total /\ page' = page /\ shown' = shown /\ twice' = twice /\ before' = before
      /\ pc # "idle" /\ torn' = (torn \/ pc = "select")
  BY DEF Write, walkVars, queryVars
<1>3. TypeOK'
  <2>1. row' \in [Rows -> RowStates]
    BY <1>1 DEF Write, Outcomes, TypeOK, RowStates
  <2>2. writes' \in 0..MaxWrites
    BY <1>1, PagesAssumption DEF Write, TypeOK
  <2>3. steady' \subseteq Rows
    BY <1>1 DEF Write, TypeOK
  <2>4. Gone(Listed, row, Listed', row') \subseteq Keys
    BY <1>1, ListedRows DEF Gone
  <2>5. \A y \in Listed' : row'[y].key \in Keys
    BY <2>1 DEF Listed, RowStates, Absent, Deleted, Live
  <2>6. Gone(Listed', row', Listed, row) \subseteq Keys
    BY <2>5 DEF Gone
  <2>7. left' \subseteq Keys /\ entered' \subseteq Keys /\ late' \subseteq entered'
    BY <1>1, <2>4, <2>6 DEF Write, TypeOK
  <2>8. torn' \in BOOLEAN
    BY <1>1, <1>2 DEF TypeOK
  <2> QED
    BY <1>1, <1>2, <2>1, <2>2, <2>3, <2>7, <2>8 DEF TypeOK
<1>4. /\ \A x \in steady' :
           /\ x \in steady /\ row'[x].key = row[x].key
           /\ ~Disturbed(x, left') => ~Disturbed(x, left) /\ Rank(x) <= Rank(x)'
           /\ ~Disturbed(x, entered') => ~Disturbed(x, entered) /\ Rank(x)' <= Rank(x)
           /\ pc = "select" /\ ~Disturbed(x, late') => ~Disturbed(x, late) /\ Rank(x)' <= Rank(x)
  BY <1>1, <1>3, SteadyMoves
<1>5. /\ \A x : Rank(x) \in Nat
      /\ skip \in Nat /\ limit \in Nat /\ total \in Nat
  BY <1>1, RankType, PagesAssumption DEF TypeOK
<1>6. \A x : Rank(x)' \in Nat
  <2> SUFFICES ASSUME NEW x PROVE Rank(x)' \in Nat
    OBVIOUS
  <2>1. Ahead(x)' \subseteq Rows
    BY DEF Ahead, Listed
  <2> QED
    BY <2>1, PagesAssumption, FS_Subset, FS_CardinalityType DEF Rank
<1>8. SteadyIsListed'
  BY DEF Write, SteadyIsListed
<1>9. IdleIsBlank'
  BY <1>2 DEF IdleIsBlank
<1>10. WalkKeepsUp'
  <2>1. Position' = Position /\ Position \in Nat
    BY <1>2, <1>5 DEF Position
  <2>2. ASSUME NEW x \in steady', pc \in {"count", "select", "page"}
        PROVE  /\ x \notin Passed /\ ~Disturbed(x, left') => Position <= Rank(x)'
               /\ x \in Passed /\ ~Disturbed(x, entered') => Rank(x)' < Position
    BY <1>1, <1>4, <1>5, <1>6, <2>1, <2>2 DEF WalkKeepsUp
  <2>3. \A x \in steady' :
          /\ Disturbed(x, left)' <=> Disturbed(x, left')
          /\ Disturbed(x, entered)' <=> Disturbed(x, entered')
    BY <1>2, <1>4 DEF Disturbed, Before
  <2> QED
    BY <1>2, <2>1, <2>2, <2>3 DEF WalkKeepsUp, Passed
<1>11. CountIsFresh'
  <2>1. \A x \in steady' :
          /\ Disturbed(x, late)' <=> Disturbed(x, late')
          /\ Disturbed(x, left \union late)' <=> Disturbed(x, left' \union late')
    BY <1>2, <1>4 DEF Disturbed, Before
  <2>2. pc = "select" => torn'
    BY <1>2
  <2>3. ASSUME NEW x \in steady', pc = "select", ~Disturbed(x, late')
        PROVE  Rank(x)' < total
    BY <1>1, <1>4, <1>5, <1>6, <2>3 DEF CountIsFresh
  <2>4. left \subseteq left' /\ late \subseteq late'
    BY DEF Write
  <2>5. ASSUME NEW x \in steady' \ Passed, pc = "page", ~HasNext
        PROVE  Disturbed(x, left' \union late')
    <3>1. Disturbed(x, left \union late)
      BY <1>1, <1>4, <2>5 DEF CountIsFresh
    <3> QED
      BY <2>4, <3>1 DEF Disturbed
  <2> QED
    BY <1>2, <2>1, <2>2, <2>3, <2>5 DEF CountIsFresh, HasNext, Passed
<1>12. OnlyShiftsHide'
  <2>1. left \subseteq left' /\ late \subseteq late'
    BY DEF Write
  <2> QED
    BY <1>1, <1>2, <1>4, <2>1 DEF OnlyShiftsHide, Before, Passed
<1>13. OnlyEntriesRepeat'
  <2>1. entered \subseteq entered'
    BY DEF Write
  <2> QED
    BY <1>1, <1>2, <1>4, <2>1 DEF OnlyEntriesRepeat, Before
<1>14. PageFitsTotal'
  BY <1>1, <1>2 DEF PageFitsTotal, HasNext
<1> QED
  BY <1>3, <1>8, <1>9, <1>10, <1>11, <1>12, <1>13, <1>14 DEF IInv

LEMMA WalkStep == IInv /\ [Next]_vars => IInv'
<1> SUFFICES ASSUME IInv, [Next]_vars PROVE IInv'
  OBVIOUS
<1>1. CASE UNCHANGED vars
  <2>1. /\ SameList /\ UNCHANGED <<writes, pc, skip, total, page, shown, twice>>
        /\ UNCHANGED changes
    BY <1>1 DEF vars, tableVars, walkVars, queryVars, SameList
  <2>2. TypeOK' /\ IdleIsBlank' /\ PageFitsTotal'
    BY <2>1 DEF IInv, TypeOK, IdleIsBlank, PageFitsTotal, HasNext, SameList, changes
  <2>3. SteadyIsListed' /\ WalkKeepsUp' /\ CountIsFresh'
    BY <2>1, ListStays
    DEF IInv, SteadyIsListed, WalkKeepsUp, Position, CountIsFresh, HasNext, Passed, SameList,
        changes
  <2>4. OnlyShiftsHide' /\ OnlyEntriesRepeat'
    BY <2>1, ListStays
    DEF IInv, OnlyShiftsHide, OnlyEntriesRepeat, Passed, SameList, changes
  <2> QED
    BY <2>2, <2>3, <2>4 DEF IInv
<1> QED
  BY <1>1, Opens, Counts, Selects, Turns, Writes DEF Next

-----------------------------------------------------------------------------
(* The results.                                                            *)

\* The inductive invariant of a walk holds, for every table, filter, order and
\* page size, and any number of changes.
THEOREM IInvHolds == Spec => []IInv
BY Starts, WalkStep, PTL DEF Spec

\* The variables stay in their types, and no page is larger than its limit.
THEOREM TypeCorrect == Spec => []TypeOK
<1>1. IInv => TypeOK
  BY DEF IInv
<1> QED
  BY <1>1, IInvHolds, PTL

\* Only a shift can hide an untied row that was listed all along
\* (items/repository.py:35-38).
THEOREM NothingIsMissed == Spec => []OnlyShiftsHide
<1>1. IInv => OnlyShiftsHide
  BY DEF IInv
<1> QED
  BY <1>1, IInvHolds, PTL

\* Only an entry before it can repeat such a row (items/repository.py:37).
THEOREM NothingIsRepeated == Spec => []OnlyEntriesRepeat
<1>1. IInv => OnlyEntriesRepeat
  BY DEF IInv
<1> QED
  BY <1>1, IInvHolds, PTL

\* An untorn page has the rows its total promises (items/repository.py:35-38).
THEOREM PagesFit == Spec => []PageFitsTotal
<1>1. IInv => PageFitsTotal
  BY DEF IInv
<1> QED
  BY <1>1, IInvHolds, PTL

\* The four formulas of Page agree as far as skip lets them (common.py:34-50).
LEMMA NumbersAgree == TypeOK => PageNumbersAgree
<1> SUFFICES ASSUME TypeOK
             PROVE  /\ TotalPages = Cardinality(Occupied(total, limit))
                    /\ skip < total => CurrentPage <= TotalPages
                    /\ HasNext => CurrentPage < TotalPages
                    /\ ~HasNext => TotalPages <= CurrentPage + 1
                    /\ CurrentPage > 1 => HasPrevious
                    /\ skip % limit = 0 =>
                         /\ CurrentPage <= TotalPages => skip < total
                         /\ CurrentPage < TotalPages => HasNext
                         /\ HasPrevious => CurrentPage > 1
  BY DEF PageNumbersAgree, Occupied
<1> DEFINE q == skip \div limit
<1>1. limit \in Nat \ {0} /\ skip \in Nat /\ total \in Nat
  BY PagesAssumption DEF TypeOK
<1>2. /\ q \in Nat /\ CurrentPage = q + 1
      /\ limit * q <= skip /\ skip < limit * q + limit
      /\ skip % limit = 0 => limit * q = skip
  BY <1>1, Division, Aligned DEF CurrentPage
<1> HIDE DEF q
<1>3. /\ TotalPages \in Nat /\ total <= limit * TotalPages
      /\ TotalPages > 0 => limit * (TotalPages - 1) < total
      /\ TotalPages = Cardinality(Occupied(total, limit))
  <2>1. TotalPages = IF total > 0 THEN (total + limit - 1) \div limit ELSE 0
    BY DEF TotalPages
  <2> HIDE DEF TotalPages
  <2> QED
    BY <1>1, <2>1, PagesCounted
<1>4. /\ skip < total => q + 1 <= TotalPages
      /\ skip + limit < total => q + 1 < TotalPages
      /\ ~ (skip + limit < total) => TotalPages <= q + 1 + 1
      /\ q + 1 > 1 => skip > 0
      /\ limit * q = skip =>
           /\ q + 1 <= TotalPages => skip < total
           /\ q + 1 < TotalPages => skip + limit < total
           /\ skip > 0 => q + 1 > 1
  BY <1>1, <1>2, <1>3, Numbers
<1>5. CurrentPage = q + 1 /\ (HasNext <=> skip + limit < total) /\ (HasPrevious <=> skip > 0)
  BY <1>2 DEF HasNext, HasPrevious
<1>6. skip % limit = 0 => limit * q = skip
  BY <1>2
<1>7. /\ skip < total => CurrentPage <= TotalPages
      /\ HasNext => CurrentPage < TotalPages
      /\ ~HasNext => TotalPages <= CurrentPage + 1
      /\ CurrentPage > 1 => HasPrevious
  BY ONLY <1>4, <1>5
<1>8. ASSUME skip % limit = 0
      PROVE  /\ CurrentPage <= TotalPages => skip < total
             /\ CurrentPage < TotalPages => HasNext
             /\ HasPrevious => CurrentPage > 1
  <2>1. limit * q = skip
    BY <1>6, <1>8
  <2>2. /\ q + 1 <= TotalPages => skip < total
        /\ q + 1 < TotalPages => skip + limit < total
        /\ skip > 0 => q + 1 > 1
    BY ONLY <1>4, <2>1, Zenon
  <2> QED
    BY ONLY <2>2, <1>5
<1> QED
  BY <1>3, <1>7, <1>8

\* For every skip, limit and total, what a page says of its number, of its
\* neighbours and of the number of pages is consistent in one direction, and in
\* both where skip is a multiple of limit (common.py:34-50).
THEOREM NumbersFit == Spec => []PageNumbersAgree
<1>1. IInv => PageNumbersAgree
  BY NumbersAgree DEF IInv
<1> QED
  BY <1>1, IInvHolds, PTL

-----------------------------------------------------------------------------
(* A list that does not change is shown as it is.                          *)

\* No row has left the list, entered it, or moved within it.
Quiet == left = {} /\ entered = {}

QuietListStays ==
  pc # "idle" /\ Quiet =>
    /\ steady = { x \in Listed : ~IsTied(x) }
    /\ shown \subseteq Listed

LEMMA QuietStep ==
  ASSUME TypeOK, IdleIsBlank, QuietListStays, [Next]_vars
  PROVE  QuietListStays'
<1>1. CASE Open
  BY <1>1 DEF Open, IdleIsBlank, QuietListStays
<1>2. CASE Count \/ NextPage \/ UNCHANGED vars
  <2>1. /\ SameList /\ steady' = steady /\ shown' = shown /\ left' = left
        /\ entered' = entered /\ (pc = "idle" => pc' = "idle")
    BY <1>2 DEF Count, NextPage, vars, tableVars, walkVars, queryVars, changes, SameList
  <2> QED
    BY <2>1, ListStays DEF QuietListStays, Quiet
<1>3. CASE Select
  <2>1. /\ SameList /\ steady' = steady /\ left' = left /\ entered' = entered /\ pc # "idle"
    BY <1>3 DEF Select, Fetch, tableVars, queryVars, changes, SameList
  <2>2. page' \subseteq Listed /\ shown' = shown \union page'
    BY <1>3 DEF Select, Fetch
  <2> QED
    BY <2>1, <2>2, ListStays DEF QuietListStays, Quiet
<1>4. ASSUME NEW z \in Rows, Write(z) PROVE QuietListStays'
  <2> SUFFICES ASSUME pc' # "idle", Quiet'
               PROVE  /\ steady' = { x \in Listed' : ~IsTied(x)' }
                      /\ shown' \subseteq Listed'
    BY DEF QuietListStays
  <2>1. /\ pc # "idle" /\ Quiet /\ shown' = shown
        /\ Gone(Listed, row, Listed', row') = {} /\ Gone(Listed', row', Listed, row) = {}
        /\ steady' = { y \in steady \intersect Listed' : row'[y].key = row[y].key /\ ~IsTied(y)' }
    BY <1>4 DEF Write, walkVars, Quiet
  <2>2. /\ \A y \in Listed : y \in Listed' /\ row'[y].key = row[y].key
        /\ \A y \in Listed' : y \in Listed /\ row'[y].key = row[y].key
    BY <2>1 DEF Gone
  <2>3. \A y \in Listed : IsTied(y)' <=> IsTied(y)
    BY <2>2 DEF IsTied
  <2> QED
    BY <2>1, <2>2, <2>3 DEF QuietListStays
<1> QED
  BY <1>1, <1>2, <1>3, <1>4 DEF Next

\* The pages of a list that did not change during the walk are the list from
\* the walk's first offset on: every row with a sort key of its own that lay
\* there is on exactly one of them, none that lay before it is on any, nor is
\* anything that is not listed (items/repository.py:35-38, common.py:34-50).
QuietWalkIsExact ==
  pc = "done" /\ Quiet =>
    /\ shown \subseteq Listed
    /\ \A x \in Listed : ~IsTied(x) => x \in IF x \in before THEN Rows \ shown ELSE shown \ twice

\* So it is after every walk, whatever changed elsewhere in the table meanwhile.
THEOREM QuietWalksAreExact == Spec => []QuietWalkIsExact
<1>1. Init => QuietListStays
  BY DEF Init, QuietListStays
<1>2. IInv /\ QuietListStays /\ [Next]_vars => QuietListStays'
  BY QuietStep DEF IInv
<1>3. IInv /\ QuietListStays => QuietWalkIsExact
  <2> SUFFICES ASSUME IInv, QuietListStays, pc = "done", Quiet
               PROVE  /\ shown \subseteq Listed
                      /\ \A x \in Listed : ~IsTied(x) =>
                           x \in IF x \in before THEN Rows \ shown ELSE shown \ twice
    BY DEF QuietWalkIsExact
  <2>1. shown \subseteq Listed /\ steady = { x \in Listed : ~IsTied(x) } /\ Listed \subseteq Rows
    BY DEF QuietListStays, Listed
  <2>2. left \union late = {} /\ entered = {}
    BY DEF Quiet, IInv, TypeOK
  <2>3. steady \ Passed = {} /\ steady \intersect (twice \union (before \intersect shown)) = {}
    BY <2>2 DEF IInv, OnlyShiftsHide, OnlyEntriesRepeat
  <2> QED
    BY <2>1, <2>3 DEF Passed
<1> QED
  BY <1>1, <1>2, <1>3, IInvHolds, PTL DEF Spec
=============================================================================
