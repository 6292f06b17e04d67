---------------------------- MODULE PagesProofs ----------------------------
(***************************************************************************)
(* Proofs about Pages for any table, any requests and any page sizes.      *)
(*                                                                         *)
(* The invariant says that the cursor cuts the walk in two: what was       *)
(* served is not below it, and a row that matched at the beginning is      *)
(* below it or shares its transaction with a row that was served.          *)
(***************************************************************************)
EXTENDS Pages, FiniteSetTheorems, TLAPS

Seen == served \cup page

TableInv == IsFiniteSet(table) /\ \A r \in table : IsRow(r)

HistoryInv ==
    /\ Seen \subseteq table /\ before \subseteq table
    /\ query \subseteq Request
    /\ \A p, q \in query : p = q
    /\ \A q \in query, r \in before : r.name = q.name /\ r.slot >= q.slot_gte

CursorInv ==
    /\ walk = "done" => cursor = {}
    /\ walk = "more" => cursor # {}
    /\ \A c, d \in cursor : c = d
    /\ \A c \in cursor : c.slot \in Nat /\ c.sig \in Nat
    /\ \A c \in cursor, s \in Seen : ~Below(s, c)

SeenOrBelow ==
    \A r \in before : \/ \E s \in Seen : SameTransaction(r, s)
                      \/ \E c \in cursor : Below(r, c)

PagesInv == TableInv /\ HistoryInv /\ CursorInv /\ PagesAreDisjoint /\ SeenOrBelow

-----------------------------------------------------------------------------
(* What one answer of query_instructions is.                               *)

\* The number of rows asked for is positive.
LEMMA ClampLimitType ==
    ASSUME NEW limit \in Int
    PROVE  ClampLimit(limit) \in Nat
BY PageSizes DEF ClampLimit

\* The answer is a part of the candidates, all of them if there are no more.
LEMMA AnswerRows ==
    ASSUME NEW rows, IsFiniteSet(rows), NEW n \in Nat, NEW top \in FirstRows(rows, n)
    PROVE  /\ top \subseteq rows
           /\ \A r \in top, s \in rows \ top : ~Below(r, s)
           /\ Cardinality(rows) <= n => top = rows
<1>1. top \in SUBSET rows /\ \A r \in top, s \in rows \ top : ~Below(r, s)
  BY Zenon DEF FirstRows
<1>2. Cardinality(top) = IF Cardinality(rows) > n THEN n ELSE Cardinality(rows)
  BY Zenon DEF FirstRows
<1>3. Cardinality(rows) \in Nat
  BY FS_CardinalityType
<1>4. Cardinality(top) = Cardinality(rows) => top = rows
  BY <1>1, FS_Subset
<1> QED
  BY <1>1, <1>2, <1>3, <1>4

\* The order of the rows is total up to rows of one transaction.
LEMMA RowOrder ==
    ASSUME NEW a, NEW b, IsRow(a), IsRow(b), ~Below(a, b)
    PROVE  Below(b, a) \/ SameTransaction(b, a)
BY DEF IsRow, Below, SameTransaction

\* The order of the rows is transitive.
LEMMA BelowTransitive ==
    ASSUME NEW a, NEW b, NEW c, IsRow(a), IsRow(b), c.slot \in Nat, c.sig \in Nat,
           Below(a, b), Below(b, c)
    PROVE  Below(a, c)
BY DEF IsRow, Below

\* A call for q with the cursor cur, where seen are the rows served before and
\* start those that matched at the beginning: what is known before it ...
Known(q, cur, seen, start) ==
    /\ q \in Request /\ seen \subseteq table /\ start \subseteq table
    /\ \A c, d \in cur : c = d
    /\ \A c \in cur : c.slot \in Nat /\ c.sig \in Nat
    /\ \A c \in cur, s \in seen : ~Below(s, c)
    /\ cur = {} => seen = {}
    /\ \A r \in start : r.name = q.name /\ r.slot >= q.slot_gte
    /\ \A r \in start : \/ \E s \in seen : SameTransaction(r, s)
                        \/ \A c \in cur : Below(r, c)

\* ... and what is known after it.
KnownAfter(seen, start) ==
    /\ page' \subseteq table /\ page' \cap seen = {}
    /\ walk' = "done" => cursor' = {}
    /\ walk' = "more" => cursor' # {}
    /\ \A c, d \in cursor' : c = d
    /\ \A c \in cursor' : c.slot \in Nat /\ c.sig \in Nat
    /\ \A c \in cursor', s \in seen \cup page' : ~Below(s, c)
    /\ \A r \in start : \/ \E s \in seen \cup page' : SameTransaction(r, s)
                        \/ \E c \in cursor' : Below(r, c)

\* An answer moves the cursor past the rows it serves and past no other.
LEMMA AnswerKnown ==
    ASSUME TableInv, NEW q, NEW cur, NEW seen, NEW start,
           QueryInstructions(q, cur), Known(q, cur, seen, start)
    PROVE  KnownAfter(seen, start)
<1> DEFINE rows == Candidates(q, cur)
           n == ClampLimit(q.limit)
<1>1. rows \subseteq table /\ \A r \in rows, c \in cur : Below(r, c)
  BY DEF Candidates, Matching, AfterCursor
<1>2. IsFiniteSet(rows) /\ Cardinality(rows) \in Nat
  BY <1>1, FS_Subset, FS_CardinalityType DEF TableInv
<1>3. n \in Nat
  BY RequestLimits, ClampLimitType DEF Known
<1>4. page' \in FirstRows(rows, n)
  BY DEF QueryInstructions
<1> HIDE DEF n
<1>5. /\ page' \subseteq rows
      /\ \A r \in page', s \in rows \ page' : ~Below(r, s)
      /\ Cardinality(rows) <= n => page' = rows
  <2> HIDE DEF rows
  <2> QED  BY <1>2, <1>3, <1>4, AnswerRows
<1>6. page' \subseteq table /\ page' \cap seen = {}
  BY <1>1, <1>5 DEF Known
<1>7. \A r \in start : (\E s \in seen : SameTransaction(r, s)) \/ r \in rows
  BY DEF Known, Candidates, Matching, AfterCursor
<1>8. \A r \in table : IsRow(r) /\ SameTransaction(r, r)
  BY DEF TableInv, SameTransaction
<1>9. CASE ~HasMore(q, cur)
  <2>1. walk' = "done" /\ cursor' = {}
    BY <1>9 DEF QueryInstructions
  <2>2. page' = rows
    BY <1>2, <1>3, <1>5, <1>9 DEF HasMore, n
  <2>3. \A r \in start : \E s \in seen \cup page' : SameTransaction(r, s)
    BY <1>6, <1>7, <1>8, <2>2, Zenon
  <2> QED  BY <1>6, <2>1, <2>3 DEF KnownAfter
<1>10. CASE HasMore(q, cur)
  <2>1. PICK last \in LastOf(page') : cursor' = {EncodeCursor(last)}
    BY <1>10 DEF QueryInstructions
  <2>2. walk' = "more"
    BY <1>10 DEF QueryInstructions
  <2>3. last \in page' /\ \A s \in page' : ~Below(s, last)
    BY <2>1 DEF LastOf
  <2>4. IsRow(last)
    BY <1>6, <1>8, <2>3
  <2> DEFINE c == EncodeCursor(last)
  <2>5. /\ c.slot = last.slot /\ c.sig = last.sig
        /\ \A r : Below(r, c) <=> Below(r, last)
    BY DEF EncodeCursor, Below
  <2>6. c.slot \in Nat /\ c.sig \in Nat
    BY <2>4, <2>5 DEF IsRow
  <2>7. ASSUME NEW s \in seen \cup page'
        PROVE  ~Below(s, last)
    <3>1. CASE s \in page'
      BY <2>3, <3>1
    <3>2. CASE s \in seen
      <4>1. PICK d \in cur : TRUE
        BY <3>2 DEF Known
      <4>2. Below(last, d) /\ ~Below(s, d) /\ d.slot \in Nat /\ d.sig \in Nat
        BY <1>1, <1>5, <2>3, <3>2, <4>1 DEF Known
      <4>3. IsRow(s)
        BY <1>8, <3>2 DEF Known
      <4> QED  BY <2>4, <4>2, <4>3, BelowTransitive
    <3> QED  BY <3>1, <3>2
  <2>8. ASSUME NEW r \in start
        PROVE  (\E s \in seen \cup page' : SameTransaction(r, s)) \/ Below(r, last)
    <3>1. CASE r \in rows \ page'
      <4>1. ~Below(last, r)
        BY <1>5, <2>3, <3>1
      <4>2. Below(r, last) \/ SameTransaction(r, last)
        BY <1>8, <2>4, <4>1, RowOrder DEF Known
      <4> QED  BY <2>3, <4>2, Zenon
    <3>2. CASE r \in page'
      BY <1>6, <1>8, <3>2, Zenon
    <3> QED  BY <1>7, <3>1, <3>2, Zenon
  <2> HIDE DEF c
  <2>9. cursor' = {c}
    BY <2>1 DEF c
  <2>10. \A d \in cursor', s \in seen \cup page' : ~Below(s, d)
    BY <2>5, <2>7, <2>9, Zenon
  <2>11. \A r \in start : \/ \E s \in seen \cup page' : SameTransaction(r, s)
                          \/ \E d \in cursor' : Below(r, d)
    BY <2>5, <2>8, <2>9, Zenon
  <2>12. /\ walk' = "done" => cursor' = {}
         /\ walk' = "more" => cursor' # {}
         /\ \A d, e \in cursor' : d = e
         /\ \A d \in cursor' : d.slot \in Nat /\ d.sig \in Nat
    BY <2>2, <2>6, <2>9
  <2> QED  BY <1>6, <2>10, <2>11, <2>12, Zenon DEF KnownAfter
<1> QED  BY <1>9, <1>10

-----------------------------------------------------------------------------
(* The invariant.                                                          *)

\* Before the first page nothing was served.
LEMMA PagesInvInit == PagesInit => PagesInv
<1> SUFFICES ASSUME PagesInit PROVE PagesInv
  OBVIOUS
<1>1. IsFiniteSet({})
  BY FS_EmptySet
<1> QED
  BY <1>1 DEF PagesInit, PagesInv, TableInv, HistoryInv, CursorInv, PagesAreDisjoint,
              SeenOrBelow, Seen

\* The first call of a walk has no cursor: every matching row is a candidate.
LEMMA FirstPageInv == ASSUME PagesInv, NEW q \in Request, FirstPage(q) PROVE PagesInv'
<1>1. /\ QueryInstructions(q, {}) /\ UNCHANGED table /\ query' = {q}
      /\ served' = {} /\ before' = Matching(q)
  BY DEF FirstPage
<1>2. before' \subseteq table /\ \A r \in before' : r.name = q.name /\ r.slot >= q.slot_gte
  BY <1>1 DEF Matching
<1>3. TableInv
  BY DEF PagesInv
<1>4. /\ page' \subseteq table
      /\ walk' = "done" => cursor' = {}
      /\ walk' = "more" => cursor' # {}
      /\ \A c, d \in cursor' : c = d
      /\ \A c \in cursor' : c.slot \in Nat /\ c.sig \in Nat
      /\ \A c \in cursor', s \in {} \cup page' : ~Below(s, c)
      /\ \A r \in before' : \/ \E s \in {} \cup page' : SameTransaction(r, s)
                            \/ \E c \in cursor' : Below(r, c)
  <2>1. PICK cur, seen, start : cur = {} /\ seen = {} /\ start = before'
    BY Zenon
  <2>2. QueryInstructions(q, cur)
    BY <1>1, <2>1 DEF QueryInstructions
  <2>3. Known(q, cur, seen, start)
    BY <1>2, <2>1 DEF Known
  <2>4. KnownAfter(seen, start)
    BY <1>3, <2>2, <2>3, AnswerKnown
  <2> QED  BY <2>1, <2>4 DEF KnownAfter
<1>5. Seen' = page'
  BY <1>1 DEF Seen
<1>6. TableInv'
  BY <1>1, <1>3 DEF TableInv
<1>7. HistoryInv'
  BY <1>1, <1>2, <1>4, <1>5 DEF HistoryInv
<1>8. CursorInv' /\ SeenOrBelow'
  BY <1>4, <1>5, Zenon DEF CursorInv, SeenOrBelow
<1>9. PagesAreDisjoint'
  BY <1>1 DEF PagesAreDisjoint
<1> QED
  BY <1>6, <1>7, <1>8, <1>9 DEF PagesInv

\* A later call starts below the cursor of the one before it.
LEMMA NextPageInv == ASSUME PagesInv, NextPage PROVE PagesInv'
<1>1. PICK q \in query : QueryInstructions(q, cursor)
  BY DEF NextPage
<1>2. UNCHANGED <<table, query, before>> /\ served' = Seen /\ walk = "more"
  BY DEF NextPage, Seen
<1>3. TableInv /\ HistoryInv /\ CursorInv /\ SeenOrBelow
  BY DEF PagesInv
<1>4. q \in Request /\ before \subseteq table /\ Seen \subseteq table
  BY <1>1, <1>3 DEF HistoryInv
<1>5. \A r \in before : r.name = q.name /\ r.slot >= q.slot_gte
  BY <1>1, <1>3 DEF HistoryInv
<1>6. \A r \in before : \/ \E s \in Seen : SameTransaction(r, s)
                        \/ \A c \in cursor : Below(r, c)
  BY <1>3 DEF CursorInv, SeenOrBelow
<1>7. /\ page' \subseteq table /\ page' \cap Seen = {}
      /\ walk' = "done" => cursor' = {}
      /\ walk' = "more" => cursor' # {}
      /\ \A c, d \in cursor' : c = d
      /\ \A c \in cursor' : c.slot \in Nat /\ c.sig \in Nat
      /\ \A c \in cursor', s \in Seen \cup page' : ~Below(s, c)
      /\ \A r \in before : \/ \E s \in Seen \cup page' : SameTransaction(r, s)
                           \/ \E c \in cursor' : Below(r, c)
  <2>1. PICK cur, seen, start : cur = cursor /\ seen = Seen /\ start = before
    OBVIOUS
  <2>2. QueryInstructions(q, cur)
    BY <1>1, <2>1 DEF QueryInstructions
  <2>3. Known(q, cur, seen, start)
    BY <1>2, <1>3, <1>4, <1>5, <1>6, <2>1 DEF Known, CursorInv
  <2>4. KnownAfter(seen, start)
    BY <1>3, <2>2, <2>3, AnswerKnown
  <2> QED  BY <2>1, <2>4 DEF KnownAfter
<1>8. Seen' = Seen \cup page'
  BY <1>2 DEF Seen
<1>9. TableInv'
  BY <1>2, <1>3 DEF TableInv
<1>10. HistoryInv'
  BY <1>2, <1>3, <1>4, <1>7, <1>8 DEF HistoryInv
<1>11. CursorInv' /\ SeenOrBelow'
  BY <1>2, <1>7, <1>8, Zenon DEF CursorInv, SeenOrBelow
<1>12. PagesAreDisjoint'
  BY <1>2, <1>7 DEF PagesAreDisjoint
<1> QED
  BY <1>9, <1>10, <1>11, <1>12 DEF PagesInv

\* Rows inserted meanwhile leave the walk as it was.
LEMMA AddRowsInv == ASSUME PagesInv, AddRows PROVE PagesInv'
<1>1. UNCHANGED walkVars /\ table \subseteq table' /\ TableInv'
  BY DEF AddRows, TableInv
<1>2. UNCHANGED Seen
  BY <1>1 DEF walkVars, Seen
<1>3. HistoryInv'
  BY <1>1, <1>2 DEF PagesInv, HistoryInv, walkVars
<1>4. CursorInv' /\ PagesAreDisjoint' /\ SeenOrBelow'
  BY <1>1, <1>2 DEF PagesInv, CursorInv, PagesAreDisjoint, SeenOrBelow, walkVars
<1> QED
  BY <1>1, <1>3, <1>4 DEF PagesInv

\* The cursor separates what a walk has served from what it has still to see,
\* for every order of pages and insertions.
THEOREM PagesInvariant == PagesSpec => []PagesInv
<1>1. PagesInit => PagesInv
  BY PagesInvInit
<1>2. PagesInv /\ [PagesNext]_pagesVars => PagesInv'
  <2> SUFFICES ASSUME PagesInv, [PagesNext]_pagesVars PROVE PagesInv'
    OBVIOUS
  <2>1. CASE NextPage
    BY <2>1, NextPageInv
  <2>2. ASSUME NEW q \in Request, FirstPage(q) PROVE PagesInv'
    BY <2>2, FirstPageInv
  <2>3. CASE AddRows
    BY <2>3, AddRowsInv
  <2>4. CASE UNCHANGED pagesVars
    BY <2>4 DEF pagesVars, walkVars, PagesInv, TableInv, HistoryInv, CursorInv,
                PagesAreDisjoint, SeenOrBelow, Seen
  <2> QED  BY <2>1, <2>2, <2>3, <2>4 DEF PagesNext
<1> QED
  BY <1>1, <1>2, PTL DEF PagesSpec

\* No walk serves a row twice (the strict comparison with the cursor).
THEOREM PagesNeverOverlap == PagesSpec => []PagesAreDisjoint
<1>1. PagesInv => PagesAreDisjoint
  BY DEF PagesInv
<1> QED
  BY <1>1, PagesInvariant, PTL

\* A walk that came to its end misses no transaction that was there when it
\* began, whatever the page size.
THEOREM WalksSeeEveryTransaction == PagesSpec => []WalkSeesEveryTransaction
<1>1. PagesInv => WalkSeesEveryTransaction
  BY DEF PagesInv, CursorInv, SeenOrBelow, Seen, WalkSeesEveryTransaction
<1> QED
  BY <1>1, PagesInvariant, PTL

=============================================================================
