-------------------------------- MODULE Pages --------------------------------
(***************************************************************************)
(* query_instructions (api/handlers.rs) seen by a client that follows      *)
(* next_cursor from page to page while the indexer goes on inserting.      *)
(*                                                                         *)
(* A row of _instructions has at least the fields slot, sig (the           *)
(* signature, ordered like its text), name; the order of two rows of one   *)
(* transaction, which the ORDER BY leaves open, is a choice.               *)
(***************************************************************************)
EXTENDS Integers, FiniteSets

CONSTANTS
    Request,         \* queries of the client: [name, slot_gte, limit]
    DefaultPageSize, \* config.api_default_page_size
    MaxPageSize      \* config.api_max_page_size

ASSUME PageSizes == DefaultPageSize \in Nat \ {0} /\ MaxPageSize \in Nat \ {0}
ASSUME RequestLimits == \A q \in Request : q.limit \in Int

VARIABLES
    table,   \* the rows of _instructions
    walk,    \* the client: "off", "more" (it holds a cursor), "done"
    query,   \* {} or {q}, q what it asks for
    cursor,  \* {} or {c}, c the (slot, signature) of the last row it got
    page,    \* the rows of the last answer
    served,  \* the rows of the answers before it
    before   \* history: the rows that matched when the walk began

walkVars == <<walk, query, cursor, page, served, before>>
pagesVars == <<table, walkVars>>

IsRow(r) == r.slot \in Nat /\ r.sig \in Nat

\* Unset, zero or negative limits (0 here) get the default.
ClampLimit(limit) ==
    IF limit <= 0 THEN DefaultPageSize
    ELSE IF limit > MaxPageSize THEN MaxPageSize ELSE limit

\* (slot, signature) of a, in the order of the columns, is below that of b.
Below(a, b) == a.slot < b.slot \/ (a.slot = b.slot /\ a.sig < b.sig)
SameTransaction(a, b) == a.slot = b.slot /\ a.sig = b.sig

EncodeCursor(r) == [slot |-> r.slot, sig |-> r.sig]

\* The WHERE clause: the filters, the instruction's name and the cursor.
Matching(q) == {r \in table : r.name = q.name /\ r.slot >= q.slot_gte}
\* Variants that compare with <= and that compare the slots only.
NotAbove(r, c) == ~Below(c, r)
SlotBelow(r, c) == r.slot < c.slot
AfterCursor(r, c) == Below(r, c)
Candidates(q, cur) == {r \in Matching(q) : \A c \in cur : AfterCursor(r, c)}

\* The first n rows in the descending order of (slot, signature).
FirstRows(rows, n) ==
    {top \in SUBSET rows :
        /\ Cardinality(top) = IF Cardinality(rows) > n THEN n ELSE Cardinality(rows)
        /\ \A r \in top, s \in rows \ top : ~Below(r, s)}

\* has_more; the variant counts the rows of all pages.
AnyMatchesMore(q, cur) == Cardinality(Matching(q)) > ClampLimit(q.limit)
HasMore(q, cur) == Cardinality(Candidates(q, cur)) > ClampLimit(q.limit)

LastOf(rows) == {r \in rows : \A s \in rows : ~Below(s, r)}

\* One call of query_instructions: limit + 1 rows are fetched, the one too
\* many only tells that there are more; the cursor is that of the last row.
QueryInstructions(q, cur) ==
    /\ page' \in FirstRows(Candidates(q, cur), ClampLimit(q.limit))
    /\ \/ ~HasMore(q, cur) /\ walk' = "done" /\ cursor' = {}
       \/ /\ HasMore(q, cur) /\ walk' = "more"
          /\ \E last \in LastOf(page') : cursor' = {EncodeCursor(last)}

FirstPage(q) ==
    /\ walk = "off"
    /\ QueryInstructions(q, {})
    /\ query' = {q}
    /\ served' = {}
    /\ before' = Matching(q)
    /\ UNCHANGED table

NextPage ==
    /\ walk = "more"
    /\ \E q \in query : QueryInstructions(q, cursor)
    /\ served' = served \cup page
    /\ UNCHANGED <<table, query, before>>

\* The writer: rows are inserted, none is changed or removed.
AddRows ==
    /\ table \subseteq table'
    /\ IsFiniteSet(table') /\ \A r \in table' : IsRow(r)
    /\ UNCHANGED walkVars

PagesInit ==
    /\ table = {}
    /\ walk = "off" /\ query = {} /\ cursor = {}
    /\ page = {} /\ served = {} /\ before = {}

PagesNext == NextPage \/ (\E q \in Request : FirstPage(q)) \/ AddRows

PagesSpec == PagesInit /\ [][PagesNext]_pagesVars

-----------------------------------------------------------------------------
(* Properties.                                                             *)

\* No row is served twice in a walk, whatever is inserted meanwhile
\* (the cursor condition of query_instructions).
PagesAreDisjoint == page \cap served = {}

\* A walk that came to its end has served at least one row of every
\* transaction that had a matching row when it began.
WalkSeesEveryTransaction ==
    walk = "done" =>
        \A r \in before : \E s \in served \cup page : SameTransaction(r, s)

\* A walk that came to its end has served every row that matched when it
\* began: cursors are "stable on append-only data" (README.md).
WalkServesEveryRow == walk = "done" => before \subseteq served \cup page

=============================================================================
