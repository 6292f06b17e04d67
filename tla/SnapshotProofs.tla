--------------------------- MODULE SnapshotProofs ---------------------------
(***************************************************************************)
(* Proofs about the calls of the RPC client: get_blocks lists its range,   *)
(* for every range, chunk size and set of produced slots; and an account   *)
(* snapshot is complete and its rows are not ahead of their data, for      *)
(* every set of accounts and contents and all batch sizes.                 *)
(*                                                                         *)
(* While get_blocks waits for a chunk it has listed the blocks of the      *)
(* range below the start of that chunk, which is still in the range        *)
(* (ListingInv).  A snapshot keeps track of each account it has listed     *)
(* from one stage to the next (SnapshotInv).                               *)
(***************************************************************************)
EXTENDS Snapshot, FiniteSetTheorems, SequenceTheorems, TLAPS

ListingInv ==
    pc = "blocks" => /\ lo \in 0 .. MaxU64 /\ at \in lo .. hi /\ hi \in 0 .. MaxU64
                     /\ listed = Produced \cap (lo .. at - 1)
                     /\ count = Cardinality(listed)

ClientInv == ListingInv /\ BlocksAreListedOnce

\* The next chunk begins where the last one ends, and the sum does not saturate
\* before the end of the range.
LEMMA Chunks ==
    ASSUME NEW a \in Nat, NEW end \in 0 .. MaxU64, a <= end
    PROVE  /\ ChunkEnd(a, end) \in a .. end
           /\ ChunkEnd(a, end) < end => NextStart(ChunkEnd(a, end)) = ChunkEnd(a, end) + 1
BY RpcConstants DEF ChunkEnd, NextStart, SaturatingAdd, Smaller

\* A list and a chunk that have no slot in common make one list without repetition.
LEMMA Joined ==
    ASSUME NEW below, NEW chunk, IsFiniteSet(below), IsFiniteSet(chunk), below \cap chunk = {}
    PROVE  Cardinality(below \cup chunk) = Cardinality(below) + Cardinality(chunk)
<1>1. Cardinality(below) \in Nat /\ Cardinality(chunk) \in Nat
  BY FS_CardinalityType
<1>2. Cardinality(below \cup chunk)
        = Cardinality(below) + Cardinality(chunk) - Cardinality(below \cap chunk)
  BY FS_Union
<1>3. Cardinality(below \cap chunk) = 0
  BY FS_EmptySet, Zenon
<1> QED
  BY <1>1, <1>2, <1>3

\* The part of the chain in a range is finite.
LEMMA RangeIsFinite ==
    ASSUME NEW a \in Int, NEW b \in Int PROVE IsFiniteSet(Produced \cap (a .. b))
<1>1. IsFiniteSet(a .. b)
  BY FS_Interval
<1> QED
  BY <1>1, FS_Intersection, Zenon

SnapTypes ==
    /\ hist \in Seq([Account -> Content \cup {Closed}]) /\ Now >= 1
    /\ label \in Nat /\ checkpoint \in Nat /\ checkpoint <= Now
    /\ keys \subseteq Account
    /\ infos \subseteq Account \X (Content \cup {Closed})
    /\ \A r \in rows : r.slot \in Nat \ {0}

\* After get_slot the label is the chain's tip at that time, and no earlier
\* snapshot has written a later slot.
LabelInv ==
    /\ pc \in {"accounts", "decode", "write"} =>
          label >= 1 /\ checkpoint <= label /\ label <= Now
    /\ pc = "ok" /\ keys # {} => label >= 1

\* What is fetched or decoded was the account's content at the label or later.
FreshInv ==
    /\ pc \in {"accounts", "decode"} => \A i \in infos : HeldSince(i[1], i[2], label)
    /\ pc = "write" => \A a \in todo : HeldSince(a.key, a.content, label)

HasInfo(k) == \E i \in infos : i[1] = k
HasTodo(k) == \E a \in todo : a.key = k
HasRow(k) == \E r \in rows : r.key = k /\ r.slot >= label

\* No account the snapshot has listed is forgotten on its way to the table.
AccountedInv ==
    /\ pc \in {"keys", "slot"} => asked = {} /\ infos = {}
    /\ pc = "accounts" => \A k \in asked : Excused(k) \/ HasInfo(k)
    /\ pc = "decode" => \A k \in keys : Excused(k) \/ HasInfo(k)
    /\ pc = "write" => \A k \in keys : Excused(k) \/ HasTodo(k) \/ HasRow(k)

SnapshotInv ==
    SnapTypes /\ LabelInv /\ FreshInv /\ AccountedInv /\ SlotIsNotAheadOfData /\ SnapshotIsComplete

-----------------------------------------------------------------------------
\* A listing starts with nothing listed; an empty range is listed at once.
LEMMA StartInv ==
    ASSUME NEW start \in 0 .. MaxU64, NEW end \in 0 .. MaxU64, StartGetBlocks(start, end)
    PROVE  ClientInv'
<1>1. /\ lo' = start /\ hi' = end /\ at' = start /\ listed' = {} /\ count' = 0
      /\ pc' = IF start > end THEN "listed" ELSE "blocks"
  BY DEF StartGetBlocks, Returns
<1>2. Cardinality({}) = 0
  BY FS_EmptySet
<1>3. ListingInv'
  BY <1>1, <1>2, RpcConstants DEF ListingInv
<1>4. BlocksAreListedOnce'
  BY <1>1, <1>2 DEF BlocksAreListedOnce
<1> QED
  BY <1>3, <1>4 DEF ClientInv

\* An answer extends the list by its chunk.
LEMMA ChunkInv == ASSUME ClientInv, pc = "blocks", ChunkListed PROVE ClientInv'
<1> DEFINE e == ChunkEnd(at, hi)
           slots == Produced \cap (at .. e)
<1>1. /\ lo \in 0 .. MaxU64 /\ at \in lo .. hi /\ hi \in 0 .. MaxU64
      /\ listed = Produced \cap (lo .. at - 1) /\ count = Cardinality(listed)
  BY DEF ClientInv, ListingInv
<1>2. lo \in Nat /\ at \in Nat /\ hi \in Nat /\ lo <= at /\ at <= hi
  BY <1>1, RpcConstants
<1>3. e \in at .. hi /\ (e < hi => NextStart(e) = e + 1)
  BY <1>1, <1>2, Chunks
<1>4. /\ listed' = listed \cup slots /\ count' = count + Cardinality(slots)
      /\ lo' = lo /\ hi' = hi
  BY DEF ChunkListed
<1>5. \/ e >= hi /\ pc' = "listed" /\ at' = at
      \/ e < hi /\ at' = NextStart(e) /\ pc' = "blocks"
  BY DEF ChunkListed, Returns
<1> HIDE DEF e
<1>6. e \in Nat /\ at <= e /\ e <= hi
  BY <1>2, <1>3
<1>7. /\ listed \cup slots = Produced \cap (lo .. e)
      /\ Cardinality(listed \cup slots) = Cardinality(listed) + Cardinality(slots)
  <2>1. listed = Produced \cap (lo .. at - 1)
    BY <1>1
  <2>2. PICK chunk : chunk = Produced \cap (at .. e)
    BY Zenon
  <2>3. listed \cup chunk = Produced \cap (lo .. e) /\ listed \cap chunk = {}
    BY <1>2, <1>6, <2>1, <2>2, RpcConstants
  <2>4. IsFiniteSet(listed)
    <3>1. lo \in Int /\ at - 1 \in Int
      BY <1>2
    <3> QED
      BY <2>1, <3>1, RangeIsFinite, Zenon
  <2>5. IsFiniteSet(chunk)
    <3>1. at \in Int /\ e \in Int
      BY <1>2, <1>6
    <3> QED
      BY <2>2, <3>1, RangeIsFinite, Zenon
  <2>6. Cardinality(listed \cup chunk) = Cardinality(listed) + Cardinality(chunk)
    BY <2>3, <2>4, <2>5, Joined, Zenon
  <2> QED
    BY <2>2, <2>3, <2>6, Zenon
<1>8. listed' = Produced \cap (lo .. e) /\ count' = Cardinality(listed')
  BY <1>1, <1>4, <1>7
<1>9. CASE pc' = "listed"
  <2>1. e = hi
    BY <1>2, <1>5, <1>6, <1>9
  <2> QED  BY <1>4, <1>8, <1>9, <2>1 DEF ClientInv, ListingInv, BlocksAreListedOnce
<1>10. CASE pc' = "blocks"
  <2>1. e < hi /\ at' = e + 1
    BY <1>3, <1>5, <1>10
  <2>2. at' \in lo .. hi /\ at' - 1 = e
    BY <1>2, <1>6, <2>1
  <2> QED  BY <1>1, <1>4, <1>8, <1>10, <2>2 DEF ClientInv, ListingInv, BlocksAreListedOnce
<1> QED
  BY <1>5, <1>9, <1>10

\* A step that leaves the listing alone and does not come back to it.
LEMMA OtherInv ==
    ASSUME ClientInv, UNCHANGED blocksVars, pc' = pc \/ pc' \notin {"blocks", "listed"}
    PROVE  ClientInv'
BY DEF ClientInv, ListingInv, BlocksAreListedOnce, blocksVars

\* A failed attempt is repeated or ends the call.
LEMMA FailsLeaves == RpcFails => pc' = pc \/ pc' = "err"
BY DEF RpcFails, FailedAttempt, Returns

\* A new call starts a new listing or leaves the old one.
LEMMA CallInv == ASSUME ClientInv, Call PROVE ClientInv'
<1>1. CASE StartSnapshot /\ UNCHANGED blocksVars
  BY <1>1, OtherInv DEF StartSnapshot, Returns
<1>2. CASE (Returns("block") \/ Returns("transaction")) /\ UNCHANGED blocksVars
  BY <1>2, OtherInv DEF Returns
<1>3. ASSUME NEW start \in 0 .. MaxU64, NEW end \in 0 .. MaxU64, StartGetBlocks(start, end)
      PROVE  ClientInv'
  BY <1>3, StartInv
<1> QED
  BY <1>1, <1>2, <1>3 DEF Call

\* Only get_blocks touches the listing.
LEMMA ClientStepInv == ASSUME ClientInv, ClientStep PROVE ClientInv'
<1>1. CASE GetBlocks
  BY <1>1, ChunkInv, FailsLeaves, OtherInv DEF GetBlocks
<1>2. CASE GetBlock
  BY <1>2, OtherInv DEF GetBlock, FailedAttempt, Returns
<1>3. CASE GetTransaction
  BY <1>3, OtherInv DEF GetTransaction, FailedAttempt, Returns
<1>4. CASE GetProgramAccounts
  BY <1>4, FailsLeaves, OtherInv DEF GetProgramAccounts, Returns
<1>5. CASE GetSlot
  BY <1>5, FailsLeaves, OtherInv DEF GetSlot, Returns
<1>6. CASE GetMultipleAccounts
  BY <1>6, FailsLeaves, OtherInv, Zenon DEF GetMultipleAccounts, BatchAnswered, Returns
<1>7. CASE Decode
  BY <1>7, OtherInv DEF Decode
<1>8. CASE WriteAccounts
  BY <1>8, OtherInv DEF WriteAccounts, WriteBlock, Propagate
<1> QED
  BY <1>1, <1>2, <1>3, <1>4, <1>5, <1>6, <1>7, <1>8 DEF ClientStep

\* get_blocks lists every block of its range and each once, for every range up
\* to u64::MAX and every chunk size.
THEOREM BlocksListedOnce == SnapshotSpec => []BlocksAreListedOnce
<1>1. SnapshotInit => ClientInv
  BY DEF SnapshotInit, ClientInv, ListingInv, BlocksAreListedOnce
<1>2. ClientInv /\ [SnapshotNext]_snapshotVars => ClientInv'
  <2> SUFFICES ASSUME ClientInv, [SnapshotNext]_snapshotVars PROVE ClientInv'
    OBVIOUS
  <2>1. CASE ClientStep
    BY <2>1, ClientStepInv
  <2>2. CASE Call
    BY <2>2, CallInv
  <2>3. CASE Finalize \/ Cancel
    BY <2>3, OtherInv DEF Finalize, Cancel
  <2>4. CASE UNCHANGED snapshotVars
    BY <2>4, OtherInv DEF snapshotVars
  <2> QED  BY <2>1, <2>2, <2>3, <2>4 DEF SnapshotNext
<1>3. ClientInv => BlocksAreListedOnce
  BY DEF ClientInv
<1> QED
  BY <1>1, <1>2, <1>3, PTL DEF SnapshotSpec

-----------------------------------------------------------------------------
(* The account snapshot.                                                   *)

HistGrows ==
    /\ hist \in Seq([Account -> Content \cup {Closed}])
    /\ Now' \in Nat /\ Now' >= Now
    /\ \A t \in 1 .. Now : hist'[t] = hist[t]

\* The past of an account does not change.
LEMMA HeldStays ==
    ASSUME HistGrows, NEW k, NEW c, NEW s \in Nat \ {0}, HeldSince(k, c, s)
    PROVE  HeldSince(k, c, s)'
<1>1. Now \in Nat
  BY DEF HistGrows, Now
<1>2. PICK t \in s .. Now : hist[t][k] = c
  BY DEF HeldSince
<1>3. t \in 1 .. Now /\ t \in s .. Now'
  BY <1>1, <1>2 DEF HistGrows
<1>4. hist'[t][k] = c
  BY <1>2, <1>3 DEF HistGrows
<1> QED
  BY <1>3, <1>4 DEF HeldSince

\* A step of another call, of a request that fails or of the snapshot before
\* it knows its slot.
LEMMA ElsewhereInv ==
    ASSUME SnapshotInv, UNCHANGED <<hist, tables>>,
           keys' \subseteq Account, infos' \subseteq Account \X (Content \cup {Closed}),
           label' \in Nat, pc' \notin {"accounts", "decode", "write", "ok"},
           pc' \in {"keys", "slot"} => asked' = {} /\ infos' = {}
    PROVE  SnapshotInv'
BY DEF SnapshotInv, SnapTypes, LabelInv, FreshInv, AccountedInv, SlotIsNotAheadOfData,
       SnapshotIsComplete, HeldSince, Now, tables

\* A step that the snapshot does not see.
LEMMA UnseenInv ==
    ASSUME SnapshotInv, UNCHANGED <<pc, hist, snapVars, tables>>
    PROVE  SnapshotInv'
<1>1. SnapTypes' /\ LabelInv'
  BY DEF SnapshotInv, SnapTypes, LabelInv, Now, tables, snapVars
<1>2. FreshInv' /\ SlotIsNotAheadOfData'
  BY DEF SnapshotInv, FreshInv, SlotIsNotAheadOfData, HeldSince, Now, tables, snapVars
<1>3. AccountedInv'
  BY Zenon DEF SnapshotInv, AccountedInv, Excused, HasInfo, HasTodo, HasRow, HeldSince, Now, tables, snapVars
<1>4. SnapshotIsComplete'
  BY DEF SnapshotInv, SnapshotIsComplete, Excused, HeldSince, Now, tables, snapVars
<1> QED
  BY <1>1, <1>2, <1>3, <1>4 DEF SnapshotInv

\* A failed attempt is repeated or ends the call.
LEMMA FailureInv ==
    ASSUME SnapshotInv, RpcFails, UNCHANGED <<hist, snapVars, tables>>
    PROVE  SnapshotInv'
<1>1. CASE pc' = pc
  BY <1>1, UnseenInv
<1>2. CASE pc' = "err"
  BY <1>2, ElsewhereInv DEF SnapshotInv, SnapTypes, snapVars
<1> QED
  BY <1>1, <1>2, FailsLeaves

\* Without accounts the snapshot is over.
LEMMA KeysInv == ASSUME SnapshotInv, GetProgramAccounts PROVE SnapshotInv'
<1>1. CASE RpcFails /\ UNCHANGED snapVars
  BY <1>1, FailureInv DEF GetProgramAccounts
<1>2. CASE ~(RpcFails /\ UNCHANGED snapVars)
  <2>1. /\ UNCHANGED <<label, asked, infos, todo, stopped, unanswered, hist, tables>>
        /\ pc = "keys" /\ keys' = Live /\ pc' = IF Live = {} THEN "ok" ELSE "slot"
    BY <1>2 DEF GetProgramAccounts, Returns
  <2>2. keys' \subseteq Account
    BY <2>1 DEF Live
  <2>3. asked' = {} /\ infos' = {}
    BY <2>1 DEF SnapshotInv, AccountedInv
  <2>4. CASE pc' = "slot"
    BY <2>1, <2>2, <2>3, <2>4, ElsewhereInv DEF SnapshotInv, SnapTypes
  <2>5. CASE pc' = "ok"
    <3>1. keys' = {}
      BY <2>1, <2>5
    <3>2. SnapTypes' /\ SlotIsNotAheadOfData'
      BY <2>1, <2>2 DEF SnapshotInv, SnapTypes, SlotIsNotAheadOfData, HeldSince, Now, tables
    <3> QED  BY <2>5, <3>1, <3>2
             DEF SnapshotInv, LabelInv, FreshInv, AccountedInv, SnapshotIsComplete
  <2> QED  BY <2>1, <2>4, <2>5
<1> QED
  BY <1>1, <1>2

\* The slot is read before any account is.
LEMMA SlotInv == ASSUME SnapshotInv, GetSlot PROVE SnapshotInv'
<1>1. CASE RpcFails /\ UNCHANGED snapVars
  BY <1>1, FailureInv DEF GetSlot
<1>2. CASE ~(RpcFails /\ UNCHANGED snapVars)
  <2>1. /\ UNCHANGED <<keys, asked, infos, todo, stopped, unanswered, hist, tables>>
        /\ pc = "slot" /\ label' = Now /\ pc' = "accounts"
    BY <1>2 DEF GetSlot, Returns
  <2>2. asked' = {} /\ infos' = {}
    BY <2>1 DEF SnapshotInv, AccountedInv
  <2>3. Now' = Now /\ Now \in Nat /\ Now >= 1 /\ checkpoint' <= Now
    BY <2>1 DEF SnapshotInv, SnapTypes, Now, tables
  <2>4. SnapTypes' /\ LabelInv'
    BY <2>1, <2>2, <2>3 DEF SnapshotInv, SnapTypes, LabelInv, tables
  <2>5. FreshInv' /\ AccountedInv' /\ SnapshotIsComplete'
    BY <2>1, <2>2 DEF FreshInv, AccountedInv, SnapshotIsComplete
  <2>6. SlotIsNotAheadOfData'
    BY <2>1 DEF SnapshotInv, SlotIsNotAheadOfData, HeldSince, Now, tables
  <2> QED  BY <2>4, <2>5, <2>6 DEF SnapshotInv
<1> QED
  BY <1>1, <1>2

\* Each key of the answered batch is left out, closed, or has its content of
\* now.
LEMMA BatchInv == ASSUME SnapshotInv, pc = "accounts", BatchAnswered, UNCHANGED <<hist, tables>>
                  PROVE  SnapshotInv'
<1>1. PICK batch \in NextBatch : \E short \in SUBSET batch :
        /\ infos' = infos \cup Answered(batch \ short)
        /\ unanswered' = unanswered \cup short
        /\ asked' = asked \cup batch
        /\ pc' = IF asked' = keys THEN "decode" ELSE "accounts"
  BY Zenon DEF BatchAnswered, Returns
<1>2. PICK short \in SUBSET batch :
        /\ infos' = infos \cup Answered(batch \ short)
        /\ unanswered' = unanswered \cup short
        /\ asked' = asked \cup batch
        /\ pc' = IF asked' = keys THEN "decode" ELSE "accounts"
  BY <1>1, Zenon
<1>3. keys' = keys /\ label' = label /\ todo' = todo /\ stopped' = stopped
  BY DEF BatchAnswered
<1>4. /\ Now' = Now /\ Now \in Nat /\ Now >= 1 /\ label \in Nat /\ label >= 1 /\ label <= Now
      /\ hist[Now] \in [Account -> Content \cup {Closed}]
  BY DEF SnapshotInv, SnapTypes, LabelInv, Now
<1>5. batch \subseteq Account
  BY DEF NextBatch, Chunk, SnapshotInv, SnapTypes
<1>6. \A k, c : hist[Now][k] = c => HeldSince(k, c, label)
  BY <1>4 DEF HeldSince
<1>7. \A k, c : HeldSince(k, c, label) => HeldSince(k, c, label)'
  BY <1>3 DEF HeldSince, Now
<1>8. \A i \in Answered(batch \ short) :
        i \in Account \X (Content \cup {Closed}) /\ i[2] = hist[Now][i[1]]
  BY <1>4, <1>5 DEF Answered, Live
<1>9. SnapTypes' /\ LabelInv'
  <2>1. infos' \subseteq Account \X (Content \cup {Closed})
    BY <1>2, <1>8, Zenon DEF SnapshotInv, SnapTypes
  <2> QED  BY <1>2, <1>3, <2>1, Zenon DEF SnapshotInv, SnapTypes, LabelInv, Now, tables
<1>10. FreshInv'
  <2>1. \A i \in infos' : HeldSince(i[1], i[2], label)
    BY <1>2, <1>6, <1>8, Zenon DEF SnapshotInv, FreshInv
  <2>2. \A i \in infos' : HeldSince(i[1], i[2], label)'
    BY <2>1, <1>3 DEF HeldSince, Now
  <2> QED  BY <1>2, <2>2 DEF FreshInv
<1>11. AccountedInv'
  <2>1. ASSUME NEW k \in asked PROVE (Excused(k) \/ HasInfo(k))'
    BY <1>2, <1>3, <1>7 DEF SnapshotInv, AccountedInv, Excused, HasInfo
  <2>2. ASSUME NEW k \in batch PROVE (Excused(k) \/ HasInfo(k))'
    <3>1. CASE k \in short
      BY <1>2, <3>1 DEF Excused
    <3>2. CASE k \notin short /\ hist[Now][k] = Closed
      BY <1>6, <1>7, <3>2 DEF Excused
    <3>3. CASE k \notin short /\ hist[Now][k] # Closed
      <4>1. <<k, hist[Now][k]>> \in infos'
        BY <1>2, <1>5, <3>3 DEF Answered, Live
      <4> QED  BY <4>1 DEF HasInfo
    <3> QED  BY <3>1, <3>2, <3>3
  <2> QED  BY <1>2, <1>3, <2>1, <2>2, Zenon DEF AccountedInv
<1>12. SlotIsNotAheadOfData' /\ SnapshotIsComplete'
  BY <1>2 DEF SnapshotInv, SlotIsNotAheadOfData, SnapshotIsComplete, HeldSince, Now, tables
<1> QED
  BY <1>9, <1>10, <1>11, <1>12 DEF SnapshotInv

\* What does not decode is excused, what does is to be written.
LEMMA DecodeInv == ASSUME SnapshotInv, Decode PROVE SnapshotInv'
<1>1. /\ pc = "decode" /\ infos' = {}
      /\ UNCHANGED <<hist, keys, label, unanswered, tables>>
  BY DEF Decode
<1>2. \/ pc' = "ok" /\ stopped' = TRUE
      \/ pc' = "write" /\ todo' = {DecodedAccount(info) : info \in {i \in infos : Decodes(i)}}
  BY DEF Decode
<1>3. label \in Nat /\ label >= 1
  BY <1>1 DEF SnapshotInv, SnapTypes, LabelInv
<1>4. SnapTypes' /\ LabelInv'
  BY <1>1, <1>2 DEF SnapshotInv, SnapTypes, LabelInv, Now, tables
<1>5. SlotIsNotAheadOfData' /\ SnapshotIsComplete'
  BY <1>1, <1>2, Zenon DEF SnapshotInv, SlotIsNotAheadOfData, SnapshotIsComplete, HeldSince, Now, tables
<1>6. CASE pc' = "ok"
  BY <1>4, <1>5, <1>6 DEF SnapshotInv, FreshInv, AccountedInv
<1>7. CASE pc' = "write"
  <2>1. \A i \in infos : HeldSince(i[1], i[2], label) /\ i[2] \in Content \cup {Closed}
    BY <1>1 DEF SnapshotInv, FreshInv, SnapTypes
  <2>2. todo' = {DecodedAccount(info) : info \in {i \in infos : Decodes(i)}}
    BY <1>2, <1>7
  <2>3. \A a \in todo' : HeldSince(a.key, a.content, label)
    BY <2>1, <2>2 DEF DecodedAccount
  <2>4. FreshInv'
    BY <1>1, <1>7, <2>3 DEF FreshInv, HeldSince, Now
  <2>5. ASSUME NEW k \in keys PROVE Excused(k) \/ HasTodo(k)'
    <3>1. CASE HasInfo(k)
      <4>1. PICK i \in infos : i[1] = k
        BY <3>1 DEF HasInfo
      <4>2. CASE Decodes(i)
        <5>1. DecodedAccount(i) \in todo'
          BY <2>2, <4>1, <4>2
        <5>2. DecodedAccount(i).key = k
          BY <4>1 DEF DecodedAccount
        <5> QED  BY <5>1, <5>2 DEF HasTodo
      <4>3. CASE ~Decodes(i)
        BY <2>1, <4>1, <4>3 DEF Decodes, Excused
      <4> QED  BY <4>2, <4>3
    <3> QED  BY <1>1, <3>1 DEF SnapshotInv, AccountedInv
  <2>6. \A k : Excused(k) => Excused(k)'
    BY <1>1 DEF Excused, HeldSince, Now
  <2>7. AccountedInv'
    BY <1>1, <1>7, <2>5, <2>6 DEF AccountedInv
  <2> QED  BY <1>4, <1>5, <2>4, <2>7 DEF SnapshotInv
<1> QED
  BY <1>2, <1>6, <1>7

\* A row of the label or later survives an upsert.
LEMMA UpsertKeeps ==
    ASSUME SnapTypes, NEW batch, NEW r \in rows, r.slot >= label
    PROVE  r \in Upsert(batch)
<1>1. r.slot \in Nat /\ label \in Nat
  BY DEF SnapTypes
<1>2. \A a \in batch : Replaces(a) => ~SamePrimaryKey(a, r)
  BY <1>1 DEF Replaces
<1> QED
  BY <1>2 DEF Upsert

\* An account of the batch then has a row of the label or later: its own, or
\* the one that kept it out.
LEMMA UpsertCovers ==
    ASSUME SnapTypes, NEW batch, NEW a \in batch
    PROVE  \E r \in Upsert(batch) : r.key = a.key /\ r.slot >= label
<1>1. label \in Nat /\ \A r \in rows : r.slot \in Nat
  BY DEF SnapTypes
<1>2. CASE Replaces(a)
  <2>1. AsRow(a) \in Upsert(batch)
    BY <1>2 DEF Upsert
  <2>2. AsRow(a).key = a.key /\ AsRow(a).slot >= label
    BY <1>1 DEF AsRow
  <2> QED  BY <2>1, <2>2
<1>3. CASE ~Replaces(a)
  <2>1. PICK r \in rows : SamePrimaryKey(a, r) /\ r.slot >= label
    BY <1>1, <1>3 DEF Replaces
  <2> QED  BY <2>1, UpsertKeeps DEF SamePrimaryKey
<1> QED
  BY <1>2, <1>3

\* What write_block does to the tables.
LEMMA WriteBlockInv ==
    ASSUME SnapshotInv, pc = "write", NEW batch \in SUBSET todo, WriteBlock(batch),
           UNCHANGED <<hist, keys, label, infos>>
    PROVE  SnapTypes' /\ SlotIsNotAheadOfData' /\ checkpoint' = label /\ label <= Now
<1>1. rows' = Upsert(batch) /\ checkpoint' = label
  BY DEF WriteBlock
<1>2. /\ Now \in Nat /\ label \in Nat \ {0} /\ label <= Now
      /\ checkpoint \in Nat /\ checkpoint <= label
  BY DEF SnapshotInv, SnapTypes, LabelInv, Now
<1>3. ASSUME NEW r \in rows'
      PROVE  r.slot \in Nat \ {0} /\ r.slot <= label /\ HeldSince(r.key, r.content, r.slot)
  <2>1. CASE r \in rows
    BY <1>2, <2>1 DEF SnapshotInv, SnapTypes, SlotIsNotAheadOfData
  <2>2. CASE r \notin rows
    <3>1. PICK a \in batch : r = AsRow(a)
      BY <1>1, <2>2 DEF Upsert
    <3>2. r.slot = label /\ r.key = a.key /\ r.content = a.content
      BY <3>1 DEF AsRow
    <3>3. HeldSince(a.key, a.content, label)
      BY DEF SnapshotInv, FreshInv
    <3> QED  BY <1>2, <3>2, <3>3
  <2> QED  BY <2>1, <2>2
<1>4. SnapTypes'
  BY <1>1, <1>2, <1>3 DEF SnapshotInv, SnapTypes, Now
<1>5. SlotIsNotAheadOfData'
  BY <1>1, <1>3 DEF SlotIsNotAheadOfData, HeldSince, Now
<1> QED
  BY <1>1, <1>2, <1>4, <1>5

\* A batch that is written, a write that fails, and the end.
LEMMA WriteInv == ASSUME SnapshotInv, WriteAccounts PROVE SnapshotInv'
<1>1. pc = "write" /\ UNCHANGED <<hist, keys, label, asked, infos, stopped, unanswered>>
  BY DEF WriteAccounts
<1>2. \A k : Excused(k) => Excused(k)'
  BY <1>1 DEF Excused, HeldSince, Now
<1>3. \A k \in keys : Excused(k) \/ HasTodo(k) \/ HasRow(k)
  BY <1>1 DEF SnapshotInv, AccountedInv
<1>4. label \in Nat /\ label >= 1 /\ label <= Now /\ Now' = Now
  BY <1>1, Zenon DEF SnapshotInv, SnapTypes, LabelInv, Now
<1>5. CASE todo = {} /\ pc' = "ok" /\ UNCHANGED <<todo, tables>>
  <2>1. SnapTypes' /\ LabelInv' /\ SlotIsNotAheadOfData'
    BY <1>1, <1>4, <1>5 DEF SnapshotInv, SnapTypes, LabelInv, SlotIsNotAheadOfData, HeldSince, Now, tables
  <2>2. SnapshotIsComplete'
    BY <1>1, <1>2, <1>3, <1>5 DEF SnapshotIsComplete, HasTodo, HasRow, tables
  <2> QED  BY <1>5, <2>1, <2>2, Zenon DEF SnapshotInv, FreshInv, AccountedInv
<1>6. ASSUME NEW batch \in SUBSET todo, WriteBlock(batch), todo' = todo \ batch, pc' = pc
      PROVE  SnapshotInv'
  <2>1. SnapTypes' /\ SlotIsNotAheadOfData' /\ checkpoint' = label
    BY <1>1, <1>6, WriteBlockInv
  <2>2. LabelInv'
    BY <1>1, <1>4, <1>6, <2>1 DEF LabelInv
  <2>3. FreshInv'
    BY <1>1, <1>6 DEF SnapshotInv, FreshInv, HeldSince, Now
  <2>4. rows' = Upsert(batch) /\ SnapTypes
    BY <1>6 DEF WriteBlock, SnapshotInv
  <2>5. ASSUME NEW k, HasRow(k) PROVE HasRow(k)'
    BY <1>1, <2>4, <2>5, UpsertKeeps DEF HasRow
  <2>6. ASSUME NEW k, HasTodo(k) PROVE HasTodo(k)' \/ HasRow(k)'
    <3>1. PICK a \in todo : a.key = k
      BY <2>6 DEF HasTodo
    <3>2. CASE a \in batch
      <4>1. \E r \in Upsert(batch) : r.key = k /\ r.slot >= label
        BY <2>4, <3>1, <3>2, UpsertCovers, Zenon
      <4> QED  BY <1>1, <2>4, <4>1 DEF HasRow
    <3>3. CASE a \notin batch
      BY <1>6, <3>1, <3>3 DEF HasTodo
    <3> QED  BY <3>2, <3>3
  <2>7. AccountedInv' /\ SnapshotIsComplete'
    BY <1>1, <1>2, <1>3, <1>6, <2>5, <2>6, Zenon DEF AccountedInv, SnapshotIsComplete
  <2> QED  BY <2>1, <2>2, <2>3, <2>7 DEF SnapshotInv
<1>7. ASSUME NEW batch \in SUBSET todo, Propagate(batch)
      PROVE  SnapshotInv'
  <2>1. SnapTypes' /\ SlotIsNotAheadOfData'
    <3>1. CASE WriteBlock(batch)
      BY <1>1, <3>1, WriteBlockInv, Zenon
    <3>2. CASE UNCHANGED tables
      BY <1>1, <3>2 DEF SnapshotInv, SnapTypes, SlotIsNotAheadOfData, HeldSince, Now, tables
    <3> QED  BY <1>7, <3>1, <3>2 DEF Propagate
  <2>2. pc' = "err"
    BY <1>7 DEF Propagate
  <2> QED  BY <2>1, <2>2 DEF SnapshotInv, LabelInv, FreshInv, AccountedInv, SnapshotIsComplete
<1> QED
  BY <1>5, <1>6, <1>7 DEF WriteAccounts, Chunk

\* A finalized slot adds to the past of the accounts and takes nothing away.
LEMMA FinalizeInv == ASSUME SnapshotInv, Finalize PROVE SnapshotInv'
<1>1. UNCHANGED <<pc, keys, label, asked, infos, todo, stopped, unanswered, rows, checkpoint>>
  BY DEF Finalize, snapVars, tables
<1>2. PICK k \in Account, c \in Content \cup {Closed} :
        hist' = Append(hist, [hist[Now] EXCEPT ![k] = c])
  BY Zenon DEF Finalize
<1> DEFINE State == [Account -> Content \cup {Closed}]
           new == [hist[Now] EXCEPT ![k] = c]
<1>3. hist \in Seq(State) /\ Now \in Nat /\ Now >= 1
  BY DEF SnapshotInv, SnapTypes, Now
<1>4. hist[Now] \in State
  BY <1>3 DEF Now
<1>5. new \in State
  BY <1>4
<1> HIDE DEF State, new
<1>6. hist' \in Seq(State) /\ Now' = Now + 1 /\ \A t \in 1 .. Now : hist'[t] = hist[t]
  <2>1. hist' = Append(hist, new)
    BY <1>2 DEF new
  <2> QED  BY <1>3, <1>5, <2>1, AppendProperties DEF Now
<1>7. HistGrows
  BY <1>3, <1>6 DEF HistGrows, State
<1>8. SnapTypes' /\ LabelInv'
  BY <1>1, <1>3, <1>6 DEF SnapshotInv, SnapTypes, LabelInv, State
<1>9. SlotIsNotAheadOfData'
  <2> SUFFICES ASSUME NEW r \in rows
               PROVE  HeldSince(r.key, r.content, r.slot)' /\ r.slot <= checkpoint
    BY <1>1 DEF SlotIsNotAheadOfData
  <2>1. HeldSince(r.key, r.content, r.slot) /\ r.slot <= checkpoint /\ r.slot \in Nat \ {0}
    BY DEF SnapshotInv, SlotIsNotAheadOfData, SnapTypes
  <2> QED  BY <2>1, <1>7, HeldStays
<1>10. ASSUME label >= 1, NEW x, NEW y, HeldSince(x, y, label)
       PROVE  HeldSince(x, y, label)'
  <2>1. PICK s : s = label
    OBVIOUS
  <2>2. s \in Nat \ {0}
    BY <1>10, <2>1 DEF SnapshotInv, SnapTypes
  <2>3. HeldSince(x, y, s)'
    BY <1>7, <1>10, <2>1, <2>2, HeldStays, Zenon
  <2> QED  BY <1>1, <2>1, <2>3 DEF HeldSince
<1>11. FreshInv'
  BY <1>1, <1>10 DEF SnapshotInv, FreshInv, LabelInv
<1>12. ASSUME label >= 1, NEW x, Excused(x) PROVE Excused(x)'
  BY <1>1, <1>10, <1>12, Zenon DEF Excused
<1>13. AccountedInv'
  BY <1>1, <1>12 DEF SnapshotInv, AccountedInv, LabelInv, HasInfo, HasTodo, HasRow
<1>14. SnapshotIsComplete'
  BY <1>1, <1>12 DEF SnapshotInv, SnapshotIsComplete, LabelInv
<1> QED
  BY <1>8, <1>9, <1>11, <1>13, <1>14 DEF SnapshotInv

\* A call begins with nothing listed or fetched, or is not a snapshot.
LEMMA SnapshotCallInv == ASSUME SnapshotInv, Call PROVE SnapshotInv'
<1>1. UNCHANGED <<hist, tables>>
  BY DEF Call
<1>2. CASE StartSnapshot
  BY <1>1, <1>2, ElsewhereInv, Zenon DEF StartSnapshot, Returns
<1>3. CASE UNCHANGED snapVars /\ pc' \in {"listed", "blocks", "block", "transaction"}
  BY <1>1, <1>3, ElsewhereInv DEF snapVars, SnapshotInv, SnapTypes
<1> QED
  BY <1>2, <1>3 DEF Call, StartGetBlocks, Returns

\* The steps of the client, one by one.
LEMMA SnapshotStepInv == ASSUME SnapshotInv, ClientStep PROVE SnapshotInv'
<1>1. CASE (GetBlocks \/ GetBlock \/ GetTransaction) /\ UNCHANGED <<hist, snapVars, tables>>
  <2>1. pc' = pc \/ pc' \in {"err", "listed", "blocks", "some", "none"}
    BY <1>1, FailsLeaves DEF GetBlocks, ChunkListed, GetBlock, GetTransaction, FailedAttempt, Returns
  <2>2. CASE pc' = pc
    BY <1>1, <2>2, UnseenInv, Zenon
  <2>3. CASE pc' \in {"err", "listed", "blocks", "some", "none"}
    BY <1>1, <2>3, ElsewhereInv DEF snapVars, SnapshotInv, SnapTypes
  <2> QED  BY <2>1, <2>2, <2>3
<1>2. CASE GetMultipleAccounts
  BY <1>2, BatchInv, FailureInv DEF GetMultipleAccounts
<1> QED
  BY <1>1, <1>2, KeysInv, SlotInv, DecodeInv, WriteInv DEF ClientStep

\* SnapshotInv is inductive.
THEOREM SnapshotInvariant == SnapshotSpec => []SnapshotInv
<1>1. SnapshotInit => SnapshotInv
  <2> SUFFICES ASSUME SnapshotInit PROVE SnapshotInv
    OBVIOUS
  <2> DEFINE State == [Account -> Content \cup {Closed}]
  <2>1. PICK s \in State : hist = <<s>>
    BY DEF SnapshotInit
  <2> HIDE DEF State
  <2>2. hist \in Seq(State) /\ Now = 1
    BY <2>1 DEF Now
  <2>3. SnapTypes
    BY <2>2 DEF SnapshotInit, SnapTypes, State
  <2> QED  BY <2>3 DEF SnapshotInit, SnapshotInv, LabelInv, FreshInv, AccountedInv,
                       SlotIsNotAheadOfData, SnapshotIsComplete
<1>2. SnapshotInv /\ [SnapshotNext]_snapshotVars => SnapshotInv'
  <2> SUFFICES ASSUME SnapshotInv, [SnapshotNext]_snapshotVars PROVE SnapshotInv'
    OBVIOUS
  <2>1. CASE Cancel
    BY <2>1, UnseenInv DEF Cancel
  <2>2. CASE UNCHANGED snapshotVars
    BY <2>2, UnseenInv DEF snapshotVars
  <2> QED  BY <2>1, <2>2, SnapshotStepInv, SnapshotCallInv, FinalizeInv, Zenon DEF SnapshotNext
<1> QED
  BY <1>1, <1>2, PTL DEF SnapshotSpec

\* slot_updated of an account row is never later than its data, for any number
\* of accounts, snapshots, failures and batch sizes.
THEOREM SlotsAreNotAhead == SnapshotSpec => []SlotIsNotAheadOfData
<1>1. SnapshotInv => SlotIsNotAheadOfData
  BY DEF SnapshotInv
<1> QED
  BY <1>1, SnapshotInvariant, PTL

\* A snapshot that returned Ok has left a row for every account it listed but
\* those that were left out of an answer, closed or did not decode.
THEOREM SnapshotsAreComplete == SnapshotSpec => []SnapshotIsComplete
<1>1. SnapshotInv => SnapshotIsComplete
  BY DEF SnapshotInv
<1> QED
  BY <1>1, SnapshotInvariant, PTL

=============================================================================
