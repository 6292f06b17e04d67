------------------------------ MODULE Snapshot ------------------------------
(***************************************************************************)
(* run_account_snapshot (pipeline/mod.rs): list the program's accounts,    *)
(* read the current slot, fetch the accounts in batches, decode them and   *)
(* upsert them.  The chain moves on between any two requests.              *)
(*                                                                         *)
(* The content of an account is abstract; DecodeAccount gives what         *)
(* decode_account makes of it: {}, or {<<type, value>>}.  Each account     *)
(* type has its table.  Storable tells whether the promoted columns of     *)
(* such a value can be written.                                            *)
(*                                                                         *)
(* The node lists the accounts in any order, so a list of them is a set,   *)
(* and one of its batches any part of it that has the size of the batch.   *)
(***************************************************************************)
EXTENDS RpcClient, Sequences

CONSTANTS
    Account,            \* public keys
    Content,            \* what an account may hold
    Closed,             \* the content of an account that does not exist
    DecodeAccount(_),
    Storable(_),
    FetchBatch,         \* MAX_MULTIPLE_ACCOUNTS_BATCH
    WriteBatch,         \* ACCOUNT_WRITE_BATCH
    MaxSlot,            \* bound on the chain
    MaxCalls            \* bound on the calls

ASSUME SnapshotConstants ==
    /\ IsFiniteSet(Account) /\ Closed \notin Content
    /\ FetchBatch \in Nat \ {0} /\ WriteBatch \in Nat \ {0} /\ MaxSlot \in Nat \ {0}

VARIABLES
    hist,       \* hist[s]: the contents of the accounts at the finalized slot s
    keys,       \* pubkeys: the answer of get_program_accounts
    label,      \* current_slot
    asked,      \* the keys get_multiple_accounts has asked for so far
    infos,      \* account_infos: <<key, content>> pairs
    todo,       \* decoded_accounts not yet written: [key, content, data]
    rows,       \* the account tables: [key, slot, content, data], content as history
    checkpoint, \* last_slot of the stream "accounts"
    cancelled,  \* the cancellation token
    stopped,    \* history: the snapshot stopped because of the token
    unanswered, \* history: keys of this snapshot that short answers left out
    calls       \* number of calls so far

snapVars == <<keys, label, asked, infos, todo, stopped, unanswered>>
tables == <<rows, checkpoint>>
snapshotVars == <<pc, retryVars, blocksVars, hist, snapVars, tables, cancelled, calls>>

Now == Len(hist)
Live == {k \in Account : hist[Now][k] # Closed}
Ended == pc \in {"off", "some", "none", "listed", "ok", "err"}

\* chunks(n): what the next chunk of the list S may be.
Chunk(S, n) == {b \in SUBSET S : Cardinality(b) = Smaller(n, Cardinality(S))}

-----------------------------------------------------------------------------
(* The requests, in the order of the function.                             *)

StartSnapshot ==
    /\ Returns("keys")
    /\ keys' = {} /\ infos' = {} /\ todo' = {}
    /\ label' = 0 /\ asked' = {}
    /\ stopped' = FALSE /\ unanswered' = {}

\* get_program_accounts; without accounts the snapshot is complete.
GetProgramAccounts ==
    /\ pc = "keys"
    /\ \/ /\ keys' = Live
          /\ Returns(IF Live = {} THEN "ok" ELSE "slot")
          /\ UNCHANGED <<label, asked, infos, todo, stopped, unanswered>>
       \/ RpcFails /\ UNCHANGED snapVars
    /\ UNCHANGED <<blocksVars, hist, tables, cancelled, calls>>

\* get_slot.
GetSlot ==
    /\ pc = "slot"
    /\ \/ /\ label' = Now
          /\ Returns("accounts")
          /\ UNCHANGED <<keys, asked, infos, todo, stopped, unanswered>>
       \/ RpcFails /\ UNCHANGED snapVars
    /\ UNCHANGED <<blocksVars, hist, tables, cancelled, calls>>

\* batch_pubkeys.
NextBatch == Chunk(keys \ asked, FetchBatch)

\* The answer for some keys: those of the accounts that exist, each with its
\* content.
Answered(batch) == {<<k, hist[Now][k]>> : k \in batch \cap Live}

\* get_multiple_accounts, one batch: an entry or null for every key, or fewer
\* entries; an answer with more entries is an error like one that does not
\* parse.
BatchAnswered ==
    \E batch \in NextBatch : \E short \in SUBSET batch :
        /\ infos' = infos \cup Answered(batch \ short)
        /\ unanswered' = unanswered \cup short
        /\ asked' = asked \cup batch
        /\ Returns(IF asked' = keys THEN "decode" ELSE "accounts")
        /\ UNCHANGED <<keys, label, todo, stopped>>

GetMultipleAccounts ==
    /\ pc = "accounts"
    /\ BatchAnswered \/ (RpcFails /\ UNCHANGED snapVars)
    /\ UNCHANGED <<blocksVars, hist, tables, cancelled, calls>>

-----------------------------------------------------------------------------
(* Decoding and writing.                                                   *)

Decodes(info) == DecodeAccount(info[2]) # {}
DecodedAccount(info) ==
    [key |-> info[1], content |-> info[2], data |-> CHOOSE d \in DecodeAccount(info[2]) : TRUE]

\* The loop over account_infos, which are not used after it; the token stops
\* it with Ok(()).
Decode ==
    /\ pc = "decode"
    /\ \/ /\ cancelled /\ infos # {}
          /\ pc' = "ok" /\ stopped' = TRUE
          /\ UNCHANGED todo
       \/ /\ ~cancelled \/ infos = {}
          /\ todo' = {DecodedAccount(info) : info \in {i \in infos : Decodes(i)}}
          /\ pc' = "write"
          /\ UNCHANGED stopped
    /\ infos' = {} /\ asked' = {}
    /\ UNCHANGED <<retryVars, blocksVars, hist, keys, label, unanswered, tables, cancelled, calls>>

\* The table of an account is that of its type, its primary key the public key.
SamePrimaryKey(a, r) == a.key = r.key /\ a.data[1] = r.data[1]
\* Variant: the slot at which the row is written.
AsRowOfNow(a) == [key |-> a.key, slot |-> Now, content |-> a.content, data |-> a.data]
AsRow(a) == [key |-> a.key, slot |-> label, content |-> a.content, data |-> a.data]

\* build_account_upsert_sql: a row is replaced only by one of a later slot.
Replaces(a) == \A r \in rows : SamePrimaryKey(a, r) => label > r.slot
Upsert(batch) ==
    LET new == {a \in batch : Replaces(a)}
    IN  {r \in rows : \A a \in new : ~SamePrimaryKey(a, r)} \cup {AsRow(a) : a \in new}

\* write_block on a batch: the rows and the checkpoint.  A value that does not
\* fit its promoted column fails the statement.
WriteBlock(batch) ==
    /\ \A a \in batch : Storable(a.data)
    /\ rows' = Upsert(batch)
    /\ checkpoint' = label

\* A failed write ends the snapshot; the answer to a commit may be what was
\* lost.  Variant: the failure is logged.
LogFailure(batch) == todo' = todo \ batch /\ UNCHANGED <<pc, tables>>
Propagate(batch) ==
    /\ UNCHANGED tables \/ WriteBlock(batch)
    /\ pc' = "err" /\ UNCHANGED todo

WriteAccounts ==
    /\ pc = "write"
    /\ \/ todo = {} /\ pc' = "ok" /\ UNCHANGED <<todo, tables>>
       \/ /\ todo # {}
          /\ \E batch \in Chunk(todo, WriteBatch) :
                \/ WriteBlock(batch) /\ todo' = todo \ batch /\ UNCHANGED pc
                \/ Propagate(batch)
    /\ UNCHANGED <<retryVars, blocksVars, hist, keys, label, asked, infos, stopped, unanswered,
                   cancelled, calls>>

-----------------------------------------------------------------------------
(* The environment.                                                        *)

\* A slot is finalized in which at most one account changed.
Finalize ==
    /\ Now < MaxSlot
    /\ \E k \in Account, c \in Content \cup {Closed} :
          hist' = Append(hist, [hist[Now] EXCEPT ![k] = c])
    /\ UNCHANGED <<pc, retryVars, blocksVars, snapVars, tables, cancelled, calls>>

Cancel ==
    /\ ~cancelled /\ cancelled' = TRUE
    /\ UNCHANGED <<pc, retryVars, blocksVars, hist, snapVars, tables, calls>>

\* A caller starts a snapshot, lists blocks or asks for one or a transaction.
Call ==
    /\ Ended /\ calls < MaxCalls /\ calls' = calls + 1
    /\ \/ StartSnapshot /\ UNCHANGED blocksVars
       \/ \E start, end \in 0 .. MaxU64 : StartGetBlocks(start, end) /\ UNCHANGED snapVars
       \/ (Returns("block") \/ Returns("transaction")) /\ UNCHANGED <<blocksVars, snapVars>>
    /\ UNCHANGED <<hist, tables, cancelled>>

ClientStep ==
    \/ (GetBlocks \/ GetBlock \/ GetTransaction) /\ UNCHANGED <<hist, snapVars, tables, cancelled, calls>>
    \/ GetProgramAccounts \/ GetSlot \/ GetMultipleAccounts
    \/ Decode \/ WriteAccounts

SnapshotInit ==
    /\ pc = "off" /\ waited = 0 /\ tries = 0 /\ BlocksInit
    /\ hist \in {<<s>> : s \in [Account -> Content \cup {Closed}]}
    /\ keys = {} /\ infos = {} /\ todo = {} /\ label = 0 /\ asked = {}
    /\ stopped = FALSE /\ unanswered = {} /\ rows = {} /\ checkpoint = 0
    /\ cancelled = FALSE /\ calls = 0

SnapshotNext == ClientStep \/ Call \/ Finalize \/ Cancel

\* Every attempt gets an answer, if only a timeout, and every statement ends.
SnapshotSpec == SnapshotInit /\ [][SnapshotNext]_snapshotVars /\ WF_snapshotVars(ClientStep)

-----------------------------------------------------------------------------
(* Properties.                                                             *)

\* The account k had content c at a finalized slot not before s.
HeldSince(k, c, s) == \E t \in s .. Now : hist[t][k] = c

\* A row's slot_updated is never later than its data: the content is one the
\* account had at that slot or after it (get_slot comes before the fetch), and
\* the stream's checkpoint is not behind it.
SlotIsNotAheadOfData ==
    \A r \in rows : /\ HeldSince(r.key, r.content, r.slot)
                    /\ r.slot <= checkpoint

\* The account k may have no row: it was left out of a short answer, had been
\* closed when it was asked for, or did not decode.
Excused(k) ==
    \/ k \in unanswered
    \/ \E c \in Content \cup {Closed} :
          HeldSince(k, c, label) /\ (c = Closed \/ DecodeAccount(c) = {})

\* A snapshot that returned Ok and was not cancelled has left a row at least
\* as recent as its slot for every account it listed and is not excused of.
SnapshotIsComplete ==
    pc = "ok" /\ ~stopped =>
        \A k \in keys : Excused(k) \/ \E r \in rows : r.key = k /\ r.slot >= label

\* A call ends, whatever the node answers: the retries have a total delay.
CallsEnd == []<>Ended

=============================================================================
