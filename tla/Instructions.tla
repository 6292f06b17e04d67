----------------------------- MODULE Instructions -----------------------------
(***************************************************************************)
(* From raw blocks to query answers: get_block and get_transaction         *)
(* (pipeline/rpc.rs) parse what the node returns, decode_transaction       *)
(* (pipeline/mod.rs) decodes the invocations of the program, write_block   *)
(* (storage/writer.rs) inserts them, and the handlers of api/handlers.rs   *)
(* read them back.  A backfill writes whole blocks, the stream single      *)
(* transactions, and both may write the same one.                          *)
(***************************************************************************)
EXTENDS Pages, Borsh

CONSTANTS
    Chains,         \* the chains considered: sequences of raw blocks
    Program,        \* the indexed program's key
    IndexFailedTxs, \* config.index_failed_txs
    IndexRange,     \* instruction indexes are u8: 256
    MaxBuckets,     \* MAX_BUCKETS of instruction_count
    BucketSize      \* seconds of a bucket

VARIABLES
    chain,   \* the chain
    indexed  \* history: the <<slot, position>> of the transactions written

instrVars == <<pagesVars, chain, indexed>>

NoTime == -1        \* block_time NULL
NoInner == -1       \* inner_index NULL
NotBase58 == <<-1>> \* instruction data that does not decode

-----------------------------------------------------------------------------
(* Parsing.  A raw transaction: [sigs, err, keys, writable, readonly, ixs, *)
(* inner]; an instruction: [prog, accts, data], indexes counted from 0.    *)

\* parse_raw_instruction fails on data that is not base58.
ParsesRawInstruction(ix) == ix.data # NotBase58

AllInstructions(raw) ==
    {raw.ixs[i] : i \in DOMAIN raw.ixs}
    \cup UNION {{raw.inner[g].ixs[i] : i \in DOMAIN raw.inner[g].ixs} : g \in DOMAIN raw.inner}

Parses(raw) == \A ix \in AllInstructions(raw) : ParsesRawInstruction(ix)

\* The account keys of the message, then the addresses loaded from tables.
AccountKeys(raw) == raw.keys \o raw.writable \o raw.readonly

Success(raw) == ~raw.err
Signature(raw) == IF raw.sigs = <<>> THEN 0 ELSE raw.sigs[1]

Parsed(raw, slot) ==
    [sig |-> Signature(raw), slot |-> slot, success |-> Success(raw),
     keys |-> AccountKeys(raw), ixs |-> raw.ixs, inner |-> raw.inner]

\* parse_block: failed transactions are left out before anything of them is
\* parsed; one instruction that does not parse fails the block.
Kept(raw) == IndexFailedTxs \/ Success(raw)
BlockParses(block) == \A k \in DOMAIN block.txs : Kept(block.txs[k]) => Parses(block.txs[k])
ParseBlock(slot, block) ==
    LET kept == SelectSeq(block.txs, Kept)
    IN  [k \in DOMAIN kept |-> Parsed(kept[k], slot)]

\* get_transaction fails on a transaction without a signature or one that does
\* not parse (the stream skips both).
TransactionOf(slot, raw) ==
    IF raw.sigs # <<>> /\ Parses(raw) THEN {Parsed(raw, slot)} ELSE {}

-----------------------------------------------------------------------------
(* Decoding.                                                               *)

\* account_keys.get(i)
KeyAt(keys, i) == IF i < Len(keys) THEN {keys[i + 1]} ELSE {}

InstructionTargetsProgram(ix, keys) == Program \in KeyAt(keys, ix.prog)

\* enrich_instruction: account indexes beyond the keys are dropped.
EnrichInstruction(decoded, tx, idx, inner, ix) ==
    LET known == SelectSeq(ix.accts, LAMBDA i : i < Len(tx.keys))
    IN  [sig |-> tx.sig, slot |-> tx.slot, time |-> NoTime,
         name |-> decoded.name, args |-> decoded.val,
         idx |-> idx % IndexRange, inner |-> inner,
         accounts |-> [a \in DOMAIN known |-> tx.keys[known[a] + 1]]]

\* The rows of a list of instructions; position[i] is the index of the i-th
\* and its index among the inner ones.
DecodeList(tx, ixs, position) ==
    LET ours == SelectSeq([i \in DOMAIN ixs |-> i],
                    LAMBDA i : InstructionTargetsProgram(ixs[i], tx.keys))
        decoded == [k \in DOMAIN ours |-> <<ours[k], DecodeInstruction(ixs[ours[k]].data, Idl)>>]
        good == SelectSeq(decoded, LAMBDA d : d[2].ok)
        row(i, d) == EnrichInstruction(d, tx, position[i][1], position[i][2], ixs[i])
    IN  [k \in DOMAIN good |-> row(good[k][1], good[k][2])]

\* decode_transaction: top-level instructions, then those of each inner group.
DecodeTransaction(tx) ==
    LET group(g) ==
            DecodeList(tx, tx.inner[g].ixs, [i \in DOMAIN tx.inner[g].ixs |->
                                                <<tx.inner[g].index, (i - 1) % IndexRange>>])
    IN  IF ~IndexFailedTxs /\ ~tx.success THEN <<>>
        ELSE DecodeList(tx, tx.ixs, [i \in DOMAIN tx.ixs |-> <<i - 1, NoInner>>])
             \o FlattenSeq([g \in DOMAIN tx.inner |-> group(g)])

\* decode_block: the rows of its transactions, with the time of the block.
DecodeBlock(block, txs) ==
    LET rows == FlattenSeq([k \in DOMAIN txs |-> DecodeTransaction(txs[k])])
    IN  [k \in DOMAIN rows |-> [rows[k] EXCEPT !.time = block.time]]

-----------------------------------------------------------------------------
(* Writing.  The unique index is on (signature, instruction_index,         *)
(* COALESCE(inner_index, -1)); ON CONFLICT DO NOTHING.                     *)

\* Variant: the index without the inner index.
ConflictsOnPosition(r, s) == r.sig = s.sig /\ r.idx = s.idx
Conflicts(r, s) == r.sig = s.sig /\ r.idx = s.idx /\ r.inner = s.inner

\* Variant: ON CONFLICT DO UPDATE.
UpsertRow(rows, r) == {s \in rows : ~Conflicts(r, s)} \cup {r}
InsertRow(rows, r) == IF \E s \in rows : Conflicts(r, s) THEN rows ELSE rows \cup {r}

WriteInstructions(rows) == table' = FoldLeft(InsertRow, table, rows)

\* The backfill fetches, decodes and writes a block; one that does not parse
\* is skipped.
IndexBlock(slot) ==
    /\ BlockParses(chain[slot])
    /\ WriteInstructions(DecodeBlock(chain[slot], ParseBlock(slot, chain[slot])))
    /\ indexed' = indexed \cup {<<slot, k>> : k \in DOMAIN chain[slot].txs}
    /\ UNCHANGED <<walkVars, chain>>

\* The stream fetches one transaction; its rows have no block time.
IndexTransaction(slot, k) ==
    /\ \E tx \in TransactionOf(slot, chain[slot].txs[k]) :
          WriteInstructions(DecodeTransaction(tx))
    /\ indexed' = indexed \cup {<<slot, k>>}
    /\ UNCHANGED <<walkVars, chain>>

Writing ==
    \E slot \in DOMAIN chain :
        IndexBlock(slot) \/ \E k \in DOMAIN chain[slot].txs : IndexTransaction(slot, k)

-----------------------------------------------------------------------------
(* The aggregations: functions of the rows.                                *)

\* instruction_count: rows with a block time in the range, by bucket.  The
\* variant leaves out the end of the range.
TimedBefore(name, from, to) ==
    {r \in table : r.name = name /\ r.time # NoTime /\ from <= r.time /\ r.time < to}
Timed(name, from, to) ==
    {r \in table : r.name = name /\ r.time # NoTime /\ from <= r.time /\ r.time <= to}
Bucket(r) == r.time \div BucketSize

InstructionCount(name, from, to) ==
    LET buckets == {Bucket(r) : r \in Timed(name, from, to)}
    IN  IF Cardinality(buckets) > MaxBuckets THEN Err("invalid_value")
        ELSE Ok([b \in buckets |-> Cardinality({r \in Timed(name, from, to) : Bucket(r) = b})],
                Cardinality(buckets))

\* program_stats: instruction_counts.
InstructionCounts ==
    [name \in {r.name : r \in table} |-> Cardinality({r \in table : r.name = name})]

-----------------------------------------------------------------------------
Init == PagesInit /\ chain \in Chains /\ indexed = {}

Reading == (NextPage \/ \E q \in Request : FirstPage(q)) /\ UNCHANGED <<chain, indexed>>

Next == Writing \/ Reading

\* A client that goes on asks for the next page in the end.
Spec == Init /\ [][Next]_instrVars
             /\ WF_instrVars(NextPage /\ UNCHANGED <<chain, indexed>>)

-----------------------------------------------------------------------------
(* Properties.                                                             *)

\* The values an instruction's arguments may have, as Borsh writes them.
ArgEncodings ==
    [name \in {e.name : e \in Range(Idl.instructions)} |->
        LET e == CHOOSE e \in Range(Idl.instructions) : e.name = name
        IN  EncodingsOfAll([k \in DOMAIN e.args |-> e.args[k].ty], FromIdl(Idl.types), 0)]

\* What Borsh and Solana say was invoked at a position of a transaction: if
\* the program runs there and the data begins with an instruction's
\* discriminator and the encoding of its arguments, the row that says so.
InvokedAt(slot, raw, idx, inner, ix) ==
    LET keys == raw.keys \o raw.writable \o raw.readonly
        ours == ix.prog + 1 \in DOMAIN keys /\ keys[ix.prog + 1] = Program
        disc(e) == IF e.disc = <<>> THEN Computed("global", e.name) ELSE e.disc
        payload(e) == SubSeq(ix.data, Len(disc(e)) + 1, Len(ix.data))
        row(e, a) == [sig |-> raw.sigs[1], slot |-> slot, name |-> e.name, idx |-> idx, inner |-> inner,
                      args |-> <<"obj", [k \in DOMAIN a.val |-> <<e.args[k].name, a.val[k]>>]>>,
                      accounts |-> [k \in DOMAIN ix.accts |-> keys[ix.accts[k] + 1]]]
    IN  IF ~ours THEN {}
        ELSE UNION {{row(e, a) : a \in {b \in ArgEncodings[e.name] : IsPrefix(b.bytes, payload(e))}} :
                        e \in {e \in Range(Idl.instructions) : IsPrefix(disc(e), ix.data)}}

Invoked(slot, raw) ==
    IF raw.err /\ ~IndexFailedTxs THEN {}
    ELSE UNION {InvokedAt(slot, raw, i - 1, NoInner, raw.ixs[i]) : i \in DOMAIN raw.ixs}
         \cup UNION {UNION {InvokedAt(slot, raw, raw.inner[g].index, i - 1, raw.inner[g].ixs[i]) :
                              i \in DOMAIN raw.inner[g].ixs} : g \in DOMAIN raw.inner}

WithoutTime(r) == [f \in DOMAIN r \ {"time"} |-> r[f]]

\* The table holds exactly the invocations of the transactions that were
\* written, each with its arguments: the decoder accepts what Borsh writes
\* and nothing else, every invocation has a row of its own, and a
\* transaction leaves the same rows, but for block_time, whether the backfill or
\* the stream wrote it, or both (parse_block, decode_transaction, build_instruction_sql).
RowsAreInvocations ==
    {WithoutTime(r) : r \in table}
        = UNION {Invoked(p[1], chain[p[1]].txs[p[2]]) : p \in indexed}

\* instruction_count and program_stats tell the same story: the buckets of a
\* range that is cut in two add up to those of the whole, and with the rows
\* that have no block time to the program's count.
CountsAgree ==
    LET sum(answer) == MapThenSumSet(LAMBDA b : answer.val[b], DOMAIN answer.val)
        times == {r.time : r \in table} \ {NoTime}
        Latest == IF times = {} THEN 0 ELSE Max(times)
    IN  \A name \in DOMAIN InstructionCounts, cut \in 0 .. Latest :
            LET all == InstructionCount(name, 0, Latest)
                low == InstructionCount(name, 0, cut)
                high == InstructionCount(name, cut + 1, Latest)
                untimed == {r \in table : r.name = name /\ r.time = NoTime}
            IN  all.ok => /\ low.ok /\ high.ok
                          /\ sum(low) + sum(high) = sum(all)
                          /\ sum(all) + Cardinality(untimed) = InstructionCounts[name]

\* A walk through the pages ends, though rows are inserted meanwhile.
WalkEnds == walk = "more" ~> walk = "done"
=============================================================================
