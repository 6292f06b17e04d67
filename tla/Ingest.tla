------------------------------- MODULE Ingest -------------------------------
(***************************************************************************)
(* The write path of the Solarix pipeline: a producer that walks a slot    *)
(* range chunk by chunk (run_backfill and mini_backfill, which share       *)
(* process_chunk), a bounded mpsc channel, and a writer task that commits  *)
(* one block at a time together with its stream's checkpoint.              *)
(*                                                                         *)
(* There is one producer/channel/writer triple per job: "backfill"         *)
(* (run_backfill) and "catchup" (mini_backfill).  Slots are 1..MaxSlot and *)
(* 0 stands for an absent slot (no checkpoint row, NULL                    *)
(* last_processed_slot).  A transaction stands for the rows its decodable  *)
(* instructions become: both paths write the rows of one transaction       *)
(* together or not at all.                                                 *)
(***************************************************************************)
EXTENDS Integers, Sequences, FiniteSets

CONSTANTS Tx,               \* transactions that mention the program
          TxSlot,           \* the slot each transaction is in
          FailedTx,         \* transactions whose meta.err is set
          UndecodableTx,    \* transactions no instruction of which decodes
          IndexFailedTxs,   \* config.index_failed_txs
          MaxSlot,          \* last slot of the chain
          ChunkSize,        \* config.backfill_chunk_size
          ChannelCapacity   \* config.channel_capacity

Slot == 1..MaxSlot
Job == {"backfill", "catchup"}
Stream == Job \cup {"realtime"}

\* config.rs forces channel_capacity to be positive, but not backfill_chunk_size.
ASSUME IngestAssumption ==
    /\ MaxSlot \in Nat
    /\ IsFiniteSet(Tx)
    /\ TxSlot \in [Tx -> Slot]
    /\ FailedTx \subseteq Tx
    /\ UndecodableTx \subseteq Tx
    /\ IndexFailedTxs \in BOOLEAN
    /\ ChunkSize \in Nat
    /\ ChannelCapacity \in Nat \ {0}

VARIABLES
    finalized,      \* tip of the chain at commitment "finalized"
    stored,         \* _instructions: the transactions whose rows are committed
    checkpoint,     \* _checkpoints.last_slot, per stream
    status,         \* indexer_state.status
    lastProcessed,  \* indexer_state.last_processed_slot
    total,          \* indexer_state.total_instructions
    cancelled,      \* the cancellation token each job watches
    pc,             \* where the producer of each job is
    from, to,       \* the slot range of the job
    at,             \* the slot the producer looks at next
    chunkEnd,       \* last slot of the chunk in progress
    failed,         \* the producer's result is an error
    chan,           \* slots of the WriteBatches in the channel
    wr,             \* where the writer task is
    held,           \* slot of the batch the writer took from the channel
    written,        \* rows this writer task inserted so far
    unfetched,      \* history: slots given up because get_block failed
    undrained       \* history: slots given up because a drain write failed

dbVars   == <<stored, checkpoint>>
rowVars  == <<status, lastProcessed>>
prodVars == <<pc, from, to, at, chunkEnd, failed>>
wrVars   == <<wr, held, written>>
ingestVars == <<finalized, dbVars, rowVars, total, cancelled, prodVars,
                chan, wrVars, unfetched, undrained>>

PC == {"off", "chunk", "slot", "send", "beat", "join", "ok", "err"}
WR == {"off", "recv", "write", "drain", "drainWrite", "flush", "ok", "err"}
Status == {"initializing", "backfilling", "idle", "failed", "streaming",
           "catching_up", "error", "stopped"}

\* A job owns a live producer; a writer task still holds the receiver.
Running(j)  == pc[j] \in {"chunk", "slot", "send", "beat", "join"}
ReceivingForever(j) == wr[j] # "off"     \* variant: the receiver outlives the task
Receiving(j) == wr[j] \notin {"off", "ok", "err"}

Larger(a, b) == IF a > b THEN a ELSE b
Smaller(a, b) == IF a < b THEN a ELSE b

-----------------------------------------------------------------------------
(* Decoding.  decode_transaction skips failed transactions unless          *)
(* configured otherwise, and every instruction that does not decode.       *)

Decodes(t) ==
    /\ IndexFailedTxs \/ t \notin FailedTx
    /\ t \notin UndecodableTx

DecodeBlock(s) == {t \in Tx : TxSlot[t] = s /\ Decodes(t)}

-----------------------------------------------------------------------------
(* Storage.                                                                *)

\* Variant of UpdateIndexerState: COALESCE instead of GREATEST.
UpdateWithoutGreatest(s, slot) ==
    /\ status' = s
    /\ lastProcessed' = IF slot = 0 THEN lastProcessed ELSE slot

\* update_indexer_state: the status is overwritten, the slot only moves forward
\* (GREATEST); slot 0 is a call without a slot.
UpdateIndexerState(s, slot) ==
    /\ status' = s
    /\ lastProcessed' = Larger(lastProcessed, slot)

\* A call that may fail, with the update done or not.
TryUpdateIndexerState(s, slot) ==
    UpdateIndexerState(s, slot) \/ UNCHANGED rowVars

\* The upsert of a stream's checkpoint: the last slot written, not the largest.
UpdateCheckpoint(stream, slot) == checkpoint' = [checkpoint EXCEPT ![stream] = slot]

\* write_block: rows (ON CONFLICT DO NOTHING) and checkpoint in one transaction.
WriteBlock(stream, rows, slot) ==
    /\ stored' = stored \cup rows
    /\ UpdateCheckpoint(stream, slot)

\* rows_affected; the variant counts the batch.
BatchRows(rows) == Cardinality(rows)
NewRows(rows) == Cardinality(rows \ stored)

\* Variant of FailedWrite: rows and checkpoint are not one transaction.
FailedWriteNotAtomic(stream, rows, slot) ==
    /\ stored' \in {stored, stored \cup rows}
    /\ checkpoint' = [checkpoint EXCEPT ![stream] = slot]

\* write_block returned an error: the transaction was rolled back, or it was
\* committed and the acknowledgement was lost.
FailedWrite(stream, rows, slot) ==
    WriteBlock(stream, rows, slot) \/ UNCHANGED dbVars

-----------------------------------------------------------------------------
(* The producer: run_backfill, mini_backfill and process_chunk.            *)

\* The channel is created, the writer task spawned, the chunk loop entered.
SpawnWriter(j, lo, hi) ==
    /\ pc' = [pc EXCEPT ![j] = "chunk"]
    /\ from' = [from EXCEPT ![j] = lo]
    /\ to' = [to EXCEPT ![j] = hi]
    /\ at' = [at EXCEPT ![j] = lo]
    /\ chunkEnd' = [chunkEnd EXCEPT ![j] = 0]
    /\ failed' = [failed EXCEPT ![j] = FALSE]
    /\ chan' = [chan EXCEPT ![j] = <<>>]
    /\ wr' = [wr EXCEPT ![j] = "recv"]
    /\ held' = [held EXCEPT ![j] = 0]
    /\ written' = [written EXCEPT ![j] = 0]

\* The range lo..hi is empty: the job returns Ok without a channel.
ReturnEarly(j, lo, hi) ==
    /\ pc' = [pc EXCEPT ![j] = "ok"]
    /\ from' = [from EXCEPT ![j] = lo]
    /\ to' = [to EXCEPT ![j] = hi]
    /\ at' = [at EXCEPT ![j] = lo]
    /\ UNCHANGED <<rowVars, chunkEnd, failed, chan, wrVars>>

\* A query before the channel exists failed.
FailEarly(j) ==
    /\ pc' = [pc EXCEPT ![j] = "err"]
    /\ UNCHANGED <<from, to, at, chunkEnd, failed, chan, wrVars>>

\* effective_start: a backfill resumes after its own checkpoint, never before the
\* slot it was asked to start at.  The variant begins its last range again.
StartOfRange(start) ==
    IF checkpoint["backfill"] = 0 THEN start ELSE Larger(from["backfill"], start)
EffectiveStart(start) ==
    IF checkpoint["backfill"] = 0 THEN start
    ELSE Larger(checkpoint["backfill"] + 1, start)

\* run_backfill up to the chunk loop.
RunBackfill(start, end) ==
    LET effective == EffectiveStart(start)
    IN  /\ ~Running("backfill")
        /\ \/ FailEarly("backfill") /\ UNCHANGED rowVars     \* no checkpoint read
           \/ /\ effective > end
              /\ ReturnEarly("backfill", effective, end)
           \/ /\ effective <= end
              /\ \/ /\ UpdateIndexerState("backfilling", effective)
                    /\ SpawnWriter("backfill", effective, end)
                 \/ /\ TryUpdateIndexerState("backfilling", effective)
                    /\ FailEarly("backfill")
        /\ UNCHANGED <<finalized, dbVars, total, cancelled, unfetched, undrained>>

\* mini_backfill up to the chunk loop: the gap runs from the slot after the
\* disconnect to the finalized tip.
MiniBackfill(disconnectSlot) ==
    /\ ~Running("catchup")
    /\ \/ FailEarly("catchup") /\ UNCHANGED rowVars          \* get_slot failed
       \/ /\ disconnectSlot + 1 > finalized
          /\ ReturnEarly("catchup", disconnectSlot + 1, finalized)
       \/ /\ disconnectSlot + 1 <= finalized
          /\ SpawnWriter("catchup", disconnectSlot + 1, finalized)
          /\ UNCHANGED rowVars
    /\ UNCHANGED <<finalized, dbVars, total, cancelled, unfetched, undrained>>

\* compute_backfill_chunks, one chunk at a time: no chunk when the range is
\* used up or the chunk size is 0.  The variant misses a last chunk of one slot.
MoreThanOneSlot(j) == ChunkSize > 0 /\ at[j] < to[j]
MoreChunks(j) == ChunkSize > 0 /\ at[j] <= to[j]
ChunkEndOf(j) == Smaller(at[j] + ChunkSize - 1, to[j])

\* The head of the chunk loop: stop on cancellation or after the last chunk
\* (which drops the sender), otherwise list the chunk's blocks.
NextChunk(j) ==
    /\ pc[j] = "chunk"
    /\ \/ /\ cancelled[j] \/ ~MoreChunks(j)
          /\ pc' = [pc EXCEPT ![j] = "join"]
          /\ UNCHANGED <<chunkEnd, failed>>
       \/ /\ ~cancelled[j] /\ MoreChunks(j)
          /\ chunkEnd' = [chunkEnd EXCEPT ![j] = ChunkEndOf(j)]
          /\ \/ /\ pc' = [pc EXCEPT ![j] = "slot"]
                /\ UNCHANGED failed
             \/ /\ pc' = [pc EXCEPT ![j] = "join"]     \* get_blocks failed
                /\ failed' = [failed EXCEPT ![j] = TRUE]
    /\ UNCHANGED <<finalized, dbVars, rowVars, total, cancelled, from, to, at,
                   chan, wrVars, unfetched, undrained>>

\* The body of process_chunk's loop up to the send.  A block without decoded
\* instructions, a skipped slot and a block that cannot be fetched all let the
\* loop go on to the next slot (that a block with nothing to write could not be
\* fetched makes no difference).
FetchBlock(j) ==
    /\ pc[j] = "slot"
    /\ \/ /\ cancelled[j] \/ at[j] > chunkEnd[j]
          /\ pc' = [pc EXCEPT ![j] = "beat"]
          /\ UNCHANGED <<at, unfetched>>
       \/ /\ ~cancelled[j] /\ at[j] <= chunkEnd[j]
          /\ \/ /\ DecodeBlock(at[j]) # {}
                /\ pc' = [pc EXCEPT ![j] = "send"]
                /\ UNCHANGED <<at, unfetched>>
             \/ /\ DecodeBlock(at[j]) = {}
                /\ at' = [at EXCEPT ![j] = @ + 1]
                /\ UNCHANGED <<pc, unfetched>>
             \/ /\ DecodeBlock(at[j]) # {}             \* get_block failed
                /\ at' = [at EXCEPT ![j] = @ + 1]
                /\ unfetched' = unfetched \cup {at[j]}
                /\ UNCHANGED pc
    /\ UNCHANGED <<finalized, dbVars, rowVars, total, cancelled, from, to,
                   chunkEnd, failed, chan, wrVars, undrained>>

\* The bounded channel has a free permit; the variant is one off.
RoomForOneMore(j) == Len(chan[j]) <= ChannelCapacity
HasRoom(j) == Len(chan[j]) < ChannelCapacity

\* tx.send: waits for room while the receiver lives, fails once it is dropped.
SendBatch(j) ==
    /\ pc[j] = "send"
    /\ \/ /\ Receiving(j) /\ HasRoom(j)
          /\ chan' = [chan EXCEPT ![j] = Append(@, at[j])]
          /\ at' = [at EXCEPT ![j] = @ + 1]
          /\ pc' = [pc EXCEPT ![j] = "slot"]
          /\ UNCHANGED failed
       \/ /\ ~Receiving(j)
          /\ failed' = [failed EXCEPT ![j] = TRUE]
          /\ pc' = [pc EXCEPT ![j] = "join"]
          /\ UNCHANGED <<chan, at>>
    /\ UNCHANGED <<finalized, dbVars, rowVars, total, cancelled, from, to,
                   chunkEnd, wrVars, unfetched, undrained>>

\* process_chunk returned Ok: run_backfill writes its heartbeat, mini_backfill
\* has none.  A cancelled process_chunk also returns Ok.
ChunkHeartbeat(j) ==
    /\ pc[j] = "beat"
    /\ pc' = [pc EXCEPT ![j] = "chunk"]
    /\ chunkEnd' = [chunkEnd EXCEPT ![j] = 0]
    /\ IF j = "backfill" THEN TryUpdateIndexerState("backfilling", chunkEnd[j])
                         ELSE UNCHANGED rowVars
    /\ UNCHANGED <<finalized, dbVars, total, cancelled, from, to, at,
                   failed, chan, wrVars, unfetched, undrained>>

\* backfill_result after the writer task was awaited; the variant drops the
\* writer's error.
ProducerFailed(j) == failed[j]
JobFailed(j) == failed[j] \/ wr[j] = "err"

\* The sender is dropped and the writer task awaited.  run_backfill then records
\* the outcome.
JoinWriter(j) ==
    /\ pc[j] = "join"
    /\ wr[j] \in {"ok", "err"}
    /\ \/ /\ JobFailed(j)
          /\ pc' = [pc EXCEPT ![j] = "err"]
          /\ IF j = "backfill" THEN TryUpdateIndexerState("failed", 0)
                               ELSE UNCHANGED rowVars
       \/ /\ ~JobFailed(j)
          /\ j = "catchup" \/ cancelled[j]
          /\ pc' = [pc EXCEPT ![j] = "ok"]
          /\ UNCHANGED rowVars
       \/ /\ ~JobFailed(j) /\ j = "backfill" /\ ~cancelled[j]
          /\ \/ /\ UpdateIndexerState("idle", to[j])
                /\ pc' = [pc EXCEPT ![j] = "ok"]
             \/ /\ TryUpdateIndexerState("idle", to[j])
                /\ pc' = [pc EXCEPT ![j] = "err"]
    /\ failed' = [failed EXCEPT ![j] = FALSE]
    /\ chunkEnd' = [chunkEnd EXCEPT ![j] = 0]
    /\ wr' = [wr EXCEPT ![j] = "off"]
    /\ UNCHANGED <<finalized, dbVars, total, cancelled, from, to, at,
                   chan, held, written, unfetched, undrained>>

-----------------------------------------------------------------------------
(* writer_task.                                                            *)

\* Either branch that takes a batch out of the channel: recv in the select, or
\* try_recv in the drain loop.
TakeBatch(j) ==
    /\ wr[j] \in {"recv", "drain"}
    /\ chan[j] # <<>>
    /\ held' = [held EXCEPT ![j] = Head(chan[j])]
    /\ chan' = [chan EXCEPT ![j] = Tail(@)]
    /\ wr' = [wr EXCEPT ![j] = IF @ = "recv" THEN "write" ELSE "drainWrite"]
    /\ UNCHANGED <<finalized, dbVars, rowVars, total, cancelled, prodVars,
                   written, unfetched, undrained>>

\* recv returned None: the channel is empty and the sender dropped.
ChannelClosed(j) ==
    /\ wr[j] = "recv"
    /\ chan[j] = <<>> /\ pc[j] = "join"
    /\ wr' = [wr EXCEPT ![j] = "flush"]
    /\ UNCHANGED <<finalized, dbVars, rowVars, total, cancelled, prodVars, chan,
                   held, written, unfetched, undrained>>

\* The cancelled branch of the select; the select is not biased.
StartDrain(j) ==
    /\ wr[j] = "recv"
    /\ cancelled[j]
    /\ wr' = [wr EXCEPT ![j] = "drain"]
    /\ UNCHANGED <<finalized, dbVars, rowVars, total, cancelled, prodVars, chan,
                   held, written, unfetched, undrained>>

\* try_recv found the channel empty.
EndDrain(j) ==
    /\ wr[j] = "drain"
    /\ chan[j] = <<>>
    /\ wr' = [wr EXCEPT ![j] = "flush"]
    /\ UNCHANGED <<finalized, dbVars, rowVars, total, cancelled, prodVars, chan,
                   held, written, unfetched, undrained>>

\* write_block succeeded.
CommitBatch(j) ==
    /\ wr[j] \in {"write", "drainWrite"}
    /\ WriteBlock(j, DecodeBlock(held[j]), held[j])
    /\ written' = [written EXCEPT ![j] = @ + NewRows(DecodeBlock(held[j]))]
    /\ wr' = [wr EXCEPT ![j] = IF @ = "write" THEN "recv" ELSE "drain"]
    /\ held' = [held EXCEPT ![j] = 0]
    /\ UNCHANGED <<finalized, rowVars, total, cancelled, prodVars, chan,
                   unfetched, undrained>>

\* Variant of FailBatch: the error is logged and the loop goes on.
FailBatchAndGoOn(j) ==
    /\ wr[j] = "write"
    /\ FailedWrite(j, DecodeBlock(held[j]), held[j])
    /\ wr' = [wr EXCEPT ![j] = "recv"]
    /\ held' = [held EXCEPT ![j] = 0]
    /\ UNCHANGED <<finalized, rowVars, total, cancelled, prodVars, chan,
                   written, unfetched, undrained>>

\* write_block failed outside the drain: the task ends with the error, without
\* counting, and its receiver is dropped with everything still in the channel.
FailBatch(j) ==
    /\ wr[j] = "write"
    /\ FailedWrite(j, DecodeBlock(held[j]), held[j])
    /\ wr' = [wr EXCEPT ![j] = "err"]
    /\ held' = [held EXCEPT ![j] = 0]
    /\ written' = [written EXCEPT ![j] = 0]
    /\ chan' = [chan EXCEPT ![j] = <<>>]
    /\ UNCHANGED <<finalized, rowVars, total, cancelled, prodVars,
                   unfetched, undrained>>

\* write_block failed in the drain: it is logged and the drain goes on.
FailDrainBatch(j) ==
    /\ wr[j] = "drainWrite"
    /\ FailedWrite(j, DecodeBlock(held[j]), held[j])
    /\ undrained' = undrained \cup {held[j]}
    /\ wr' = [wr EXCEPT ![j] = "drain"]
    /\ held' = [held EXCEPT ![j] = 0]
    /\ UNCHANGED <<finalized, rowVars, total, cancelled, prodVars, chan,
                   written, unfetched>>

\* The statement adds to the stored count; a call may fail before or after it.
IncrementIndexerCounters(n) == total' \in {total, total + n}

\* increment_indexer_counters (its error is only logged), then the task ends
\* and the receiver is dropped with everything still in the channel.
FlushCounters(j) ==
    /\ wr[j] = "flush"
    /\ IncrementIndexerCounters(written[j])
    /\ wr' = [wr EXCEPT ![j] = "ok"]
    /\ written' = [written EXCEPT ![j] = 0]
    /\ chan' = [chan EXCEPT ![j] = <<>>]
    /\ UNCHANGED <<finalized, dbVars, rowVars, cancelled, prodVars, held,
                   unfetched, undrained>>

ProducerStep(j) ==
    NextChunk(j) \/ FetchBlock(j) \/ SendBatch(j) \/ ChunkHeartbeat(j) \/ JoinWriter(j)

WriterStep(j) ==
    \/ TakeBatch(j) \/ ChannelClosed(j) \/ StartDrain(j) \/ EndDrain(j)
    \/ CommitBatch(j) \/ FailBatch(j) \/ FailDrainBatch(j) \/ FlushCounters(j)

JobStep(j) == ProducerStep(j) \/ WriterStep(j)

-----------------------------------------------------------------------------
(* The jobs in an environment that starts them over any range up to the    *)
(* finalized tip, cancels them and kills the process at any moment.        *)

\* getSlot and the chain behind it.
Finalize ==
    /\ finalized < MaxSlot
    /\ finalized' = finalized + 1
    /\ UNCHANGED <<dbVars, rowVars, total, cancelled, prodVars, chan, wrVars,
                   unfetched, undrained>>

Cancel(j) ==
    /\ ~cancelled[j]
    /\ cancelled' = [cancelled EXCEPT ![j] = TRUE]
    /\ UNCHANGED <<finalized, dbVars, rowVars, total, prodVars, chan, wrVars,
                   unfetched, undrained>>

\* The process dies: the database and the chain are all that is left (and the
\* history of where the backfill began).
LoseMemory ==
    /\ pc' = [j \in Job |-> "off"]
    /\ failed' = [j \in Job |-> FALSE]
    /\ chan' = [j \in Job |-> <<>>]
    /\ wr' = [j \in Job |-> "off"]
    /\ held' = [j \in Job |-> 0]
    /\ written' = [j \in Job |-> 0]
    /\ cancelled' = [j \in Job |-> FALSE]
    /\ to' = [j \in Job |-> 0]
    /\ at' = [j \in Job |-> 1]
    /\ chunkEnd' = [j \in Job |-> 0]
    /\ from' = [from EXCEPT !["catchup"] = 1]
    /\ UNCHANGED <<dbVars, rowVars, total, unfetched, undrained>>

Crash == LoseMemory /\ UNCHANGED finalized

IngestInit ==
    /\ finalized \in 0..MaxSlot
    /\ stored = {}
    /\ checkpoint = [s \in Stream |-> 0]
    /\ status = "initializing"
    /\ lastProcessed = 0
    /\ total = 0
    /\ cancelled = [j \in Job |-> FALSE]
    /\ pc = [j \in Job |-> "off"]
    /\ from = [j \in Job |-> 1]
    /\ to = [j \in Job |-> 0]
    /\ at = [j \in Job |-> 1]
    /\ chunkEnd = [j \in Job |-> 0]
    /\ failed = [j \in Job |-> FALSE]
    /\ chan = [j \in Job |-> <<>>]
    /\ wr = [j \in Job |-> "off"]
    /\ held = [j \in Job |-> 0]
    /\ written = [j \in Job |-> 0]
    /\ unfetched = {}
    /\ undrained = {}

IngestNext ==
    \/ \E j \in Job : JobStep(j) \/ Cancel(j)
    \/ \E lo \in 1..finalized : RunBackfill(lo, finalized)
    \/ \E s \in 1..finalized : MiniBackfill(s)
    \/ Finalize
    \/ Crash

IngestSpec == IngestInit /\ [][IngestNext]_ingestVars

\* tokio polls every task that can make progress; every RPC and database call
\* returns (the client's retries have a total time limit).
IngestFairness ==
    \A j \in Job : WF_ingestVars(ProducerStep(j)) /\ WF_ingestVars(WriterStep(j))

IngestFairSpec == IngestSpec /\ IngestFairness

-----------------------------------------------------------------------------
(* Properties.                                                             *)

\* The types of the variables, with the bound of the channel.
IngestTypeOK ==
    /\ finalized \in 0..MaxSlot
    /\ stored \subseteq Tx
    /\ checkpoint \in [Stream -> 0..MaxSlot]
    /\ status \in Status
    /\ lastProcessed \in 0..MaxSlot
    /\ total \in Nat
    /\ cancelled \in [Job -> BOOLEAN]
    /\ pc \in [Job -> PC]
    /\ from \in [Job -> Nat]
    /\ to \in [Job -> 0..MaxSlot]
    /\ at \in [Job -> Nat]
    /\ chunkEnd \in [Job -> 0..MaxSlot]
    /\ failed \in [Job -> BOOLEAN]
    /\ chan \in [Job -> Seq(Slot)]
    /\ \A j \in Job : Len(chan[j]) <= ChannelCapacity
    /\ wr \in [Job -> WR]
    /\ held \in [Job -> 0..MaxSlot]
    /\ written \in [Job -> Nat]
    /\ unfetched \subseteq Slot
    /\ undrained \subseteq Slot

\* A slot is accounted for: its rows are in the database, or the code gave it
\* up after a failed get_block or a failed write of the drain.
Covered(s) ==
    \/ DecodeBlock(s) \subseteq stored
    \/ s \in unfetched
    \/ s \in undrained

Backed(j) == checkpoint[j] # 0 =>
    DecodeBlock(checkpoint[j]) # {} /\ DecodeBlock(checkpoint[j]) \subseteq stored

OkCovered(j) == pc[j] = "ok" /\ ~cancelled[j] /\ ChunkSize > 0 =>
    \A s \in from[j]..to[j] : Covered(s)

\* A job's checkpoint names a block of which every row is in the database: data
\* and checkpoint are one transaction, whatever fails or crashes in between.
CheckpointBacked == \A j \in Job : Backed(j)

\* No batch is overtaken: whatever happened to the batches in flight (failed
\* write, cancellation, crash), every slot from the start of the backfill up to
\* its checkpoint is accounted for, so that resuming after the checkpoint is safe.
BackfillPrefixIndexed ==
    \A s \in Slot : from["backfill"] <= s /\ s <= checkpoint["backfill"] => Covered(s)

\* run_backfill or mini_backfill returns Ok, and was not cancelled, only when
\* the writer has committed everything the producer sent: the range is covered.
OkMeansCovered == \A j \in Job : OkCovered(j)

\* What docs/architecture.md:256 says of checkpoints ("ensuring crash-safe progress
\* tracking"): below the checkpoint only blocks that could not be fetched are
\* missing.  The drain of a cancelled writer logs a failed write and goes on.
CheckpointIsCrashSafe ==
    \A s \in Slot : from["backfill"] <= s /\ s <= checkpoint["backfill"] =>
        DecodeBlock(s) \subseteq stored \/ s \in unfetched

\* total_instructions, with what live writer tasks will still add, never exceeds
\* the rows in the table, although both jobs write the same blocks.
CountedRowsExist ==
    total + written["backfill"] + written["catchup"] <= Cardinality(stored)

\* The backfill checkpoint never moves back, although write_block overwrites it.
BackfillCheckpointAdvances ==
    [][checkpoint'["backfill"] >= checkpoint["backfill"]]_ingestVars

\* A started job ends: a producer waiting for room in the channel, a writer
\* waiting for a batch and a job waiting for its writer never wait forever.
JobsEnd == \A j \in Job : Running(j) ~> ~Running(j)

-----------------------------------------------------------------------------
(* The inductive invariant behind the safety properties.                   *)

\* The producer stays inside its range and its chunk, and leaves the chunk loop
\* early only with an error or when cancelled.
RangeInv(j) ==
    /\ 1 <= from[j] /\ 1 <= at[j] /\ to[j] <= finalized
    /\ Running(j) => from[j] <= at[j] /\ at[j] <= to[j] + 1
    /\ pc[j] \in {"slot", "send", "beat"} => at[j] <= chunkEnd[j] + 1 /\ chunkEnd[j] <= to[j]
    /\ pc[j] = "send" => at[j] <= chunkEnd[j] /\ DecodeBlock(at[j]) # {}
    /\ pc[j] = "join" /\ ~failed[j] /\ ~cancelled[j] /\ ChunkSize > 0 => at[j] > to[j]

\* A batch on its way: behind the producer, ahead of the backfill's checkpoint.
Ready(j, s) ==
    /\ from[j] <= s /\ s < at[j]
    /\ DecodeBlock(s) # {}
    /\ j = "backfill" => checkpoint[j] < s

InFlight(j, s) == held[j] = s \/ \E i \in 1..Len(chan[j]) : chan[j][i] = s

\* Batches are taken in slot order, and there are none without a receiver.
QueueInv(j) ==
    /\ Running(j) <=> wr[j] # "off"
    /\ held[j] # 0 <=> wr[j] \in {"write", "drainWrite"}
    /\ ~Receiving(j) => chan[j] = <<>>
    /\ held[j] # 0 => Ready(j, held[j])
    /\ \A i \in 1..Len(chan[j]) : Ready(j, chan[j][i]) /\ held[j] < chan[j][i]
    /\ \A i, k \in 1..Len(chan[j]) : i < k => chan[j][i] < chan[j][k]
    /\ j = "backfill" /\ Running(j) => checkpoint[j] < at[j]

\* Every slot the producer has passed is accounted for or on its way, until a
\* failure or a cancellation ends the writer.
AccountInv(j) ==
    /\ Receiving(j) =>
        \A s \in Slot : from[j] <= s /\ s < at[j] => Covered(s) \/ InFlight(j, s)
    /\ wr[j] \in {"drain", "drainWrite"} => cancelled[j]
    /\ wr[j] \in {"flush", "ok"} /\ ~cancelled[j] => pc[j] = "join" /\ chan[j] = <<>>
    /\ wr[j] = "ok" /\ ~cancelled[j] =>
        \A s \in Slot : from[j] <= s /\ s < at[j] => Covered(s)
    /\ j = "backfill" =>
        \A s \in Slot : from[j] <= s /\ s <= checkpoint[j] => Covered(s)
    /\ Backed(j)
    /\ OkCovered(j)

JobInv(j) == RangeInv(j) /\ QueueInv(j) /\ AccountInv(j)

\* The types, and per job: the producer's range, the order of the batches in
\* flight and the account of the slots passed.
IngestInv == IngestTypeOK /\ \A j \in Job : JobInv(j)
=============================================================================
