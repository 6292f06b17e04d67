-------------------------- MODULE IngestStepProofs --------------------------
(***************************************************************************)
(* What the proofs about Ingest share, and that the producer's steps       *)
(* within a chunk and the writer's steps up to its last preserve IngestInv.*)
(* Each action is shown to preserve the types, the invariant of the job    *)
(* that acts and, by JobFrame, that of the other.                          *)
(***************************************************************************)
EXTENDS Ingest, TLAPS, FiniteSetTheorems


-----------------------------------------------------------------------------
(* Data.                                                                   *)

\* DecodeBlock yields a finite set of transactions: what process_chunk puts
\* into one batch.
LEMMA DecodeBlockType ==
    ASSUME NEW s
    PROVE  DecodeBlock(s) \subseteq Tx /\ IsFiniteSet(DecodeBlock(s))
<1>1. DecodeBlock(s) \subseteq Tx
  BY DEF DecodeBlock
<1> QED
  BY <1>1, IngestAssumption, FS_Subset DEF IngestAssumption

\* The rows write_block inserts are counted by a natural number.
LEMMA NewRowsType ==
    ASSUME NEW rows \in SUBSET Tx
    PROVE  NewRows(rows) \in Nat
<1>1. IsFiniteSet(rows \ stored)
  BY IngestAssumption, FS_Subset DEF IngestAssumption
<1> QED
  BY <1>1, FS_CardinalityType DEF NewRows

\* A slot stays accounted for: rows are never deleted and the histories grow.
LEMMA CoveredMonotone ==
    ASSUME stored \subseteq stored', unfetched \subseteq unfetched',
           undrained \subseteq undrained', NEW s, Covered(s)
    PROVE  Covered(s)'
BY DEF Covered, DecodeBlock, Decodes

\* A step leaves job k's producer, channel, writer and checkpoint alone.
SameJob(k) ==
    /\ pc'[k] = pc[k] /\ from'[k] = from[k] /\ to'[k] = to[k] /\ at'[k] = at[k]
    /\ chunkEnd'[k] = chunkEnd[k] /\ failed'[k] = failed[k]
    /\ chan'[k] = chan[k] /\ wr'[k] = wr[k] /\ held'[k] = held[k]
    /\ checkpoint'[k] = checkpoint[k]
    /\ cancelled[k] => cancelled'[k]

\* A step only adds rows, histories and finalized slots.
OnlyAdds ==
    /\ finalized <= finalized'
    /\ stored \subseteq stored'
    /\ unfetched \subseteq unfetched'
    /\ undrained \subseteq undrained'

\* Without a batch in flight, the queue's invariant is about the places only.
LEMMA EmptyQueue ==
    ASSUME NEW j \in Job, held'[j] = 0, chan'[j] = <<>>,
           Running(j)' <=> wr'[j] # "off", wr'[j] \notin {"write", "drainWrite"},
           j = "backfill" /\ Running(j)' => checkpoint'[j] < at'[j]
    PROVE  QueueInv(j)'
<1>1. 1..Len(chan'[j]) = {}
  OBVIOUS
<1>2. /\ (held[j] # 0 <=> wr[j] \in {"write", "drainWrite"})'
      /\ (held[j] # 0 => Ready(j, held[j]))'
  OBVIOUS
<1> QED
  BY <1>1, <1>2, Zenon DEF QueueInv

\* A step of something else (the other job, the stream, the chain, a signal)
\* preserves k's invariant.
LEMMA JobFrame ==
    ASSUME NEW k \in Job, JobInv(k), IngestTypeOK, IngestTypeOK', SameJob(k), OnlyAdds
    PROVE  JobInv(k)'
<1> USE DEF SameJob, OnlyAdds
<1>1. \A s : Covered(s) => Covered(s)'
  BY CoveredMonotone
<1>2. \A s : DecodeBlock(s)' = DecodeBlock(s)
  BY DEF DecodeBlock, Decodes
<1>3. RangeInv(k)'
  BY <1>2 DEF JobInv, RangeInv, Running, IngestTypeOK
<1>4. QueueInv(k)'
  BY <1>2 DEF JobInv, QueueInv, Running, Receiving, Ready
<1>5. AccountInv(k)'
  <2>1. Backed(k)'
    BY <1>2 DEF JobInv, AccountInv, Backed
  <2>2. OkCovered(k)'
    BY <1>1 DEF JobInv, AccountInv, OkCovered
  <2> QED
    BY <1>1, <2>1, <2>2 DEF JobInv, AccountInv, Receiving, InFlight
<1> QED
  BY <1>3, <1>4, <1>5 DEF JobInv

\* Every job has its entry in each variable, and the tip is a number: what a
\* step that changes one entry needs to leave the others alone.
LEMMA JobDomains ==
    ASSUME IngestTypeOK
    PROVE  /\ DOMAIN pc = Job /\ DOMAIN from = Job /\ DOMAIN to = Job /\ DOMAIN at = Job
           /\ DOMAIN chunkEnd = Job /\ DOMAIN failed = Job /\ DOMAIN chan = Job
           /\ DOMAIN wr = Job /\ DOMAIN held = Job /\ DOMAIN written = Job
           /\ DOMAIN cancelled = Job /\ DOMAIN checkpoint = Stream /\ Job \subseteq Stream
           /\ finalized \in Nat
<1>1. finalized \in Nat
  BY IngestAssumption DEF IngestTypeOK, IngestAssumption
<1>2. Job \subseteq Stream
  BY DEF Job, Stream
<1> QED
  BY <1>1, <1>2 DEF IngestTypeOK

\* The types of job j's slots, channel and checkpoint.
LEMMA JobTypes ==
    ASSUME NEW j \in Job, IngestTypeOK
    PROVE  /\ from[j] \in Nat /\ at[j] \in Nat
           /\ to[j] \in Nat /\ to[j] <= MaxSlot
           /\ chunkEnd[j] \in Nat /\ chunkEnd[j] <= MaxSlot
           /\ held[j] \in Nat /\ held[j] <= MaxSlot
           /\ checkpoint[j] \in Nat /\ checkpoint[j] <= MaxSlot
           /\ chan[j] \in Seq(Slot) /\ Len(chan[j]) \in Nat /\ Len(chan[j]) <= ChannelCapacity
           /\ \A i \in 1..Len(chan[j]) : chan[j][i] \in Nat
           /\ finalized \in Nat /\ finalized <= MaxSlot /\ MaxSlot \in Nat
<1>1. MaxSlot \in Nat
  BY IngestAssumption DEF IngestAssumption
<1>2. chan[j] \in Seq(Slot)
  BY DEF IngestTypeOK
<1>3. Len(chan[j]) \in Nat /\ \A i \in 1..Len(chan[j]) : chan[j][i] \in Slot
  BY <1>2
<1>4. \A i \in 1..Len(chan[j]) : chan[j][i] \in Nat
  BY <1>1, <1>3 DEF Slot
<1>5. checkpoint[j] \in 0..MaxSlot
  BY DEF IngestTypeOK, Stream
<1> QED
  BY <1>1, <1>2, <1>3, <1>4, <1>5 DEF IngestTypeOK

-----------------------------------------------------------------------------
(* The producer's steps within a chunk.                                    *)

\* The head of the chunk loop, over any state of the writer.
LEMMA NextChunkInv ==
    ASSUME IngestInv, NEW j \in Job, NextChunk(j)
    PROVE  IngestInv'
<1>0. IngestTypeOK /\ \A k \in Job : JobInv(k)
  BY DEF IngestInv
<1>1. IngestTypeOK'
  <2>1. MoreChunks(j) => ChunkEndOf(j) \in 0..MaxSlot
    BY <1>0, JobTypes, IngestAssumption
    DEF IngestAssumption, MoreChunks, ChunkEndOf, Smaller, JobInv, RangeInv
  <2>2. chunkEnd' \in [Job -> 0..MaxSlot]
    BY <1>0, <2>1, Zenon DEF IngestTypeOK, NextChunk
  <2>3. pc' \in [Job -> PC]
    BY <1>0, Zenon DEF IngestTypeOK, NextChunk, PC
  <2>4. failed' \in [Job -> BOOLEAN]
    BY <1>0, Zenon DEF IngestTypeOK, NextChunk
  <2> QED
    BY <1>0, <2>2, <2>3, <2>4, Zenon DEF IngestTypeOK, NextChunk, dbVars, rowVars, wrVars
<1>2. ASSUME NEW k \in Job, k # j PROVE JobInv(k)'
  <2>1. SameJob(k) /\ OnlyAdds
    BY <1>0, <1>2, JobDomains DEF SameJob, OnlyAdds, NextChunk, dbVars, wrVars
  <2> QED
    BY <1>0, <1>1, <2>1, JobFrame
<1>3. JobInv(j)'
  <2>1. \A s : DecodeBlock(s)' = DecodeBlock(s)
    BY DEF DecodeBlock, Decodes
  <2>2. \A s : Covered(s) => Covered(s)'
    BY CoveredMonotone DEF NextChunk, dbVars
  <2>3. RangeInv(j)'
    BY <1>0, <2>1, IngestAssumption
    DEF NextChunk, JobInv, RangeInv, Running, IngestTypeOK, IngestAssumption, MoreChunks,
        ChunkEndOf, Smaller
  <2>4. QueueInv(j)'
    BY <1>0, <2>1, Zenon DEF NextChunk, JobInv, QueueInv, Running, Receiving, Ready, IngestTypeOK,
                      dbVars, wrVars
  <2>5. AccountInv(j)'
    BY <1>0, <2>1, <2>2 DEF NextChunk, JobInv, AccountInv, Receiving, InFlight, IngestTypeOK,
                            Backed, OkCovered, dbVars, wrVars
  <2> QED
    BY <2>3, <2>4, <2>5 DEF JobInv
<1> QED
  BY <1>1, <1>2, <1>3 DEF IngestInv


\* A block is fetched, found empty, skipped or given up.
LEMMA FetchBlockInv ==
    ASSUME IngestInv, NEW j \in Job, FetchBlock(j)
    PROVE  IngestInv'
<1>0. IngestTypeOK /\ \A k \in Job : JobInv(k)
  BY DEF IngestInv
<1>1. /\ pc[j] = "slot" /\ from'[j] = from[j] /\ to'[j] = to[j] /\ finalized' = finalized
      /\ chunkEnd'[j] = chunkEnd[j] /\ failed'[j] = failed[j] /\ chan'[j] = chan[j]
      /\ wr'[j] = wr[j] /\ held'[j] = held[j] /\ checkpoint'[j] = checkpoint[j]
      /\ cancelled'[j] = cancelled[j] /\ stored' = stored /\ undrained' = undrained
  BY DEF FetchBlock, dbVars, wrVars
<1>2. \/ pc'[j] \in {"slot", "beat"} /\ at'[j] = at[j] /\ unfetched' = unfetched
      \/ /\ pc'[j] = "send" /\ at'[j] = at[j] /\ unfetched' = unfetched
         /\ at[j] <= chunkEnd[j] /\ DecodeBlock(at[j]) # {}
      \/ /\ pc'[j] = "slot" /\ at'[j] = at[j] + 1 /\ at[j] <= chunkEnd[j]
         /\ \/ unfetched' = unfetched /\ DecodeBlock(at[j]) = {}
            \/ unfetched' = unfetched \cup {at[j]}
  BY <1>0, JobDomains, Zenon DEF FetchBlock
<1>3. at[j] <= chunkEnd[j] => at[j] \in Slot
  BY <1>0, JobTypes DEF JobInv, RangeInv, Slot
<1>4. IngestTypeOK'
  <2>1. at' \in [Job -> Nat]
    <3>1. at' = at \/ at' = [at EXCEPT ![j] = at[j] + 1]
      BY DEF FetchBlock
    <3>2. at \in [Job -> Nat]
      BY <1>0 DEF IngestTypeOK
    <3> QED
      BY <3>1, <3>2
  <2>2. pc' \in [Job -> PC]
    BY <1>0, Zenon DEF IngestTypeOK, FetchBlock, PC
  <2>3. unfetched' \subseteq Slot
    BY <1>0, <1>2, <1>3, Zenon DEF IngestTypeOK
  <2> QED
    BY <1>0, <2>1, <2>2, <2>3, Zenon DEF IngestTypeOK, FetchBlock, dbVars, rowVars, wrVars
<1>5. ASSUME NEW k \in Job, k # j PROVE JobInv(k)'
  <2>1. SameJob(k) /\ OnlyAdds
    BY <1>0, <1>5, JobDomains DEF SameJob, OnlyAdds, FetchBlock, dbVars, wrVars
  <2> QED
    BY <1>0, <1>4, <2>1, JobFrame
<1>6. JobInv(j)'
  <2>1. \A s : DecodeBlock(s)' = DecodeBlock(s)
    BY DEF DecodeBlock, Decodes
  <2>2. \A s : Covered(s) => Covered(s)'
    BY <1>1, <1>2, CoveredMonotone, SMTT(30)
  <2>3. RangeInv(j)'
    <3>1. /\ from[j] \in Nat /\ at[j] \in Nat /\ chunkEnd[j] \in Nat /\ to[j] \in Nat
          /\ 1 <= from[j] /\ 1 <= at[j] /\ to[j] <= finalized /\ from[j] <= at[j]
          /\ at[j] <= to[j] + 1 /\ at[j] <= chunkEnd[j] + 1 /\ chunkEnd[j] <= to[j]
      BY <1>0, <1>1, JobTypes, Zenon DEF JobInv, RangeInv, Running
    <3>2. CASE pc'[j] \in {"slot", "beat"} /\ at'[j] = at[j]
      BY <1>1, <3>1, <3>2, Zenon DEF RangeInv
    <3>3. CASE /\ pc'[j] = "send" /\ at'[j] = at[j] /\ at[j] <= chunkEnd[j]
               /\ DecodeBlock(at[j]) # {}
      BY <1>1, <2>1, <3>1, <3>3, Zenon DEF RangeInv
    <3>4. CASE pc'[j] = "slot" /\ at'[j] = at[j] + 1 /\ at[j] <= chunkEnd[j]
      BY <1>1, <3>1, <3>4 DEF RangeInv
    <3> QED
      BY <1>2, <3>2, <3>3, <3>4, Zenon
  <2>4. QueueInv(j)'
    <3>1. \A s \in Nat : Ready(j, s) => Ready(j, s)'
      BY <1>0, <1>1, <1>2, <2>1, JobTypes DEF Ready
    <3>2. QueueInv(j) /\ Running(j) /\ Running(j)' /\ Receiving(j)' = Receiving(j)
      BY <1>0, <1>1, <1>2 DEF JobInv, Running, Receiving
    <3>3. /\ (held[j] # 0 => Ready(j, held[j]))'
          /\ \A i \in 1..Len(chan'[j]) : Ready(j, chan[j][i])' /\ held'[j] < chan'[j][i]
      BY <1>0, <1>1, <3>1, <3>2, JobTypes DEF QueueInv
    <3>4. (j = "backfill" => checkpoint[j] < at[j])'
      <4>1. j = "backfill" => checkpoint[j] < at[j]
        BY <3>2 DEF QueueInv
      <4> QED
        BY <1>0, <1>1, <1>2, <4>1, JobTypes
    <3> QED
      BY <1>1, <3>2, <3>3, <3>4, Zenon DEF QueueInv
  <2>5. \A s \in Nat : s < at'[j] => s < at[j] \/ Covered(s)'
    BY <1>0, <1>1, <1>2, <2>1, JobTypes DEF Covered
  <2>6. Backed(j)' /\ OkCovered(j)'
    BY <1>0, <1>1, <1>2, <2>1, <2>2, Zenon DEF JobInv, AccountInv, Backed, OkCovered
  <2>7. AccountInv(j)'
    <3>1. \A s : InFlight(j, s) => InFlight(j, s)'
      BY <1>1 DEF InFlight
    <3>2. Slot \subseteq Nat
      BY IngestAssumption DEF IngestAssumption, Slot
    <3>3. pc'[j] # "join" /\ pc[j] # "join"
      BY <1>1, <1>2, Zenon
    <3> QED
      BY <1>0, <1>1, <2>2, <2>5, <2>6, <3>1, <3>2, <3>3, Zenon DEF JobInv, AccountInv, Receiving
  <2> QED
    BY <2>3, <2>4, <2>7 DEF JobInv
<1> QED
  BY <1>4, <1>5, <1>6 DEF IngestInv

\* A batch enters the channel behind all the others, or the receiver is gone.
LEMMA SendBatchInv ==
    ASSUME IngestInv, NEW j \in Job, SendBatch(j)
    PROVE  IngestInv'
<1>0. IngestTypeOK /\ \A k \in Job : JobInv(k)
  BY DEF IngestInv
<1>1. /\ pc[j] = "send" /\ from'[j] = from[j] /\ to'[j] = to[j] /\ finalized' = finalized
      /\ chunkEnd'[j] = chunkEnd[j] /\ wr'[j] = wr[j] /\ held'[j] = held[j]
      /\ checkpoint'[j] = checkpoint[j] /\ cancelled'[j] = cancelled[j]
      /\ stored' = stored /\ unfetched' = unfetched /\ undrained' = undrained
  BY DEF SendBatch, dbVars, wrVars
<1>2. \/ /\ Receiving(j) /\ HasRoom(j) /\ pc'[j] = "slot" /\ at'[j] = at[j] + 1
         /\ chan'[j] = Append(chan[j], at[j]) /\ failed'[j] = failed[j]
      \/ /\ ~Receiving(j) /\ pc'[j] = "join" /\ at'[j] = at[j]
         /\ chan'[j] = chan[j] /\ failed'[j] = TRUE
  BY <1>0, JobDomains DEF SendBatch
<1>3. at[j] \in Slot
  BY <1>0, <1>1, JobTypes DEF JobInv, RangeInv, Slot
<1>4. /\ Append(chan[j], at[j]) \in Seq(Slot)
      /\ Len(Append(chan[j], at[j])) = Len(chan[j]) + 1
      /\ \A i \in 1..Len(chan[j]) : Append(chan[j], at[j])[i] = chan[j][i]
      /\ Append(chan[j], at[j])[Len(chan[j]) + 1] = at[j]
  <2>1. chan[j] \in Seq(Slot)
    BY <1>0 DEF IngestTypeOK
  <2> QED
    BY <1>3, <2>1
<1>5. IngestTypeOK'
  <2>1. chan' \in [Job -> Seq(Slot)]
    BY <1>0, <1>4, Zenon DEF IngestTypeOK, SendBatch
  <2>2. ASSUME NEW k \in Job PROVE Len(chan'[k]) <= ChannelCapacity
    <3>1. CASE k = j
      BY <1>0, <1>2, <1>4, <3>1, JobTypes, IngestAssumption DEF HasRoom, IngestAssumption
    <3>2. CASE k # j
      <4>1. chan'[k] = chan[k]
        BY <1>0, <3>2, JobDomains DEF SendBatch
      <4> QED
        BY <1>0, <4>1, JobTypes
    <3> QED
      BY <3>1, <3>2
  <2>3. at' \in [Job -> Nat]
    <3>1. at' = at \/ at' = [at EXCEPT ![j] = at[j] + 1]
      BY DEF SendBatch
    <3>2. at \in [Job -> Nat]
      BY <1>0 DEF IngestTypeOK
    <3> QED
      BY <3>1, <3>2
  <2>4. pc' \in [Job -> PC]
    BY <1>0, Zenon DEF IngestTypeOK, SendBatch, PC
  <2>5. failed' \in [Job -> BOOLEAN]
    BY <1>0, Zenon DEF IngestTypeOK, SendBatch
  <2> QED
    BY <1>0, <2>1, <2>2, <2>3, <2>4, <2>5, Zenon
    DEF IngestTypeOK, SendBatch, dbVars, rowVars, wrVars
<1>6. ASSUME NEW k \in Job, k # j PROVE JobInv(k)'
  <2>1. SameJob(k) /\ OnlyAdds
    BY <1>0, <1>6, JobDomains DEF SameJob, OnlyAdds, SendBatch, dbVars, wrVars
  <2> QED
    BY <1>0, <1>5, <2>1, JobFrame
<1>7. JobInv(j)'
  <2>1. \A s : DecodeBlock(s)' = DecodeBlock(s)
    BY DEF DecodeBlock, Decodes
  <2>2. \A s : Covered(s) => Covered(s)'
    BY <1>1, CoveredMonotone
  <2>3. RangeInv(j)'
    <3>1. /\ from[j] \in Nat /\ at[j] \in Nat /\ chunkEnd[j] \in Nat /\ to[j] \in Nat
          /\ 1 <= from[j] /\ to[j] <= finalized /\ from[j] <= at[j]
          /\ at[j] <= chunkEnd[j] /\ chunkEnd[j] <= to[j]
      BY <1>0, <1>1, JobTypes, Zenon DEF JobInv, RangeInv, Running
    <3>2. CASE pc'[j] = "slot" /\ at'[j] = at[j] + 1
      BY <1>1, <3>1, <3>2 DEF RangeInv
    <3>3. CASE pc'[j] = "join" /\ at'[j] = at[j] /\ failed'[j]
      BY <1>1, <3>1, <3>3 DEF RangeInv
    <3> QED
      BY <1>2, <3>2, <3>3, Zenon
  <2>4. Backed(j)' /\ OkCovered(j)'
    BY <1>0, <1>1, <1>2, <2>1, <2>2, ZenonT(30) DEF JobInv, AccountInv, Backed, OkCovered
  <2>5. CASE Receiving(j) /\ HasRoom(j) /\ pc'[j] = "slot" /\ at'[j] = at[j] + 1
             /\ chan'[j] = Append(chan[j], at[j])
    <3>1. \A i \in 1..Len(chan'[j]) : \/ i = Len(chan[j]) + 1 /\ chan'[j][i] = at[j]
                                      \/ i \in 1..Len(chan[j]) /\ chan'[j][i] = chan[j][i]
      BY <1>0, <1>4, <2>5, JobTypes, SMTT(30)
    <3>2. \A s \in Nat : Ready(j, s) => Ready(j, s)' /\ s < at[j]
      <4>1. at[j] \in Nat /\ at'[j] = at[j] + 1
        BY <1>0, <2>5, JobTypes
      <4> QED
        BY <1>1, <2>1, <4>1 DEF Ready
    <3>3. \A s \in Nat : s = at[j] => Ready(j, s)'
      <4>1. at[j] \in Nat /\ at'[j] = at[j] + 1
        BY <1>0, <2>5, JobTypes
      <4>2. from[j] <= at[j] /\ DecodeBlock(at[j]) # {}
        BY <1>0, <1>1 DEF JobInv, RangeInv, Running
      <4>3. j = "backfill" => checkpoint[j] < at[j]
        BY <1>0, <1>1 DEF JobInv, QueueInv, Running
      <4> QED
        BY <1>1, <2>1, <4>1, <4>2, <4>3 DEF Ready
    <3>4. \A i \in 1..Len(chan[j]) :
              Ready(j, chan[j][i]) /\ held[j] < chan[j][i] /\ chan[j][i] < at[j]
      BY <1>0, <3>2, JobTypes, Zenon DEF JobInv, QueueInv
    <3>5. held[j] < at[j] /\ (held'[j] # 0 => Ready(j, held[j])')
      BY <1>0, <1>1, <3>2, JobTypes DEF JobInv, QueueInv, RangeInv
    <3>6. ASSUME NEW i \in 1..Len(chan'[j])
          PROVE  Ready(j, chan[j][i])' /\ held'[j] < chan'[j][i]
      <4>1. CASE chan'[j][i] = at[j]
        BY <1>0, <1>1, <3>3, <3>5, <4>1, JobTypes, Zenon
      <4>2. CASE i \in 1..Len(chan[j]) /\ chan'[j][i] = chan[j][i]
        BY <1>0, <1>1, <3>2, <3>4, <4>2, JobTypes
      <4> QED
        BY <3>1, <4>1, <4>2, Zenon
    <3>7. ASSUME NEW i \in 1..Len(chan'[j]), NEW k \in 1..Len(chan'[j]), i < k
          PROVE  chan'[j][i] < chan'[j][k]
      <4>1. i \in 1..Len(chan[j]) /\ chan'[j][i] = chan[j][i]
        BY <1>0, <1>4, <2>5, <3>1, <3>7, JobTypes
      <4>2. CASE chan'[j][k] = at[j]
        BY <3>4, <4>1, <4>2, Zenon
      <4>3. CASE k \in 1..Len(chan[j]) /\ chan'[j][k] = chan[j][k]
        BY <1>0, <3>7, <4>1, <4>3, Zenon DEF JobInv, QueueInv
      <4> QED
        BY <3>1, <4>2, <4>3, Zenon
    <3>8. QueueInv(j)'
      <4>1. /\ (Running(j) <=> wr[j] # "off")'
            /\ (held[j] # 0 <=> wr[j] \in {"write", "drainWrite"})'
            /\ Receiving(j)'
        BY <1>0, <1>1, <2>5, ZenonT(60) DEF JobInv, QueueInv, Running, Receiving
      <4>2. (j = "backfill" /\ Running(j) => checkpoint[j] < at[j])'
        <5>1. j = "backfill" => checkpoint[j] < at[j]
          BY <1>0, <1>1, Zenon DEF JobInv, QueueInv, Running
        <5>2. checkpoint[j] \in Nat /\ at[j] \in Nat
          BY <1>0, JobTypes, Zenon
        <5>3. checkpoint'[j] = checkpoint[j] /\ at'[j] = at[j] + 1
          BY <1>1, <2>5, Zenon
        <5> QED
          BY <5>1, <5>2, <5>3
      <4> QED
        BY <3>5, <3>6, <3>7, <4>1, <4>2, Zenon DEF QueueInv
    <3>9. \A s : InFlight(j, s) \/ s = at[j] => InFlight(j, s)'
      <4>1. /\ Len(chan[j]) + 1 \in 1..Len(chan'[j])
            /\ \A i \in 1..Len(chan[j]) : i \in 1..Len(chan'[j])
        BY <1>0, <1>4, <2>5, JobTypes
      <4>2. /\ chan'[j][Len(chan[j]) + 1] = at[j]
            /\ \A i \in 1..Len(chan[j]) : chan'[j][i] = chan[j][i]
        BY <1>4, <2>5
      <4> QED
        BY <1>1, <4>1, <4>2, Zenon DEF InFlight
    <3>10. \A s \in Nat : s < at'[j] => s < at[j] \/ s = at[j]
      BY <1>0, <2>5, JobTypes
    <3>11. Slot \subseteq Nat
      BY IngestAssumption DEF IngestAssumption, Slot
    <3>12. AccountInv(j)'
      BY <1>0, <1>1, <2>2, <2>4, <2>5, <3>9, <3>10, <3>11, Zenon DEF JobInv, AccountInv, Receiving
    <3> QED
      BY <2>3, <3>8, <3>12 DEF JobInv
  <2>6. CASE ~Receiving(j) /\ pc'[j] = "join" /\ at'[j] = at[j] /\ chan'[j] = chan[j]
    <3>1. \A s : Ready(j, s) => Ready(j, s)'
      BY <1>1, <2>1, <2>6, Zenon DEF Ready
    <3>2. QueueInv(j)'
      BY <1>0, <1>1, <2>6, <3>1, SMTT(30) DEF JobInv, QueueInv, Running, Receiving
    <3>3. AccountInv(j)'
      BY <1>0, <1>1, <2>2, <2>4, <2>6, Zenon DEF JobInv, AccountInv, Receiving
    <3> QED
      BY <2>3, <3>2, <3>3 DEF JobInv
  <2> QED
    BY <1>2, <2>5, <2>6
<1> QED
  BY <1>5, <1>6, <1>7 DEF IngestInv


-----------------------------------------------------------------------------
(* Batches taken and written, and the end of the loop.                     *)

\* The oldest batch leaves the channel for the writer's hands.
LEMMA TakeBatchInv ==
    ASSUME IngestInv, NEW j \in Job, TakeBatch(j)
    PROVE  IngestInv'
<1>0. IngestTypeOK /\ \A k \in Job : JobInv(k)
  BY DEF IngestInv
<1>1. /\ pc'[j] = pc[j] /\ from'[j] = from[j] /\ to'[j] = to[j] /\ finalized' = finalized
      /\ at'[j] = at[j] /\ chunkEnd'[j] = chunkEnd[j] /\ failed'[j] = failed[j]
      /\ checkpoint'[j] = checkpoint[j] /\ cancelled'[j] = cancelled[j]
      /\ stored' = stored /\ undrained' = undrained /\ unfetched' = unfetched
      /\ chan[j] # <<>>
  BY DEF TakeBatch, dbVars, prodVars
<1>2. /\ held'[j] = Head(chan[j]) /\ chan'[j] = Tail(chan[j])
      /\ \/ wr[j] = "recv" /\ wr'[j] = "write"
         \/ wr[j] = "drain" /\ wr'[j] = "drainWrite"
  BY <1>0, JobDomains DEF TakeBatch
<1>3. /\ Head(chan[j]) = chan[j][1] /\ Head(chan[j]) \in Slot
      /\ Tail(chan[j]) \in Seq(Slot)
      /\ Len(Tail(chan[j])) = Len(chan[j]) - 1 /\ Len(chan[j]) \in Nat /\ 1 <= Len(chan[j])
      /\ \A i \in 1..Len(Tail(chan[j])) : Tail(chan[j])[i] = chan[j][i + 1]
  <2>1. chan[j] \in Seq(Slot)
    BY <1>0 DEF IngestTypeOK
  <2> QED
    BY <1>1, <2>1
<1>4. Slot \subseteq 0..MaxSlot /\ Slot \subseteq Nat /\ 0 \notin Slot
  BY IngestAssumption DEF IngestAssumption, Slot
<1>5. IngestTypeOK'
  <2>1. chan' \in [Job -> Seq(Slot)]
    BY <1>0, <1>3 DEF IngestTypeOK, TakeBatch
  <2>2. ASSUME NEW k \in Job PROVE Len(chan'[k]) <= ChannelCapacity
    <3>1. CASE k = j
      <4>1. Len(chan[j]) <= ChannelCapacity /\ ChannelCapacity \in Nat
        BY <1>0, IngestAssumption DEF IngestTypeOK, IngestAssumption
      <4>2. Len(chan'[k]) = Len(chan[j]) - 1
        BY <1>2, <1>3, <3>1, Zenon
      <4> QED
        BY <1>3, <4>1, <4>2
    <3>2. CASE k # j
      <4>1. chan'[k] = chan[k]
        BY <1>0, <3>2 DEF TakeBatch, IngestTypeOK
      <4> QED
        BY <1>0, <4>1, JobTypes
    <3> QED
      BY <3>1, <3>2
  <2>3. held' \in [Job -> 0..MaxSlot]
    BY <1>0, <1>3, <1>4, Zenon DEF IngestTypeOK, TakeBatch
  <2>4. wr' \in [Job -> WR]
    BY <1>0 DEF IngestTypeOK, TakeBatch, WR
  <2> QED
    BY <1>0, <2>1, <2>2, <2>3, <2>4, Zenon DEF IngestTypeOK, TakeBatch, dbVars, rowVars, prodVars
<1>6. ASSUME NEW k \in Job, k # j PROVE JobInv(k)'
  <2>1. SameJob(k) /\ OnlyAdds
    BY <1>0, <1>6, JobDomains DEF SameJob, OnlyAdds, TakeBatch, dbVars, prodVars
  <2> QED
    BY <1>0, <1>5, <2>1, JobFrame
<1>7. JobInv(j)'
  <2>1. \A s : DecodeBlock(s)' = DecodeBlock(s)
    BY DEF DecodeBlock, Decodes
  <2>2. \A s : Covered(s) => Covered(s)'
    BY <1>1, CoveredMonotone
  <2>3. RangeInv(j)'
    BY <1>0, <1>1, <2>1, Zenon DEF JobInv, RangeInv, Running
  <2>4. \A s : Ready(j, s) => Ready(j, s)'
    BY <1>1, <2>1 DEF Ready
  <2>5. held[j] = 0 /\ held'[j] = chan[j][1]
    BY <1>0, <1>2, <1>3, Zenon DEF JobInv, QueueInv
  <2>6. held'[j] # 0 /\ Ready(j, held[j])'
    <3>1. 1 \in 1..Len(chan[j])
      BY <1>3
    <3>2. \A i \in 1..Len(chan[j]) : Ready(j, chan[j][i]) /\ held[j] < chan[j][i]
      BY <1>0, Zenon DEF JobInv, QueueInv
    <3>3. Ready(j, chan[j][1]) /\ 0 < chan[j][1]
      BY <2>5, <3>1, <3>2
    <3>4. Ready(j, chan[j][1]) /\ chan[j][1] # 0
      BY <3>3
    <3> QED
      BY <2>4, <2>5, <3>4
  <2>7. \A i \in 1..Len(chan'[j]) : i + 1 \in 1..Len(chan[j]) /\ chan'[j][i] = chan[j][i + 1]
    BY <1>2, <1>3
  <2>8. \A i \in 1..Len(chan'[j]) : Ready(j, chan[j][i])' /\ held'[j] < chan'[j][i]
    BY <1>0, <1>3, <2>4, <2>5, <2>7 DEF JobInv, QueueInv
  <2>9. ASSUME NEW i \in 1..Len(chan'[j]), NEW k \in 1..Len(chan'[j]), i < k
        PROVE  chan'[j][i] < chan'[j][k]
    <3>1. i \in Int /\ k \in Int /\ i + 1 < k + 1
      BY <1>2, <1>3, <2>9
    <3>2. \A a, b \in 1..Len(chan[j]) : a < b => chan[j][a] < chan[j][b]
      BY <1>0 DEF JobInv, QueueInv
    <3> QED
      BY <2>7, <3>1, <3>2, Zenon
  <2>10. QueueInv(j)'
    <3>1. /\ (Running(j) <=> wr[j] # "off")'
          /\ (wr[j] \in {"write", "drainWrite"})'
          /\ Receiving(j)' /\ Receiving(j)
          /\ (j = "backfill" /\ Running(j) => checkpoint[j] < at[j])'
      BY <1>0, <1>1, <1>2 DEF JobInv, QueueInv, Running, Receiving
    <3> QED
      BY <2>6, <2>8, <2>9, <3>1, Zenon DEF QueueInv
  <2>11. \A s \in Slot : InFlight(j, s) => InFlight(j, s)'
    <3>1. SUFFICES ASSUME NEW s \in Slot, NEW i \in 1..Len(chan[j]), chan[j][i] = s
                   PROVE  InFlight(j, s)'
      BY <1>4, <2>5, Zenon DEF InFlight
    <3>2. CASE i = 1
      BY <2>5, <3>1, <3>2 DEF InFlight
    <3>3. CASE i # 1
      <4>1. i - 1 \in 1..Len(chan'[j]) /\ chan'[j][i - 1] = s
        BY <1>2, <1>3, <3>1, <3>3
      <4> QED
        BY <4>1 DEF InFlight
    <3> QED
      BY <3>2, <3>3
  <2>12. Backed(j)' /\ OkCovered(j)'
    BY <1>0, <1>1, <2>1, <2>2, Zenon DEF JobInv, AccountInv, Backed, OkCovered
  <2>13. AccountInv(j)'
    BY <1>0, <1>1, <1>2, <2>2, <2>11, <2>12 DEF JobInv, AccountInv, Receiving
  <2> QED
    BY <2>3, <2>10, <2>13 DEF JobInv
<1> QED
  BY <1>5, <1>6, <1>7 DEF IngestInv

\* The loop is left, on a closed channel or through the drain.
LEMMA LeaveLoopInv ==
    ASSUME IngestInv, NEW j \in Job, ChannelClosed(j) \/ StartDrain(j) \/ EndDrain(j)
    PROVE  IngestInv'
<1>0. IngestTypeOK /\ \A k \in Job : JobInv(k)
  BY DEF IngestInv
<1>1. /\ pc'[j] = pc[j] /\ from'[j] = from[j] /\ to'[j] = to[j] /\ finalized' = finalized
      /\ at'[j] = at[j] /\ chunkEnd'[j] = chunkEnd[j] /\ failed'[j] = failed[j]
      /\ checkpoint'[j] = checkpoint[j] /\ cancelled'[j] = cancelled[j]
      /\ stored' = stored /\ undrained' = undrained /\ unfetched' = unfetched
      /\ chan'[j] = chan[j] /\ held'[j] = held[j]
  BY Zenon DEF ChannelClosed, StartDrain, EndDrain, dbVars, prodVars
<1>2. \/ wr[j] = "recv" /\ wr'[j] = "flush" /\ chan[j] = <<>> /\ pc[j] = "join"
      \/ wr[j] = "recv" /\ wr'[j] = "drain" /\ cancelled[j]
      \/ wr[j] = "drain" /\ wr'[j] = "flush"
  BY <1>0, JobDomains, Zenon DEF ChannelClosed, StartDrain, EndDrain
<1>3. IngestTypeOK'
  <2>1. wr' \in [Job -> WR]
    BY <1>0, Zenon DEF IngestTypeOK, ChannelClosed, StartDrain, EndDrain, WR
  <2> QED
    BY <1>0, <2>1
    DEF IngestTypeOK, ChannelClosed, StartDrain, EndDrain, dbVars, rowVars, prodVars
<1>4. ASSUME NEW k \in Job, k # j PROVE JobInv(k)'
  <2>1. SameJob(k) /\ OnlyAdds
    BY <1>0, <1>4, JobDomains
    DEF SameJob, OnlyAdds, ChannelClosed, StartDrain, EndDrain, dbVars, prodVars
  <2> QED
    BY <1>0, <1>3, <2>1, JobFrame, Zenon
<1>5. JobInv(j)'
  <2>1. \A s : DecodeBlock(s)' = DecodeBlock(s)
    BY Zenon DEF DecodeBlock, Decodes
  <2>2. \A s : Covered(s) => Covered(s)'
    BY <1>1, CoveredMonotone, Zenon
  <2>3. RangeInv(j)'
    BY <1>0, <1>1, <2>1 DEF JobInv, RangeInv, Running
  <2>4. \A s : (Ready(j, s) => Ready(j, s)') /\ (InFlight(j, s) => InFlight(j, s)')
    BY <1>1, <2>1, Zenon DEF Ready, InFlight
  <2>5. QueueInv(j)'
    <3>1. QueueInv(j)
      BY <1>0, Zenon DEF JobInv
    <3>2. /\ wr[j] \notin {"off", "write", "drainWrite"}
          /\ wr'[j] \notin {"off", "write", "drainWrite"} /\ Receiving(j)'
      BY <1>2 DEF Receiving
    <3>3. held'[j] = 0 /\ held[j] = 0 /\ Running(j) /\ Running(j)'
      BY <1>1, <3>1, <3>2, Zenon DEF QueueInv, Running
    <3>4. \A i \in 1..Len(chan[j]) : Ready(j, chan[j][i]) /\ held[j] < chan[j][i]
      BY <3>1, Zenon DEF QueueInv
    <3>5. \A i \in 1..Len(chan'[j]) : Ready(j, chan[j][i])' /\ held'[j] < chan'[j][i]
      BY <1>1, <3>4, <2>1, Zenon DEF Ready
    <3>6. \A i, k \in 1..Len(chan'[j]) : i < k => chan'[j][i] < chan'[j][k]
      BY <1>1, <3>1, Zenon DEF QueueInv
    <3>7. j = "backfill" => checkpoint'[j] < at'[j]
      BY <1>1, <3>1, <3>3, Zenon DEF QueueInv
    <3> QED
      BY <3>2, <3>3, <3>5, <3>6, <3>7, Zenon DEF QueueInv
  <2>6. Backed(j)' /\ OkCovered(j)'
    BY <1>0, <1>1, <2>1, <2>2, ZenonT(30) DEF JobInv, AccountInv, Backed, OkCovered
  <2>7. AccountInv(j)'
    BY <1>0, <1>1, <1>2, <2>2, <2>4, <2>6, Zenon DEF JobInv, AccountInv, Receiving
  <2> QED
    BY <2>3, <2>5, <2>7 DEF JobInv
<1> QED
  BY <1>3, <1>4, <1>5 DEF IngestInv

\* write_block returned, with or without the transaction committed.
LEMMA WriteBatchInv ==
    ASSUME IngestInv, NEW j \in Job, CommitBatch(j) \/ FailBatch(j) \/ FailDrainBatch(j)
    PROVE  IngestInv'
<1>0. IngestTypeOK /\ \A k \in Job : JobInv(k)
  BY DEF IngestInv
<1>1. /\ pc'[j] = pc[j] /\ from'[j] = from[j] /\ to'[j] = to[j] /\ finalized' = finalized
      /\ at'[j] = at[j] /\ chunkEnd'[j] = chunkEnd[j] /\ failed'[j] = failed[j]
      /\ cancelled'[j] = cancelled[j] /\ unfetched' = unfetched
      /\ undrained \subseteq undrained' /\ stored \subseteq stored'
      /\ wr[j] \in {"write", "drainWrite"}
  BY DEF CommitBatch, FailBatch, FailDrainBatch, WriteBlock, FailedWrite, dbVars, prodVars
<1>2. \/ /\ stored' = stored \cup DecodeBlock(held[j])
         /\ checkpoint' = [checkpoint EXCEPT ![j] = held[j]]
      \/ checkpoint' = checkpoint
  BY Zenon DEF CommitBatch, FailBatch, FailDrainBatch, WriteBlock,
         UpdateCheckpoint, FailedWrite, dbVars
<1>3. /\ held'[j] = 0
      /\ \/ /\ \/ wr[j] = "write" /\ wr'[j] = "recv"
               \/ wr[j] = "drainWrite" /\ wr'[j] = "drain"
            /\ chan'[j] = chan[j]
            /\ stored' = stored \cup DecodeBlock(held[j]) \/ held[j] \in undrained'
         \/ wr[j] = "write" /\ wr'[j] = "err" /\ chan'[j] = <<>>
  BY <1>0, JobDomains DEF CommitBatch, FailBatch, FailDrainBatch, WriteBlock
<1>4. held[j] \in Slot /\ held[j] \in 0..MaxSlot /\ held[j] # 0 /\ Ready(j, held[j])
  <2>1. held[j] \in 0..MaxSlot
    BY <1>0, Zenon DEF IngestTypeOK
  <2>2. held[j] # 0 /\ Ready(j, held[j])
    BY <1>0, <1>1, Zenon DEF JobInv, QueueInv
  <2> QED
    BY <2>1, <2>2, IngestAssumption DEF IngestAssumption, Slot
<1>5. DecodeBlock(held[j]) \subseteq Tx
  BY DecodeBlockType
<1>6. j \in Stream
  BY DEF Job, Stream
<1>7. IngestTypeOK'
  <2>1. stored' \subseteq Tx
    BY <1>0, <1>5, Zenon
    DEF IngestTypeOK, CommitBatch, FailBatch, FailDrainBatch, WriteBlock, FailedWrite, dbVars
  <2>2. checkpoint' \in [Stream -> 0..MaxSlot]
    BY <1>0, <1>2, <1>4, <1>6, Zenon DEF IngestTypeOK
  <2>3. undrained' \subseteq Slot
    BY <1>0, <1>4 DEF IngestTypeOK, CommitBatch, FailBatch, FailDrainBatch
  <2>4. wr' \in [Job -> WR]
    BY <1>0, Zenon DEF IngestTypeOK, CommitBatch, FailBatch, FailDrainBatch, WR
  <2>5. held' \in [Job -> 0..MaxSlot]
    <3>1. held' = [held EXCEPT ![j] = 0] /\ 0 \in 0..MaxSlot
      BY IngestAssumption DEF CommitBatch, FailBatch, FailDrainBatch, IngestAssumption
    <3> QED
      BY <1>0, <3>1 DEF IngestTypeOK
  <2>6. written' \in [Job -> Nat]
    <3>1. NewRows(DecodeBlock(held[j])) \in Nat
      BY <1>5, NewRowsType
    <3>2. written[j] + NewRows(DecodeBlock(held[j])) \in Nat
      BY <1>0, <3>1 DEF IngestTypeOK
    <3>3. written' = written \/ \E n \in Nat : written' = [written EXCEPT ![j] = n]
      BY <3>2 DEF CommitBatch, FailBatch, FailDrainBatch
    <3>4. written \in [Job -> Nat]
      BY <1>0 DEF IngestTypeOK
    <3> QED
      BY <3>3, <3>4
  <2>7. chan' = chan \/ chan' = [chan EXCEPT ![j] = <<>>]
    BY DEF CommitBatch, FailBatch, FailDrainBatch
  <2>8. chan' \in [Job -> Seq(Slot)]
    <3>1. <<>> \in Seq(Slot)
      OBVIOUS
    <3> QED
      BY <1>0, <2>7, <3>1, Zenon DEF IngestTypeOK
  <2>9. ASSUME NEW k \in Job PROVE Len(chan'[k]) <= ChannelCapacity
    <3>1. chan'[k] = chan[k] \/ chan'[k] = <<>>
      BY <1>0, <2>7, JobDomains
    <3>2. Len(chan[k]) <= ChannelCapacity /\ 0 <= ChannelCapacity
      BY <1>0, IngestAssumption DEF IngestTypeOK, IngestAssumption
    <3>3. Len(<<>>) = 0
      OBVIOUS
    <3> QED
      BY <3>1, <3>2, <3>3
  <2>10. UNCHANGED <<finalized, rowVars, total, cancelled, prodVars, unfetched>>
    BY DEF CommitBatch, FailBatch, FailDrainBatch
  <2>11. UNCHANGED <<finalized, status, lastProcessed, total, cancelled, pc, from, to, at,
                     chunkEnd, failed, unfetched>>
    BY <2>10 DEF rowVars, prodVars
  <2> QED
    BY <1>0, <2>1, <2>2, <2>3, <2>4, <2>5, <2>6, <2>8, <2>9, <2>11, Zenon DEF IngestTypeOK
<1>8. ASSUME NEW k \in Job, k # j PROVE JobInv(k)'
  <2>1. checkpoint'[k] = checkpoint[k]
    BY <1>0, <1>2, <1>8, JobDomains, Zenon
  <2>2. SameJob(k)
    <3>1. UNCHANGED <<pc, from, to, at, chunkEnd, failed, cancelled>>
      BY DEF CommitBatch, FailBatch, FailDrainBatch, prodVars
    <3>2. chan'[k] = chan[k] /\ wr'[k] = wr[k] /\ held'[k] = held[k]
      <4>1. CASE CommitBatch(j)
        BY <1>0, <1>8, <4>1, JobDomains, Zenon DEF CommitBatch
      <4>2. CASE FailBatch(j)
        BY <1>0, <1>8, <4>2, JobDomains, Zenon DEF FailBatch
      <4>3. CASE FailDrainBatch(j)
        BY <1>0, <1>8, <4>3, JobDomains, Zenon DEF FailDrainBatch
      <4> QED
        BY <4>1, <4>2, <4>3
    <3> QED
      BY <2>1, <3>1, <3>2, Zenon DEF SameJob
  <2>3. OnlyAdds
    <3>1. finalized \in Nat
      BY <1>0, JobTypes
    <3>2. finalized <= finalized
      BY <3>1
    <3> QED
      BY <1>1, <3>2, Zenon DEF OnlyAdds
  <2> QED
    BY <1>0, <1>7, <2>2, <2>3, JobFrame
<1>9. JobInv(j)'
  <2>1. \A s : DecodeBlock(s)' = DecodeBlock(s)
    BY DEF DecodeBlock, Decodes
  <2>2. \A s : Covered(s) => Covered(s)'
    BY <1>1, CoveredMonotone, ZenonT(30)
  <2>3. RangeInv(j)'
    BY <1>0, <1>1, <2>1, Zenon DEF JobInv, RangeInv, Running
  <2>4. \/ checkpoint'[j] = held[j] /\ stored' = stored \cup DecodeBlock(held[j])
        \/ checkpoint'[j] = checkpoint[j]
    BY <1>0, <1>2, <1>6, JobDomains
  <2>5. \A i \in 1..Len(chan[j]) : Ready(j, chan[j][i]) /\ held[j] < chan[j][i]
    BY <1>0, ZenonT(30) DEF JobInv, QueueInv
  <2>6. \A s \in Nat : Ready(j, s) /\ held[j] < s => Ready(j, s)'
    BY <1>1, <2>1, <2>4, SMTT(30) DEF Ready
  <2>7. Running(j)' /\ Running(j)
    BY <1>0, <1>1, ZenonT(30) DEF JobInv, QueueInv, Running
  <2>8. (j = "backfill" => checkpoint[j] < at[j])'
    BY <1>0, <1>1, <1>4, <2>4, <2>7, ZenonT(30) DEF Ready, JobInv, QueueInv
  <2>9. QueueInv(j)'
    <3>1. CASE wr'[j] = "err" /\ chan'[j] = <<>>
      BY <1>3, <2>7, <2>8, <3>1, EmptyQueue
    <3>2. CASE wr'[j] \in {"recv", "drain"} /\ chan'[j] = chan[j]
      <4>1. \A i \in 1..Len(chan[j]) : chan[j][i] \in Nat /\ 0 < chan[j][i]
        BY <1>0, <1>4, <2>5, JobTypes, SMTT(30)
      <4>2. ASSUME NEW i \in 1..Len(chan'[j])
            PROVE  Ready(j, chan[j][i])' /\ held'[j] < chan'[j][i]
        <5>1. i \in 1..Len(chan[j]) /\ chan'[j][i] = chan[j][i]
          BY <3>2, <4>2, Zenon
        <5>2. Ready(j, chan[j][i]) /\ held[j] < chan[j][i] /\ chan[j][i] \in Nat /\ 0 < chan[j][i]
          BY <2>5, <4>1, <5>1, Zenon
        <5>3. \A s \in Nat : s = chan[j][i] => Ready(j, s)'
          BY <2>6, <5>2, Zenon
        <5>4. Ready(j, chan[j][i])'
          BY <5>1, <5>2, <5>3 DEF Ready
        <5> QED
          BY <1>3, <5>1, <5>2, <5>4, Zenon
      <4>3. \A i, k \in 1..Len(chan'[j]) : i < k => chan'[j][i] < chan'[j][k]
        BY <1>0, <3>2, ZenonT(30) DEF JobInv, QueueInv
      <4>4. Receiving(j)'
        BY <3>2, Zenon DEF Receiving
      <4>5. /\ (Running(j) <=> wr[j] # "off")'
            /\ (held[j] # 0 <=> wr[j] \in {"write", "drainWrite"})'
            /\ (held[j] # 0 => Ready(j, held[j]))'
        BY <1>3, <2>7, <3>2
      <4> QED
        BY <2>8, <4>2, <4>3, <4>4, <4>5, ZenonT(30) DEF QueueInv
    <3> QED
      BY <1>3, <3>1, <3>2, ZenonT(60)
  <2>10. Backed(j)'
    BY <1>0, <1>1, <1>4, <2>1, <2>4, ZenonT(30) DEF JobInv, AccountInv, Backed, Ready
  <2>11. OkCovered(j)'
    BY <1>0, <1>1, <2>2, ZenonT(30) DEF JobInv, AccountInv, OkCovered
  <2>12. \A s \in Slot : from[j] <= s /\ s < at[j] => Covered(s) \/ InFlight(j, s)
    BY <1>0, <1>1, Zenon DEF JobInv, AccountInv, Receiving
  <2>13. \A s : s = held[j] /\ stored' = stored \cup DecodeBlock(held[j]) => Covered(s)'
    BY <2>1 DEF Covered
  <2>14. \A s : s = held[j] /\ s \in undrained' => Covered(s)'
    BY ZenonT(60) DEF Covered
  <2>15. ASSUME NEW s \in Slot, InFlight(j, s), ~Covered(s)', Receiving(j)'
         PROVE  InFlight(j, s)'
    BY <1>3, <2>13, <2>14, <2>15, Zenon DEF InFlight, Receiving
  <2>16. ASSUME NEW s \in Slot, j = "backfill", from[j] <= s, s <= checkpoint'[j]
         PROVE  Covered(s)'
    <3>1. CASE checkpoint'[j] = checkpoint[j]
      BY <1>0, <2>2, <2>16, <3>1, Zenon DEF JobInv, AccountInv
    <3>2. CASE checkpoint'[j] = held[j] /\ stored' = stored \cup DecodeBlock(held[j])
      <4>1. s \in Nat /\ held[j] \in Nat /\ at[j] \in Nat /\ s <= held[j] /\ held[j] < at[j]
        BY <1>0, <1>4, <2>16, <3>2, JobTypes, IngestAssumption DEF Ready, Slot, IngestAssumption
      <4>2. Covered(s) \/ InFlight(j, s)
        BY <2>12, <2>16, <4>1
      <4>3. InFlight(j, s) => s = held[j]
        <5>1. \A i \in 1..Len(chan[j]) : chan[j][i] # s
          <6>1. \A i \in 1..Len(chan[j]) : chan[j][i] \in Nat
            BY <1>0, JobTypes
          <6>2. \A i \in 1..Len(chan[j]) : held[j] < chan[j][i]
            BY <2>5, Zenon
          <6> QED
            BY <4>1, <6>1, <6>2
        <5> QED
          BY <5>1, SMTT(30) DEF InFlight
      <4> QED
        BY <2>2, <2>13, <3>2, <4>2, <4>3, Zenon
    <3> QED
      BY <2>4, <3>1, <3>2
  <2>17. AccountInv(j)'
    <3>1. ASSUME NEW s \in Slot, Receiving(j)', from'[j] <= s, s < at'[j]
          PROVE  Covered(s)' \/ InFlight(j, s)'
      BY <1>1, <2>2, <2>12, <2>15, <3>1, Zenon
    <3>2. /\ (wr[j] \in {"drain", "drainWrite"} => cancelled[j])'
          /\ (wr[j] \notin {"flush", "ok"})'
      BY <1>0, <1>1, <1>3, Zenon DEF JobInv, AccountInv
    <3>3. \A s \in Slot : j = "backfill" /\ from'[j] <= s /\ s <= checkpoint'[j] => Covered(s)'
      BY <1>1, <2>16
    <3> QED
      BY <2>10, <2>11, <3>1, <3>2, <3>3, Zenon DEF AccountInv
  <2> QED
    BY <2>3, <2>9, <2>17 DEF JobInv
<1> QED
  BY <1>7, <1>8, <1>9 DEF IngestInv
=============================================================================
