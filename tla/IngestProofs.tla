---------------------------- MODULE IngestProofs ----------------------------
(***************************************************************************)
(* The start, the heartbeats and the end of a job preserve IngestInv, so   *)
(* that it is an inductive invariant of the write path, for every chain,   *)
(* chunk size and channel capacity.  The safety properties of Ingest       *)
(* follow from it.                                                         *)
(***************************************************************************)
EXTENDS IngestStepProofs


-----------------------------------------------------------------------------
(* The heartbeat between chunks and the end of a job.                      *)

\* The counters are flushed and the receiver dropped.
LEMMA FlushCountersInv ==
    ASSUME IngestInv, NEW j \in Job, FlushCounters(j)
    PROVE  IngestInv'
<1>0. IngestTypeOK /\ \A k \in Job : JobInv(k)
  BY DEF IngestInv
<1>1. /\ pc'[j] = pc[j] /\ from'[j] = from[j] /\ to'[j] = to[j] /\ finalized' = finalized
      /\ at'[j] = at[j] /\ chunkEnd'[j] = chunkEnd[j] /\ failed'[j] = failed[j]
      /\ checkpoint'[j] = checkpoint[j] /\ cancelled'[j] = cancelled[j]
      /\ stored' = stored /\ undrained' = undrained /\ unfetched' = unfetched
      /\ held'[j] = held[j] /\ wr[j] = "flush"
  BY DEF FlushCounters, dbVars, prodVars
<1>2. wr'[j] = "ok" /\ chan'[j] = <<>>
  BY <1>0, JobDomains DEF FlushCounters
<1>3. IngestTypeOK'
  <2>1. wr' \in [Job -> WR]
    BY <1>0 DEF IngestTypeOK, FlushCounters, WR
  <2>2. chan' \in [Job -> Seq(Slot)]
    <3>1. <<>> \in Seq(Slot)
      OBVIOUS
    <3> QED
      BY <1>0, <3>1 DEF IngestTypeOK, FlushCounters
  <2>3. ASSUME NEW k \in Job PROVE Len(chan'[k]) <= ChannelCapacity
    <3>1. chan'[k] = chan[k] \/ chan'[k] = <<>>
      BY <1>0 DEF IngestTypeOK, FlushCounters
    <3>2. Len(chan[k]) <= ChannelCapacity /\ 0 <= ChannelCapacity
      BY <1>0, IngestAssumption DEF IngestTypeOK, IngestAssumption
    <3>3. Len(<<>>) = 0
      OBVIOUS
    <3> QED
      BY <3>1, <3>2, <3>3
  <2>4. total' \in Nat
    <3>1. written[j] \in Nat /\ total \in Nat
      BY <1>0 DEF IngestTypeOK
    <3> QED
      BY <3>1 DEF FlushCounters, IncrementIndexerCounters
  <2>5. written' \in [Job -> Nat]
    BY <1>0 DEF IngestTypeOK, FlushCounters
  <2>6. UNCHANGED <<finalized, stored, checkpoint, status, lastProcessed, cancelled, pc, from,
                    to, at, chunkEnd, failed, held, unfetched, undrained>>
    BY DEF FlushCounters, dbVars, rowVars, prodVars
  <2> QED
    BY <1>0, <2>1, <2>2, <2>3, <2>4, <2>5, <2>6, Zenon DEF IngestTypeOK
<1>4. ASSUME NEW k \in Job, k # j PROVE JobInv(k)'
  <2>1. SameJob(k) /\ OnlyAdds
    BY <1>0, <1>4, JobDomains DEF SameJob, OnlyAdds, FlushCounters, dbVars, prodVars
  <2> QED
    BY <1>0, <1>3, <2>1, JobFrame
<1>5. JobInv(j)'
  <2>1. \A s : DecodeBlock(s)' = DecodeBlock(s)
    BY DEF DecodeBlock, Decodes
  <2>2. \A s : Covered(s) => Covered(s)'
    BY <1>1, CoveredMonotone
  <2>3. RangeInv(j)'
    BY <1>0, <1>1, <2>1 DEF JobInv, RangeInv, Running
  <2>4. held[j] = 0
    BY <1>0, <1>1 DEF JobInv, QueueInv
  <2>5. QueueInv(j)'
    <3>1. held'[j] = 0 /\ Running(j)'
      BY <1>0, <1>1, <2>4, Zenon DEF JobInv, QueueInv, Running
    <3>2. j = "backfill" => checkpoint'[j] < at'[j]
      BY <1>0, <1>1, <3>1 DEF JobInv, QueueInv, Running
    <3> QED
      BY <1>2, <3>1, <3>2, EmptyQueue, SMTT(30)
  <2>6. Backed(j)' /\ OkCovered(j)'
    BY <1>0, <1>1, <2>1, <2>2, Zenon DEF JobInv, AccountInv, Backed, OkCovered
  <2>7. ASSUME NEW s \in Slot, ~cancelled[j], from[j] <= s, s < at[j]
        PROVE  Covered(s)
    <3>1. ~InFlight(j, s)
      <4>1. chan[j] = <<>>
        BY <1>0, <1>1, <2>7, ZenonT(30) DEF JobInv, AccountInv
      <4>2. s # held[j] /\ 1..Len(chan[j]) = {}
        BY <2>4, <4>1 DEF Slot
      <4> QED
        BY <4>2, Zenon DEF InFlight
    <3> QED
      BY <1>0, <1>1, <2>7, <3>1 DEF JobInv, AccountInv, Receiving
  <2>8. AccountInv(j)'
    BY <1>0, <1>1, <1>2, <2>2, <2>6, <2>7 DEF JobInv, AccountInv, Receiving
  <2> QED
    BY <2>3, <2>5, <2>8 DEF JobInv
<1> QED
  BY <1>3, <1>4, <1>5 DEF IngestInv

\* update_indexer_state keeps the types of the row, done or not.
LEMMA UpdateTypes ==
    ASSUME IngestTypeOK, NEW s \in Status, NEW slot \in 0..MaxSlot,
           TryUpdateIndexerState(s, slot)
    PROVE  status' \in Status /\ lastProcessed' \in 0..MaxSlot
BY DEF IngestTypeOK, TryUpdateIndexerState, UpdateIndexerState, Larger, rowVars

\* The heartbeat writes indexer_state only.
LEMMA ChunkHeartbeatInv ==
    ASSUME IngestInv, NEW j \in Job, ChunkHeartbeat(j)
    PROVE  IngestInv'
<1>0. IngestTypeOK /\ \A k \in Job : JobInv(k)
  BY DEF IngestInv
<1>1. /\ pc[j] = "beat" /\ from'[j] = from[j] /\ to'[j] = to[j] /\ finalized' = finalized
      /\ at'[j] = at[j] /\ failed'[j] = failed[j] /\ chan'[j] = chan[j]
      /\ wr'[j] = wr[j] /\ held'[j] = held[j] /\ checkpoint'[j] = checkpoint[j]
      /\ cancelled'[j] = cancelled[j] /\ stored' = stored /\ undrained' = undrained
      /\ unfetched' = unfetched
  BY DEF ChunkHeartbeat, dbVars, wrVars
<1>2. pc'[j] = "chunk"
  BY <1>0, JobDomains DEF ChunkHeartbeat
<1>3. IngestTypeOK'
  <2>1. status' \in Status /\ lastProcessed' \in 0..MaxSlot
    <3>1. CASE j = "backfill"
      <4>1. TryUpdateIndexerState("backfilling", chunkEnd[j])
        BY <3>1 DEF ChunkHeartbeat
      <4>2. chunkEnd[j] \in 0..MaxSlot /\ "backfilling" \in Status
        BY <1>0 DEF IngestTypeOK, Status
      <4> QED
        BY <1>0, <4>1, <4>2, UpdateTypes
    <3>2. CASE j # "backfill"
      BY <1>0, <3>2 DEF ChunkHeartbeat, IngestTypeOK, rowVars
    <3> QED
      BY <3>1, <3>2
  <2>2. pc' \in [Job -> PC]
    BY <1>0 DEF IngestTypeOK, ChunkHeartbeat, PC
  <2>3. chunkEnd' \in [Job -> 0..MaxSlot]
    BY <1>0, IngestAssumption DEF IngestTypeOK, ChunkHeartbeat, IngestAssumption
  <2> QED
    BY <1>0, <2>1, <2>2, <2>3, Zenon DEF IngestTypeOK, ChunkHeartbeat, dbVars, wrVars
<1>4. ASSUME NEW k \in Job, k # j PROVE JobInv(k)'
  <2>1. SameJob(k) /\ OnlyAdds
    BY <1>0, <1>4, JobDomains DEF SameJob, OnlyAdds, ChunkHeartbeat, dbVars, wrVars
  <2> QED
    BY <1>0, <1>3, <2>1, JobFrame
<1>5. JobInv(j)'
  <2>1. \A s : DecodeBlock(s)' = DecodeBlock(s)
    BY DEF DecodeBlock, Decodes
  <2>2. \A s : Covered(s) => Covered(s)'
    BY <1>1, CoveredMonotone, SMTT(30)
  <2>3. RangeInv(j)'
    BY <1>0, <1>1, <1>2, <2>1, JobTypes, ZenonT(30) DEF JobInv, RangeInv, Running
  <2>4. \A s : (Ready(j, s) => Ready(j, s)') /\ (InFlight(j, s) => InFlight(j, s)')
    BY <1>1, <2>1, ZenonT(30) DEF Ready, InFlight
  <2>5. QueueInv(j)'
    BY <1>0, <1>1, <1>2, <2>4, ZenonT(30) DEF JobInv, QueueInv, Running, Receiving
  <2>6. Backed(j)' /\ OkCovered(j)'
    BY <1>0, <1>1, <1>2, <2>1, <2>2, ZenonT(30) DEF JobInv, AccountInv, Backed, OkCovered
  <2>7. AccountInv(j)'
    BY <1>0, <1>1, <1>2, <2>2, <2>4, <2>6, Zenon DEF JobInv, AccountInv, Receiving
  <2> QED
    BY <2>3, <2>5, <2>7 DEF JobInv
<1> QED
  BY <1>3, <1>4, <1>5 DEF IngestInv

\* The job returns: Ok without a cancellation means that the writer returned Ok
\* after a producer that reached the end of its range.
LEMMA JoinWriterInv ==
    ASSUME IngestInv, NEW j \in Job, JoinWriter(j)
    PROVE  IngestInv'
<1>0. IngestTypeOK /\ \A k \in Job : JobInv(k)
  BY DEF IngestInv
<1>1. /\ pc[j] = "join" /\ from'[j] = from[j] /\ to'[j] = to[j] /\ finalized' = finalized
      /\ at'[j] = at[j] /\ chan'[j] = chan[j] /\ wr[j] \in {"ok", "err"}
      /\ held'[j] = held[j] /\ checkpoint'[j] = checkpoint[j]
      /\ cancelled'[j] = cancelled[j] /\ stored' = stored /\ undrained' = undrained
      /\ unfetched' = unfetched
  BY DEF JoinWriter, dbVars
<1>2. /\ wr'[j] = "off"
      /\ pc'[j] = "err" \/ (pc'[j] = "ok" /\ ~JobFailed(j))
  BY <1>0, JobDomains DEF JoinWriter
<1>3. IngestTypeOK'
  <2>1. status' \in Status /\ lastProcessed' \in 0..MaxSlot
    <3>1. /\ "idle" \in Status /\ "failed" \in Status
          /\ to[j] \in 0..MaxSlot /\ 0 \in 0..MaxSlot
      BY <1>0, IngestAssumption DEF IngestAssumption, IngestTypeOK, Status
    <3>2. \/ TryUpdateIndexerState("idle", to[j])
          \/ TryUpdateIndexerState("failed", 0)
          \/ UNCHANGED rowVars
      BY DEF JoinWriter, TryUpdateIndexerState
    <3> QED
      BY <1>0, <3>1, <3>2, UpdateTypes, Zenon DEF IngestTypeOK, rowVars
  <2>2. pc' \in [Job -> PC]
    BY <1>0, Zenon DEF IngestTypeOK, JoinWriter, PC
  <2>3. chunkEnd' \in [Job -> 0..MaxSlot]
    BY <1>0, IngestAssumption DEF IngestTypeOK, JoinWriter, IngestAssumption
  <2>4. failed' \in [Job -> BOOLEAN]
    BY <1>0 DEF IngestTypeOK, JoinWriter
  <2>5. wr' \in [Job -> WR]
    BY <1>0 DEF IngestTypeOK, JoinWriter, WR
  <2> QED
    BY <1>0, <2>1, <2>2, <2>3, <2>4, <2>5, Zenon DEF IngestTypeOK, JoinWriter, dbVars
<1>4. ASSUME NEW k \in Job, k # j PROVE JobInv(k)'
  <2>1. SameJob(k) /\ OnlyAdds
    BY <1>0, <1>4, JobDomains DEF SameJob, OnlyAdds, JoinWriter, dbVars
  <2> QED
    BY <1>0, <1>3, <2>1, JobFrame
<1>5. JobInv(j)'
  <2>1. \A s : DecodeBlock(s)' = DecodeBlock(s)
    BY DEF DecodeBlock, Decodes
  <2>2. \A s : Covered(s) => Covered(s)'
    BY <1>1, CoveredMonotone
  <2>3. RangeInv(j)'
    <3>1. RangeInv(j)
      BY <1>0, Zenon DEF JobInv
    <3>2. 1 <= from'[j] /\ 1 <= at'[j] /\ to'[j] <= finalized'
      BY <1>1, <3>1, Zenon DEF RangeInv
    <3>3. pc'[j] \in {"err", "ok"}
      BY <1>2
    <3> QED
      BY <3>2, <3>3 DEF RangeInv, Running
  <2>4. held[j] = 0 /\ chan[j] = <<>>
    BY <1>0, <1>1, ZenonT(30) DEF JobInv, QueueInv, Receiving
  <2>5. QueueInv(j)'
    <3>1. held'[j] = 0 /\ chan'[j] = <<>>
      BY <1>1, <2>4
    <3>2. ~Running(j)' /\ wr'[j] = "off"
      BY <1>2 DEF Running
    <3> QED
      BY <3>1, <3>2, EmptyQueue
  <2>6. OkCovered(j)'
    <3>1. SUFFICES ASSUME pc'[j] = "ok", ~cancelled[j], ChunkSize > 0,
                          NEW s \in from[j]..to[j]
                   PROVE  Covered(s)'
      BY <1>1 DEF OkCovered
    <3>2. wr[j] = "ok" /\ ~failed[j]
      BY <1>1, <1>2, <3>1 DEF JobFailed
    <3>3. at[j] > to[j]
      BY <1>0, <1>1, <3>1, <3>2, Zenon DEF JobInv, RangeInv
    <3>4. s \in Slot /\ from[j] <= s /\ s < at[j]
      BY <1>0, <3>3, JobTypes, SMTT(30) DEF JobInv, RangeInv, Slot
    <3> QED
      BY <1>0, <2>2, <3>1, <3>2, <3>4 DEF JobInv, AccountInv
  <2>7. Backed(j)'
    BY <1>0, <1>1, <2>1, ZenonT(30) DEF JobInv, AccountInv, Backed
  <2>8. AccountInv(j)'
    BY <1>0, <1>1, <1>2, <2>2, <2>6, <2>7, Zenon DEF JobInv, AccountInv, Receiving
  <2> QED
    BY <2>3, <2>5, <2>8 DEF JobInv
<1> QED
  BY <1>3, <1>4, <1>5 DEF IngestInv

-----------------------------------------------------------------------------
(* The start of a job.                                                     *)

\* A job that is not running starts over the range lo..hi, finds it empty or
\* fails before there is a channel.
StartOrReturn(j, lo, hi) ==
    /\ ~Running(j)
    /\ \/ FailEarly(j)
       \/ lo > hi /\ ReturnEarly(j, lo, hi)
       \/ lo <= hi /\ SpawnWriter(j, lo, hi)
    /\ UNCHANGED <<finalized, dbVars, total, cancelled, unfetched, undrained>>

\* A started job keeps the invariant: its range is new and nothing is in flight.
LEMMA StartInv ==
    ASSUME IngestInv, NEW j \in Job, NEW lo \in Nat, 1 <= lo, NEW hi \in 0..finalized,
           j = "backfill" => checkpoint[j] < lo,
           StartOrReturn(j, lo, hi),
           status' \in Status, lastProcessed' \in 0..MaxSlot
    PROVE  IngestInv'
<1>0. IngestTypeOK /\ \A k \in Job : JobInv(k)
  BY DEF IngestInv
<1>1. /\ finalized' = finalized /\ checkpoint'[j] = checkpoint[j]
      /\ cancelled'[j] = cancelled[j] /\ stored' = stored
      /\ undrained' = undrained /\ unfetched' = unfetched
  BY DEF StartOrReturn, dbVars
<1>2. wr[j] = "off" /\ held[j] = 0 /\ chan[j] = <<>>
  BY <1>0 DEF StartOrReturn, JobInv, QueueInv, Receiving
<1>3. \/ /\ pc'[j] = "err" /\ from'[j] = from[j] /\ to'[j] = to[j] /\ at'[j] = at[j]
         /\ wr'[j] = "off" /\ held'[j] = 0 /\ chan'[j] = <<>>
      \/ /\ pc'[j] = "ok" /\ from'[j] = lo /\ to'[j] = hi /\ at'[j] = lo /\ lo > hi
         /\ wr'[j] = "off" /\ held'[j] = 0 /\ chan'[j] = <<>>
      \/ /\ pc'[j] = "chunk" /\ from'[j] = lo /\ to'[j] = hi /\ at'[j] = lo /\ lo <= hi
         /\ wr'[j] = "recv" /\ held'[j] = 0 /\ chan'[j] = <<>>
  BY <1>0, <1>2, JobDomains
  DEF StartOrReturn, FailEarly, ReturnEarly, SpawnWriter, wrVars
<1>4. finalized \in Nat /\ finalized <= MaxSlot /\ MaxSlot \in Nat /\ hi \in 0..MaxSlot
      /\ hi <= finalized /\ hi \in Nat
  BY <1>0, JobTypes
<1>5. IngestTypeOK'
  <2>1. pc' \in [Job -> PC] /\ wr' \in [Job -> WR]
    BY <1>0, Zenon
    DEF IngestTypeOK, StartOrReturn, FailEarly, ReturnEarly, SpawnWriter, PC, WR, wrVars
  <2>2. from' \in [Job -> Nat] /\ at' \in [Job -> Nat]
    <3>1. from' = from \/ from' = [from EXCEPT ![j] = lo]
      BY DEF StartOrReturn, FailEarly, ReturnEarly, SpawnWriter
    <3>2. at' = at \/ at' = [at EXCEPT ![j] = lo]
      BY DEF StartOrReturn, FailEarly, ReturnEarly, SpawnWriter
    <3>3. from \in [Job -> Nat] /\ at \in [Job -> Nat]
      BY <1>0 DEF IngestTypeOK
    <3> QED
      BY <3>1, <3>2, <3>3
  <2>3. to' \in [Job -> 0..MaxSlot] /\ chunkEnd' \in [Job -> 0..MaxSlot]
        /\ held' \in [Job -> 0..MaxSlot]
    <3>1. to' = to \/ to' = [to EXCEPT ![j] = hi]
      BY DEF StartOrReturn, FailEarly, ReturnEarly, SpawnWriter
    <3>2. chunkEnd' = chunkEnd \/ chunkEnd' = [chunkEnd EXCEPT ![j] = 0]
      BY DEF StartOrReturn, FailEarly, ReturnEarly, SpawnWriter
    <3>3. held' = held \/ held' = [held EXCEPT ![j] = 0]
      BY DEF StartOrReturn, FailEarly, ReturnEarly, SpawnWriter, wrVars
    <3>4. 0 \in 0..MaxSlot
      BY <1>4
    <3>5. /\ to \in [Job -> 0..MaxSlot] /\ chunkEnd \in [Job -> 0..MaxSlot]
          /\ held \in [Job -> 0..MaxSlot]
      BY <1>0 DEF IngestTypeOK
    <3>6. to' \in [Job -> 0..MaxSlot]
      BY <1>4, <3>1, <3>5
    <3>7. chunkEnd' \in [Job -> 0..MaxSlot]
      BY <3>2, <3>4, <3>5
    <3>8. held' \in [Job -> 0..MaxSlot]
      BY <3>3, <3>4, <3>5
    <3> QED
      BY <3>6, <3>7, <3>8
  <2>4. failed' \in [Job -> BOOLEAN]
    BY <1>0, Zenon DEF IngestTypeOK, StartOrReturn, FailEarly, ReturnEarly, SpawnWriter
  <2>5. written' \in [Job -> Nat]
    <3>1. written' = written \/ written' = [written EXCEPT ![j] = 0]
      BY DEF StartOrReturn, FailEarly, ReturnEarly, SpawnWriter, wrVars
    <3>2. written \in [Job -> Nat]
      BY <1>0 DEF IngestTypeOK
    <3> QED
      BY <3>1, <3>2
  <2>6. chan' = chan \/ chan' = [chan EXCEPT ![j] = <<>>]
    BY DEF StartOrReturn, FailEarly, ReturnEarly, SpawnWriter
  <2>7. chan' \in [Job -> Seq(Slot)]
    <3>1. <<>> \in Seq(Slot)
      OBVIOUS
    <3> QED
      BY <1>0, <2>6, <3>1, Zenon DEF IngestTypeOK
  <2>8. ASSUME NEW k \in Job PROVE Len(chan'[k]) <= ChannelCapacity
    <3>1. chan'[k] = chan[k] \/ chan'[k] = <<>>
      BY <1>0, <2>6, JobDomains
    <3>2. Len(chan[k]) <= ChannelCapacity /\ 0 <= ChannelCapacity
      BY <1>0, IngestAssumption DEF IngestTypeOK, IngestAssumption
    <3>3. Len(<<>>) = 0
      OBVIOUS
    <3> QED
      BY <3>1, <3>2, <3>3
  <2> QED
    BY <1>0, <2>1, <2>2, <2>3, <2>4, <2>5, <2>7, <2>8, Zenon DEF IngestTypeOK, StartOrReturn, dbVars
<1>6. ASSUME NEW k \in Job, k # j PROVE JobInv(k)'
  <2>1. SameJob(k)
    BY <1>0, <1>6, JobDomains
    DEF SameJob, StartOrReturn, FailEarly, ReturnEarly, SpawnWriter, dbVars, wrVars
  <2>2. OnlyAdds
    BY <1>1, <1>4 DEF OnlyAdds
  <2> QED
    BY <1>0, <1>5, <2>1, <2>2, JobFrame
<1>7. JobInv(j)'
  <2>1. \A s : DecodeBlock(s)' = DecodeBlock(s)
    BY DEF DecodeBlock, Decodes
  <2>2. \A s : Covered(s) => Covered(s)'
    BY <1>1, CoveredMonotone, Zenon
  <2>3. RangeInv(j)'
    BY <1>0, <1>1, <1>3, <1>4, JobTypes DEF JobInv, RangeInv, Running
  <2>4. QueueInv(j)'
    BY <1>1, <1>3 DEF QueueInv, Running, Receiving
  <2>5. Backed(j)'
    BY <1>0, <1>1, <2>1 DEF JobInv, AccountInv, Backed
  <2>6. OkCovered(j)'
    BY <1>3, <1>4 DEF OkCovered
  <2>7. ASSUME NEW s \in Slot, j = "backfill", from'[j] <= s, s <= checkpoint[j]
        PROVE  Covered(s)
    <3>1. s \in Nat /\ checkpoint[j] \in Nat /\ checkpoint[j] < lo
      BY <1>0, <1>4, <2>7, JobTypes DEF Slot
    <3>2. from'[j] = from[j]
      BY <1>3, <2>7, <3>1
    <3> QED
      BY <1>0, <2>7, <3>2 DEF JobInv, AccountInv
  <2>8. \A s \in Slot : ~(from'[j] <= s /\ s < at'[j]) \/ wr'[j] = "off"
    BY <1>3 DEF Slot
  <2>9. AccountInv(j)'
    BY <1>1, <1>3, <2>2, <2>5, <2>6, <2>7, <2>8 DEF AccountInv, Receiving
  <2> QED
    BY <2>3, <2>4, <2>9 DEF JobInv
<1> QED
  BY <1>5, <1>6, <1>7 DEF IngestInv

\* run_backfill asked for a range that ends at or before the finalized tip.
LEMMA RunBackfillInv ==
    ASSUME IngestInv, NEW start \in Nat, 1 <= start, NEW end \in 0..finalized,
           RunBackfill(start, end)
    PROVE  IngestInv'
<1>0. IngestTypeOK /\ "backfill" \in Job
  BY DEF IngestInv, Job
<1>1. /\ EffectiveStart(start) \in Nat /\ 1 <= EffectiveStart(start)
      /\ checkpoint["backfill"] < EffectiveStart(start)
  <2>1. checkpoint["backfill"] \in Nat
    BY <1>0, JobTypes
  <2> QED
    BY <2>1 DEF EffectiveStart, Larger
<1>2. finalized \in Nat /\ finalized <= MaxSlot /\ MaxSlot \in Nat
  BY <1>0, JobTypes
<1>3. StartOrReturn("backfill", EffectiveStart(start), end)
  BY DEF RunBackfill, StartOrReturn
<1>4. status' \in Status /\ lastProcessed' \in 0..MaxSlot
  <2>1. CASE UNCHANGED rowVars
    BY <1>0, <2>1 DEF IngestTypeOK, rowVars
  <2>2. CASE EffectiveStart(start) <= end /\
             TryUpdateIndexerState("backfilling", EffectiveStart(start))
    <3>1. EffectiveStart(start) \in 0..MaxSlot /\ "backfilling" \in Status
      BY <1>1, <1>2, <2>2 DEF Status
    <3> QED
      BY <1>0, <2>2, <3>1, UpdateTypes
  <2> QED
    BY <2>1, <2>2 DEF RunBackfill, ReturnEarly, TryUpdateIndexerState
<1> QED
  BY <1>0, <1>1, <1>3, <1>4, StartInv

\* mini_backfill after a disconnect at any slot.
LEMMA MiniBackfillInv ==
    ASSUME IngestInv, NEW d \in Nat, MiniBackfill(d)
    PROVE  IngestInv'
<1>0. IngestTypeOK /\ "catchup" \in Job
  BY DEF IngestInv, Job
<1>1. finalized \in Nat /\ finalized \in 0..finalized /\ d + 1 \in Nat /\ 1 <= d + 1
  BY <1>0, JobTypes
<1>2. StartOrReturn("catchup", d + 1, finalized)
  BY DEF MiniBackfill, StartOrReturn
<1>3. status' \in Status /\ lastProcessed' \in 0..MaxSlot
  BY <1>0 DEF IngestTypeOK, MiniBackfill, ReturnEarly, rowVars
<1> QED
  BY <1>0, <1>1, <1>2, <1>3, StartInv


-----------------------------------------------------------------------------
(* The environment and the initial states.                                 *)

\* A step that leaves both jobs alone, the chain, the signal and the rows of the
\* realtime stream included, preserves the invariant.
LEMMA FrameInv ==
    ASSUME IngestInv, IngestTypeOK', \A k \in Job : SameJob(k), OnlyAdds
    PROVE  IngestInv'
BY JobFrame DEF IngestInv

\* A further finalized slot only widens what a job may be asked for.
LEMMA FinalizeInv ==
    ASSUME IngestInv, Finalize
    PROVE  IngestInv'
<1>0. IngestTypeOK
  BY DEF IngestInv
<1>1. finalized \in Nat /\ MaxSlot \in Nat /\ finalized' \in 0..MaxSlot /\ finalized <= finalized'
  BY <1>0, IngestAssumption DEF IngestTypeOK, Finalize, IngestAssumption
<1>2. IngestTypeOK'
  BY <1>0, <1>1, Zenon DEF IngestTypeOK, Finalize, dbVars, rowVars, prodVars, wrVars
<1>3. (\A k \in Job : SameJob(k)) /\ OnlyAdds
  BY <1>1 DEF SameJob, OnlyAdds, Finalize, dbVars, prodVars, wrVars
<1> QED
  BY <1>2, <1>3, FrameInv

\* A cancellation weakens what a job has to account for.
LEMMA CancelInv ==
    ASSUME IngestInv, NEW j \in Job, Cancel(j)
    PROVE  IngestInv'
<1>0. IngestTypeOK
  BY DEF IngestInv
<1>1. cancelled' \in [Job -> BOOLEAN] /\ \A k \in Job : cancelled[k] => cancelled'[k]
  BY <1>0 DEF IngestTypeOK, Cancel
<1>2. IngestTypeOK'
  BY <1>0, <1>1, Zenon DEF IngestTypeOK, Cancel, dbVars, rowVars, prodVars, wrVars
<1>3. finalized \in Nat
  BY <1>0, IngestAssumption DEF IngestTypeOK, IngestAssumption
<1>4. (\A k \in Job : SameJob(k)) /\ OnlyAdds
  <2>1. \A k \in Job : SameJob(k)
    BY <1>1 DEF SameJob, Cancel, dbVars, prodVars, wrVars
  <2>2. OnlyAdds
    BY <1>3 DEF OnlyAdds, Cancel, dbVars, prodVars
  <2> QED
    BY <2>1, <2>2, Zenon
<1> QED
  BY <1>2, <1>4, FrameInv

\* The crash of the process: nothing of a job is left but its checkpoint.
LEMMA LoseMemoryInv ==
    ASSUME IngestInv, LoseMemory, finalized' = finalized
    PROVE  IngestInv'
<1>0. IngestTypeOK /\ \A k \in Job : JobInv(k)
  BY DEF IngestInv
<1>1. MaxSlot \in Nat /\ 0 \in 0..MaxSlot /\ ChannelCapacity \in Nat
  BY IngestAssumption DEF IngestAssumption
<1>2. IngestTypeOK'
  <2>1. /\ pc' \in [Job -> PC] /\ wr' \in [Job -> WR]
        /\ failed' \in [Job -> BOOLEAN] /\ cancelled' \in [Job -> BOOLEAN]
    BY DEF LoseMemory, PC, WR
  <2>2. /\ to' \in [Job -> 0..MaxSlot] /\ chunkEnd' \in [Job -> 0..MaxSlot]
        /\ held' \in [Job -> 0..MaxSlot]
    BY <1>1 DEF LoseMemory
  <2>3. written' \in [Job -> Nat] /\ at' \in [Job -> Nat]
    BY DEF LoseMemory
  <2>4. from' \in [Job -> Nat]
    BY <1>0, Zenon DEF LoseMemory, IngestTypeOK
  <2>5. chan' \in [Job -> Seq(Slot)]
    <3>1. <<>> \in Seq(Slot)
      OBVIOUS
    <3> QED
      BY <3>1 DEF LoseMemory
  <2>6. \A k \in Job : Len(chan'[k]) <= ChannelCapacity
    <3>1. Len(<<>>) = 0
      OBVIOUS
    <3> QED
      BY <1>1, <3>1 DEF LoseMemory
  <2> QED
    BY <1>0, <2>1, <2>2, <2>3, <2>4, <2>5, <2>6 DEF LoseMemory, IngestTypeOK, dbVars, rowVars
<1>3. ASSUME NEW j \in Job PROVE JobInv(j)'
  <2>1. /\ pc'[j] = "off" /\ wr'[j] = "off" /\ held'[j] = 0 /\ chan'[j] = <<>>
        /\ to'[j] = 0 /\ at'[j] = 1 /\ chunkEnd'[j] = 0
        /\ j = "backfill" => from'[j] = from[j]
        /\ j # "backfill" => from'[j] = 1
        /\ checkpoint' = checkpoint /\ stored' = stored
        /\ unfetched' = unfetched /\ undrained' = undrained
    BY <1>0, <1>3, Zenon DEF LoseMemory, IngestTypeOK, dbVars, Job
  <2>2. \A s : DecodeBlock(s)' = DecodeBlock(s)
    BY DEF DecodeBlock, Decodes
  <2>3. \A s : Covered(s) => Covered(s)'
    BY <2>1, CoveredMonotone
  <2>4. RangeInv(j)'
    <3>1. RangeInv(j)
      BY <1>0, Zenon DEF JobInv
    <3>2. 1 <= from[j]
      BY <3>1, Zenon DEF RangeInv
    <3>3. 1 <= from'[j]
      BY <2>1, <3>2
    <3>4. finalized' = finalized /\ finalized \in Nat
      BY <1>0, JobTypes, Zenon DEF LoseMemory
    <3> QED
      BY <2>1, <3>3, <3>4 DEF RangeInv, Running
  <2>5. QueueInv(j)'
    <3>1. ~Running(j)'
      BY <2>1, Zenon DEF Running
    <3> QED
      BY <2>1, <3>1, EmptyQueue
  <2>6. Backed(j)' /\ OkCovered(j)'
    BY <1>0, <2>1, <2>2, Zenon DEF JobInv, AccountInv, Backed, OkCovered
  <2>7. AccountInv(j)'
    BY <1>0, <2>1, <2>3, <2>6 DEF JobInv, AccountInv, Receiving
  <2> QED
    BY <2>4, <2>5, <2>7 DEF JobInv
<1> QED
  BY <1>2, <1>3 DEF IngestInv

\* No job has been started and nothing written at first.
LEMMA IngestInitInv == IngestInit => IngestInv
<1> SUFFICES ASSUME IngestInit PROVE IngestInv
  OBVIOUS
<1>1. MaxSlot \in Nat /\ 0 \in 0..MaxSlot /\ ChannelCapacity \in Nat
  BY IngestAssumption DEF IngestAssumption
<1>2. Len(<<>>) = 0 /\ <<>> \in Seq(Slot)
  OBVIOUS
<1>3. IngestTypeOK
  BY <1>1, <1>2 DEF IngestInit, IngestTypeOK, PC, WR, Status
<1>4. ASSUME NEW j \in Job PROVE JobInv(j)
  <2>1. /\ pc[j] = "off" /\ wr[j] = "off" /\ held[j] = 0 /\ chan[j] = <<>>
        /\ to[j] = 0 /\ at[j] = 1 /\ from[j] = 1 /\ checkpoint[j] = 0
    BY DEF IngestInit, Job, Stream
  <2>2. RangeInv(j)
    BY <1>1, <2>1 DEF RangeInv, Running, IngestInit
  <2>3. QueueInv(j)
    BY <1>2, <2>1 DEF QueueInv, Running, Receiving
  <2>4. Backed(j) /\ OkCovered(j)
    BY <2>1 DEF Backed, OkCovered
  <2>5. AccountInv(j)
    BY <1>1, <2>1, <2>4 DEF AccountInv, Receiving, Slot
  <2> QED
    BY <2>2, <2>3, <2>5 DEF JobInv
<1> QED
  BY <1>3, <1>4 DEF IngestInv

-----------------------------------------------------------------------------
(* The theorems.                                                           *)

\* Every step of a job, producer or writer, preserves the invariant.
LEMMA JobStepInv ==
    ASSUME IngestInv, NEW j \in Job, JobStep(j)
    PROVE  IngestInv'
<1>1. CASE ProducerStep(j)
  BY <1>1, NextChunkInv, FetchBlockInv, SendBatchInv, ChunkHeartbeatInv, JoinWriterInv
  DEF ProducerStep
<1>2. CASE WriterStep(j)
  BY <1>2, TakeBatchInv, LeaveLoopInv, WriteBatchInv, FlushCountersInv DEF WriterStep
<1> QED
  BY <1>1, <1>2 DEF JobStep

\* The invariant is inductive: no interleaving of two jobs, a cancellation, a
\* failed write or a crash leaves it.
THEOREM IngestInvariant == IngestSpec => []IngestInv
<1>1. IngestInit => IngestInv
  BY IngestInitInv
<1>2. IngestInv /\ [IngestNext]_ingestVars => IngestInv'
  <2> SUFFICES ASSUME IngestInv, [IngestNext]_ingestVars
               PROVE  IngestInv'
    OBVIOUS
  <2>0. finalized \in Nat
    BY IngestAssumption DEF IngestInv, IngestTypeOK, IngestAssumption
  <2>1. ASSUME NEW j \in Job, JobStep(j) PROVE IngestInv'
    BY <2>1, JobStepInv
  <2>2. ASSUME NEW j \in Job, Cancel(j) PROVE IngestInv'
    BY <2>2, CancelInv
  <2>3. ASSUME NEW lo \in 1..finalized, RunBackfill(lo, finalized) PROVE IngestInv'
    <3>1. lo \in Nat /\ 1 <= lo /\ finalized \in 0..finalized
      BY <2>0
    <3> QED
      BY <2>3, <3>1, RunBackfillInv
  <2>4. ASSUME NEW s \in 1..finalized, MiniBackfill(s) PROVE IngestInv'
    <3>1. s \in Nat
      BY <2>0
    <3> QED
      BY <2>4, <3>1, MiniBackfillInv
  <2>5. CASE Finalize
    BY <2>5, FinalizeInv
  <2>6. CASE Crash
    BY <2>6, LoseMemoryInv DEF Crash
  <2>7. CASE UNCHANGED ingestVars
    <3>1. IngestTypeOK'
      BY <2>7, SMTT(30) DEF IngestInv, IngestTypeOK, ingestVars, dbVars, rowVars, prodVars, wrVars
    <3>2. \A k \in Job : SameJob(k)
      BY <2>7, Zenon DEF SameJob, ingestVars, dbVars, prodVars, wrVars
    <3>3. OnlyAdds
      <4>1. /\ finalized' = finalized /\ stored' = stored
            /\ unfetched' = unfetched /\ undrained' = undrained
        BY <2>7 DEF ingestVars, dbVars
      <4> QED
        BY <2>0, <4>1 DEF OnlyAdds
    <3> QED
      BY <3>1, <3>2, <3>3, FrameInv, Zenon
  <2> QED
    BY <2>1, <2>2, <2>3, <2>4, <2>5, <2>6, <2>7 DEF IngestNext
<1> QED
  BY <1>1, <1>2, PTL DEF IngestSpec

\* The channel never holds more than its capacity, whatever the interleaving.
THEOREM IngestTypes == IngestSpec => []IngestTypeOK
<1>1. IngestInv => IngestTypeOK
  BY Zenon DEF IngestInv
<1> QED
  BY <1>1, IngestInvariant, PTL

\* A checkpoint written by write_block is backed by the rows of its block.
THEOREM CheckpointsAreBacked == IngestSpec => []CheckpointBacked
<1>1. IngestInv => CheckpointBacked
  BY Zenon DEF IngestInv, JobInv, AccountInv, CheckpointBacked
<1> QED
  BY <1>1, IngestInvariant, PTL

\* Below the backfill's checkpoint every slot is accounted for, also across
\* crashes, for every chunk size and channel capacity.
THEOREM BackfillPrefixIsIndexed == IngestSpec => []BackfillPrefixIndexed
<1>1. IngestInv => BackfillPrefixIndexed
  <2>1. "backfill" \in Job
    BY Zenon DEF Job
  <2> QED
    BY <2>1 DEF IngestInv, JobInv, AccountInv, BackfillPrefixIndexed
<1> QED
  BY <1>1, IngestInvariant, PTL

\* A job that returns Ok without having been cancelled has covered its range.
THEOREM OkIsCovered == IngestSpec => []OkMeansCovered
<1>1. IngestInv => OkMeansCovered
  BY DEF IngestInv, JobInv, AccountInv, OkMeansCovered
<1> QED
  BY <1>1, IngestInvariant, PTL

\* A write of job j moves its own checkpoint, the backfill's only forward.
LEMMA WriteAdvances ==
    ASSUME IngestInv, NEW j \in Job, CommitBatch(j) \/ FailBatch(j) \/ FailDrainBatch(j)
    PROVE  checkpoint'["backfill"] >= checkpoint["backfill"]
<1>0. IngestTypeOK /\ JobInv(j) /\ "backfill" \in Job /\ "backfill" \in Stream /\ j \in Stream
  BY Zenon DEF IngestInv, Job, Stream
<1>1. checkpoint["backfill"] \in Nat /\ held[j] \in Nat
  BY <1>0, JobTypes, Zenon
<1>2. \/ checkpoint' = checkpoint
      \/ checkpoint' = [checkpoint EXCEPT ![j] = held[j]]
  BY Zenon DEF CommitBatch, FailBatch, FailDrainBatch, WriteBlock,
         UpdateCheckpoint, FailedWrite, dbVars
<1>3. j = "backfill" => checkpoint["backfill"] < held[j]
  BY <1>0 DEF JobInv, QueueInv, Ready, CommitBatch, FailBatch, FailDrainBatch
<1>4. \/ checkpoint'["backfill"] = checkpoint["backfill"]
      \/ j = "backfill" /\ checkpoint'["backfill"] = held[j]
  BY <1>0, <1>2, JobDomains
<1> QED
  BY <1>1, <1>3, <1>4

\* write_block overwrites the checkpoint without comparing, and still the
\* backfill's never moves back: batches are written in slot order, above it.
THEOREM BackfillAdvances == IngestSpec => BackfillCheckpointAdvances
<1>1. IngestInv /\ [IngestNext]_ingestVars
          => [checkpoint'["backfill"] >= checkpoint["backfill"]]_ingestVars
  <2> SUFFICES ASSUME IngestInv, IngestNext
               PROVE  checkpoint'["backfill"] >= checkpoint["backfill"]
    OBVIOUS
  <2>1. checkpoint["backfill"] \in Nat
    BY JobTypes DEF IngestInv, Job
  <2>2. ASSUME NEW j \in Job, CommitBatch(j) \/ FailBatch(j) \/ FailDrainBatch(j)
        PROVE  checkpoint'["backfill"] >= checkpoint["backfill"]
    BY <2>2, WriteAdvances
  <2>3. ASSUME NEW j \in Job, ProducerStep(j) PROVE UNCHANGED checkpoint
    BY <2>3, Zenon DEF ProducerStep, NextChunk, FetchBlock, SendBatch, ChunkHeartbeat, JoinWriter, dbVars
  <2>4. ASSUME NEW j \in Job, TakeBatch(j) \/ ChannelClosed(j) \/ StartDrain(j)
                              \/ EndDrain(j) \/ FlushCounters(j) \/ Cancel(j)
        PROVE  UNCHANGED checkpoint
    BY <2>4 DEF TakeBatch, ChannelClosed, StartDrain, EndDrain, FlushCounters, Cancel, dbVars
  <2>5. ASSUME NEW a, NEW b, RunBackfill(a, b) PROVE UNCHANGED checkpoint
    BY <2>5 DEF RunBackfill, dbVars
  <2>6. ASSUME NEW s, MiniBackfill(s) PROVE UNCHANGED checkpoint
    BY <2>6 DEF MiniBackfill, dbVars
  <2>7. Finalize \/ Crash => UNCHANGED checkpoint
    BY DEF Finalize, Crash, LoseMemory, dbVars
  <2>8. UNCHANGED checkpoint \/ \E j \in Job : CommitBatch(j) \/ FailBatch(j) \/ FailDrainBatch(j)
    BY <2>3, <2>4, <2>5, <2>6, <2>7 DEF IngestNext, JobStep, WriterStep
  <2> QED
    BY <2>1, <2>2, <2>8
<1> QED
  BY <1>1, IngestInvariant, PTL DEF IngestSpec, BackfillCheckpointAdvances

-----------------------------------------------------------------------------
(* The counter and the table.                                              *)

\* total_instructions with what the writers have still to add.
Counted == total + written["backfill"] + written["catchup"]

\* A step that deletes no row and counts none.
LEMMA CountFrame ==
    ASSUME IngestTypeOK', CountedRowsExist, IngestTypeOK, stored \subseteq stored',
           Counted' <= Counted
    PROVE  CountedRowsExist'
<1>1. IsFiniteSet(stored) /\ IsFiniteSet(stored')
  BY IngestAssumption, FS_Subset DEF IngestAssumption, IngestTypeOK
<1>2. Cardinality(stored) <= Cardinality(stored')
  BY <1>1, FS_Subset
<1>3. Cardinality(stored) \in Nat /\ Cardinality(stored') \in Nat
  BY <1>1, FS_CardinalityType
<1>4. Counted \in Nat /\ Counted' \in Nat
  <2>1. total \in Nat /\ written["backfill"] \in Nat /\ written["catchup"] \in Nat
    BY DEF IngestTypeOK, Job
  <2>2. total' \in Nat /\ written'["backfill"] \in Nat /\ written'["catchup"] \in Nat
    BY DEF IngestTypeOK, Job
  <2> QED
    BY <2>1, <2>2 DEF Counted
<1> QED
  BY <1>2, <1>3, <1>4 DEF CountedRowsExist, Counted

\* A committed block adds as many rows as rows_affected says.
LEMMA CommitCounts ==
    ASSUME IngestTypeOK, CountedRowsExist, NEW j \in Job, CommitBatch(j)
    PROVE  CountedRowsExist'
<1>1. PICK new : new = DecodeBlock(held[j]) \ stored
  BY Zenon
<1>2. IsFiniteSet(stored) /\ IsFiniteSet(new) /\ stored \intersect new = {}
  <2>1. new \subseteq Tx /\ stored \subseteq Tx
    BY <1>1, DecodeBlockType DEF IngestTypeOK
  <2> QED
    BY <1>1, <2>1, IngestAssumption, FS_Subset DEF IngestAssumption
<1>3. stored' = stored \union new
  BY <1>1 DEF CommitBatch, WriteBlock
<1>4. Cardinality(stored') = Cardinality(stored) + Cardinality(new)
  <2>1. Cardinality(stored) \in Nat /\ Cardinality(new) \in Nat
    BY <1>2, FS_CardinalityType
  <2>2. Cardinality(stored') = Cardinality(stored) + Cardinality(new) - Cardinality({})
    BY <1>2, <1>3, FS_Union
  <2> QED
    BY <2>1, <2>2, FS_EmptySet
<1>5. written' = [written EXCEPT ![j] = @ + Cardinality(new)] /\ total' = total
  BY <1>1 DEF CommitBatch, NewRows
<1>6. /\ Cardinality(stored) \in Nat /\ Cardinality(new) \in Nat /\ total \in Nat
      /\ written["backfill"] \in Nat /\ written["catchup"] \in Nat
      /\ DOMAIN written = {"backfill", "catchup"}
  BY <1>2, FS_CardinalityType DEF IngestTypeOK, Job
<1>7. Counted' = Counted + Cardinality(new)
  BY <1>5, <1>6 DEF Counted, Job
<1> QED
  BY <1>4, <1>6, <1>7 DEF CountedRowsExist, Counted

\* Every step of a job keeps what is counted within the rows of the table.
LEMMA JobStepCounts ==
    ASSUME IngestTypeOK, IngestTypeOK', CountedRowsExist, NEW j \in Job, JobStep(j)
    PROVE  CountedRowsExist'
<1>0. /\ total \in Nat /\ written["backfill"] \in Nat /\ written["catchup"] \in Nat
      /\ DOMAIN written = {"backfill", "catchup"} /\ j \in {"backfill", "catchup"}
  BY DEF IngestTypeOK, Job
<1>1. CASE CommitBatch(j)
  BY <1>1, CommitCounts
<1>2. CASE FailBatch(j)
  <2>1. stored \subseteq stored'
    BY <1>2 DEF FailBatch, FailedWrite, WriteBlock, dbVars
  <2>2. total' = total /\ written' = [written EXCEPT ![j] = 0]
    BY <1>2 DEF FailBatch
  <2>3. Counted' <= Counted
    BY <1>0, <2>2 DEF Counted
  <2> QED
    BY <2>1, <2>3, CountFrame
<1>3. CASE FailDrainBatch(j)
  <2>1. stored \subseteq stored'
    BY <1>3 DEF FailDrainBatch, FailedWrite, WriteBlock, dbVars
  <2>2. Counted' = Counted
    BY <1>3 DEF FailDrainBatch, Counted
  <2> QED
    BY <1>0, <2>1, <2>2, CountFrame DEF Counted
<1>4. CASE FlushCounters(j)
  <2>1. stored' = stored
    BY <1>4 DEF FlushCounters, dbVars
  <2>2. total' \in {total, total + written[j]} /\ written' = [written EXCEPT ![j] = 0]
    BY <1>4 DEF FlushCounters, IncrementIndexerCounters
  <2>3. Counted' <= Counted
    BY <1>0, <2>2 DEF Counted
  <2> QED
    BY <2>1, <2>3, CountFrame
<1>5. CASE ProducerStep(j) \/ TakeBatch(j) \/ ChannelClosed(j) \/ StartDrain(j) \/ EndDrain(j)
  <2>1. stored' = stored /\ total' = total /\ written' = written
    BY <1>5, Zenon DEF ProducerStep, NextChunk, FetchBlock, SendBatch, ChunkHeartbeat, JoinWriter,
                TakeBatch, ChannelClosed, StartDrain, EndDrain, dbVars, wrVars
  <2> QED
    BY <2>1 DEF CountedRowsExist
<1> QED
  BY <1>1, <1>2, <1>3, <1>4, <1>5, Zenon DEF JobStep, WriterStep

\* A new writer task starts counting from zero.
LEMMA StartCounts ==
    ASSUME IngestTypeOK, IngestTypeOK', CountedRowsExist,
           \/ \E lo, hi : RunBackfill(lo, hi)
           \/ \E s : MiniBackfill(s)
    PROVE  CountedRowsExist'
<1>1. stored' = stored /\ total' = total
  BY Zenon DEF RunBackfill, MiniBackfill, dbVars
<1>2. \/ written' = written
      \/ \E j \in Job : written' = [written EXCEPT ![j] = 0]
  BY DEF RunBackfill, MiniBackfill, SpawnWriter, ReturnEarly, FailEarly, wrVars, Job
<1>3. /\ total \in Nat /\ written["backfill"] \in Nat /\ written["catchup"] \in Nat
      /\ DOMAIN written = {"backfill", "catchup"}
  BY DEF IngestTypeOK, Job
<1>4. Counted' <= Counted
  BY <1>1, <1>2, <1>3 DEF Counted, Job
<1> QED
  BY <1>1, <1>4, CountFrame

\* What a crash loses was not yet counted.
LEMMA LoseMemoryCounts ==
    ASSUME IngestTypeOK, IngestTypeOK', CountedRowsExist, LoseMemory
    PROVE  CountedRowsExist'
<1>1. /\ stored' = stored /\ total' = total
      /\ written'["backfill"] = 0 /\ written'["catchup"] = 0
  BY DEF LoseMemory, dbVars, Job
<1>2. total \in Nat /\ written["backfill"] \in Nat /\ written["catchup"] \in Nat
  BY DEF IngestTypeOK, Job
<1>3. Counted' <= Counted
  BY <1>1, <1>2 DEF Counted
<1> QED
  BY <1>1, <1>3, CountFrame

\* No row of indexer_state ever claims more instructions than the table holds
\* (CountedRowsExist), for every chain and every interleaving of the two writers.
THEOREM CountersAreBacked == IngestSpec => []CountedRowsExist
<1>1. IngestInit => CountedRowsExist
  BY FS_EmptySet DEF IngestInit, CountedRowsExist, Job
<1>2. /\ CountedRowsExist /\ IngestTypeOK /\ IngestTypeOK'
      /\ [IngestNext]_ingestVars
      => CountedRowsExist'
  <2> SUFFICES ASSUME CountedRowsExist, IngestTypeOK, IngestTypeOK', [IngestNext]_ingestVars
               PROVE  CountedRowsExist'
    OBVIOUS
  <2>1. CASE \E j \in Job : JobStep(j)
    BY <2>1, JobStepCounts
  <2>2. CASE (\E lo \in 1..finalized : RunBackfill(lo, finalized))
             \/ \E s \in 1..finalized : MiniBackfill(s)
    BY <2>2, StartCounts
  <2>3. CASE Crash
    BY <2>3, LoseMemoryCounts DEF Crash
  <2>4. CASE (\E j \in Job : Cancel(j)) \/ Finalize \/ UNCHANGED ingestVars
    BY <2>4 DEF CountedRowsExist, Cancel, Finalize, ingestVars, dbVars, wrVars
  <2> QED
    BY <2>1, <2>2, <2>3, <2>4 DEF IngestNext
<1> QED
  BY <1>1, <1>2, IngestTypes, PTL DEF IngestSpec
=============================================================================
