--------------------------- MODULE PipelineProofs ---------------------------
(***************************************************************************)
(* Proofs about Pipeline, for every chain, configuration and number of     *)
(* disconnects and restarts: the index holds finalized transactions only,  *)
(* restarts leave no hole, the hand-over from the backfill to the stream   *)
(* is complete, a clean exit means a shutdown and the cursor never moves   *)
(* back.  The steps of the two jobs are those of IngestProofs.             *)
(***************************************************************************)
EXTENDS Pipeline, IngestProofs

-----------------------------------------------------------------------------
(* The inductive invariant.                                                *)

\* What the backfill is asked for lies between slot 1 and the finalized tip, and
\* is what the job then works on.
PlanInv ==
    /\ 1 <= plan.lo /\ plan.hi <= finalized
    /\ run \in {"backfill", "tail", "tailing", "join"} /\ pc["backfill"] # "err" =>
        to["backfill"] = plan.hi

\* One notification is processed at a time, and a transaction that getTransaction
\* found is finalized.
EventInv ==
    /\ \A t, u \in event : t = u
    /\ st \in {"write", "beat"} => \A t \in event : Visible(t)

\* The stream ends well only when cancelled, and the child token is cancelled
\* without the other only by a backfill that failed or a run that has ended.
TokenInv ==
    /\ CleanExitMeansShutdown
    /\ st = "ok" => StreamCancelled
    /\ StreamCancelled => Shutdown \/ run \in {"abort", "err"}

\* Nothing runs before run has decided what to run.
IdleInv ==
    /\ run \in {"init", "start", "stream"} => pc["backfill"] = "off"
    /\ run = "init" => st = "off" /\ pc["catchup"] = "off"
    /\ run = "init" /\ restarts = 0 => \A s \in Stream : checkpoint[s] = 0

\* Without chunks (backfill_chunk_size 0) a job never has anything to write.
NoChunkInv ==
    ChunkSize = 0 =>
        \A j \in Job :
            /\ pc[j] \notin {"slot", "send", "beat"}
            /\ held[j] = 0 /\ chan[j] = <<>> /\ checkpoint[j] = 0

\* No restart has resumed after a checkpoint of the stream or of a catch-up.
Unskipped ==
    /\ origin # 0
    /\ restarts = 0 \/ (checkpoint["realtime"] = 0 /\ checkpoint["catchup"] = 0)

\* Where the backfill begins: at start_slot, or after its own checkpoint.
OriginInv ==
    /\ origin = 0 => /\ from["backfill"] = 1 /\ checkpoint["backfill"] = 0
                     /\ run \in {"init", "stream", "ok", "err"} /\ pc["backfill"] = "off"
    /\ Unskipped => origin = StartSlot
    /\ Unskipped /\ run = "start" =>
        plan.lo = IF checkpoint["backfill"] = 0 THEN origin ELSE checkpoint["backfill"] + 1

\* Everything before the range the backfill is on is accounted for, and so is the
\* first range when the tail is about to begin, even if it is then cancelled.
HoleInv ==
    ChunkSize > 0 =>
        /\ Unskipped =>
            \A s \in Slot : origin <= s /\ s < from["backfill"] => Covered(s)
        /\ run = "tail" => \A s \in from["backfill"]..plan.hi : Covered(s)

PipelineInv ==
    /\ TypeOK /\ IngestInv /\ IndexIsFinal
    /\ PlanInv /\ EventInv /\ TokenInv /\ IdleInv /\ NoChunkInv /\ OriginInv /\ HoleInv

-----------------------------------------------------------------------------
(* Types.                                                                  *)

OrchTypes ==
    /\ confirmed \in finalized..MaxSlot
    /\ run \in Run
    /\ plan \in [lo : Nat, hi : 0..MaxSlot]
    /\ origin \in Nat

StreamTypes ==
    /\ st \in St
    /\ wire \subseteq Tx /\ event \subseteq Tx
    /\ lastSeen \in 0..MaxSlot /\ joinedAt \in 0..MaxSlot /\ disconnectSlot \in 0..MaxSlot
    /\ fails \in 0..MaxFetchFailures
    /\ disconnects \in 0..MaxDisconnects /\ restarts \in 0..MaxRestarts

\* TypeOK, cut into the parts that different steps change.
LEMMA TypeParts == TypeOK <=> IngestTypeOK /\ OrchTypes /\ StreamTypes
BY DEF TypeOK, OrchTypes, StreamTypes

\* The slots and tips are numbers up to the end of the chain.
LEMMA SlotTypes ==
    ASSUME TypeOK
    PROVE  /\ MaxSlot \in Nat /\ finalized \in Nat /\ finalized <= MaxSlot
           /\ confirmed \in Nat /\ finalized <= confirmed /\ confirmed <= MaxSlot
           /\ \A s \in Stream : checkpoint[s] \in Nat /\ checkpoint[s] <= MaxSlot
           /\ \A t \in Tx : TxSlot[t] \in Nat /\ 1 <= TxSlot[t] /\ TxSlot[t] <= MaxSlot
<1>1. MaxSlot \in Nat /\ TxSlot \in [Tx -> Slot]
  BY IngestAssumption DEF IngestAssumption
<1>2. \A t \in Tx : TxSlot[t] \in Nat /\ 1 <= TxSlot[t] /\ TxSlot[t] <= MaxSlot
  BY <1>1 DEF Slot
<1>3. finalized \in 0..MaxSlot /\ confirmed \in finalized..MaxSlot
  BY DEF TypeOK, IngestTypeOK
<1>4. \A s \in Stream : checkpoint[s] \in 0..MaxSlot
  BY DEF TypeOK, IngestTypeOK
<1> QED
  BY <1>1, <1>2, <1>3, <1>4

\* What the invariant says of the types, one part at a time.
LEMMA InvTypes ==
    ASSUME PipelineInv
    PROVE  /\ TypeOK /\ IngestTypeOK /\ IngestInv
           /\ stored \subseteq Tx /\ event \subseteq Tx
           /\ checkpoint \in [Stream -> 0..MaxSlot] /\ cancelled \in [Job -> BOOLEAN]
           /\ run \in Run /\ st \in St
           /\ MaxSlot \in Nat /\ finalized \in Nat /\ finalized <= MaxSlot
           /\ plan.hi \in Nat /\ plan.hi <= finalized /\ origin \in Nat /\ restarts \in Nat
<1>1. TypeOK /\ IngestInv /\ PlanInv
  BY Zenon DEF PipelineInv
<1>2. IngestTypeOK /\ OrchTypes /\ StreamTypes
  BY <1>1, TypeParts
<1>3. /\ stored \subseteq Tx /\ checkpoint \in [Stream -> 0..MaxSlot]
      /\ cancelled \in [Job -> BOOLEAN]
  BY <1>2, Zenon DEF IngestTypeOK
<1>4. run \in Run /\ plan \in [lo : Nat, hi : 0..MaxSlot] /\ origin \in Nat
  BY <1>2 DEF OrchTypes
<1>5. st \in St /\ event \subseteq Tx /\ restarts \in 0..MaxRestarts
  BY <1>2, Zenon DEF StreamTypes
<1>6. MaxSlot \in Nat /\ finalized \in Nat /\ finalized <= MaxSlot
  BY <1>1, SlotTypes
<1>7. plan.hi \in 0..MaxSlot /\ plan.hi <= finalized
  BY <1>1, <1>4 DEF PlanInv
<1> QED
  BY <1>1, <1>2, <1>3, <1>4, <1>5, <1>6, <1>7

\* update_indexer_state keeps the types of the row and never lowers its slot.
LEMMA UpdateAdvances ==
    ASSUME TypeOK, NEW s \in Status, NEW slot \in 0..MaxSlot, TryUpdateIndexerState(s, slot)
    PROVE  /\ status' \in Status /\ lastProcessed' \in 0..MaxSlot
           /\ lastProcessed' >= lastProcessed
<1>1. status' \in Status /\ lastProcessed' \in 0..MaxSlot
  BY UpdateTypes DEF TypeOK
<1>2. lastProcessed \in Nat /\ slot \in Nat
  BY SlotTypes DEF TypeOK, IngestTypeOK
<1>3. lastProcessed' >= lastProcessed
  BY <1>2 DEF TryUpdateIndexerState, UpdateIndexerState, Larger, rowVars
<1> QED
  BY <1>1, <1>3

\* The row of indexer_state is written by every part of the pipeline, but its slot
\* only moves forward.
RowAdvances ==
    status' \in Status /\ lastProcessed' \in 0..MaxSlot /\ lastProcessed' >= lastProcessed

\* A step that leaves the row alone.
LEMMA RowStays ==
    ASSUME TypeOK, UNCHANGED rowVars
    PROVE  RowAdvances
<1>1. lastProcessed \in 0..MaxSlot /\ MaxSlot \in Nat /\ status \in Status
  BY SlotTypes, Zenon DEF TypeOK, IngestTypeOK
<1> QED
  BY <1>1 DEF RowAdvances, rowVars

\* A fatal error of the stream records itself in the row, or not.
LEMMA FatalRow ==
    ASSUME TypeOK, FatalStream
    PROVE  RowAdvances
<1>1. "error" \in Status /\ 0 \in 0..MaxSlot
  BY SlotTypes DEF Status
<1> QED
  BY <1>1, UpdateAdvances DEF FatalStream, RowAdvances

-----------------------------------------------------------------------------
(* The steps of the stream that write no instruction.                      *)

QuietStreamStep ==
    \/ Connect \/ EnterStreaming \/ AwaitEvent
    \/ \E t \in Tx : ReceiveEvent(t) \/ FetchTransaction(t) \/ StreamHeartbeat(t)
    \/ CatchingUp \/ Reconnect \/ MiniBackfillReturned \/ Disconnect

\* What such a step does to the variables of the stream.
StreamSteps ==
    /\ StreamTypes' /\ RowAdvances
    /\ st # "off" /\ (st' = "ok" => StreamCancelled)
    /\ \A t, u \in event' : t = u
    /\ st' \in {"write", "beat"} => \A t \in event' : Visible(t)

\* The first subscription succeeds or ends the stream.
LEMMA ConnectStep ==
    ASSUME TypeOK, EventInv, Connect
    PROVE  StreamSteps
<1>1. RowAdvances
  BY RowStays DEF Connect
<1>2. confirmed \in 0..MaxSlot /\ 0 \in 0..MaxSlot
  BY SlotTypes
<1>3. StreamTypes'
  BY <1>2 DEF TypeOK, StreamTypes, Connect, Subscribed, wsVars, bounds, St
<1> QED
  BY <1>1, <1>3 DEF StreamSteps, EventInv, Connect

\* The head of the loop ends the stream well only when it is cancelled.
LEMMA EnterStreamingStep ==
    ASSUME TypeOK, EventInv, EnterStreaming
    PROVE  StreamSteps
<1>1. RowAdvances
  <2>1. "streaming" \in Status /\ 0 \in 0..MaxSlot
    BY SlotTypes DEF Status
  <2>2. UNCHANGED rowVars \/ TryUpdateIndexerState("streaming", 0)
    BY DEF EnterStreaming, TryUpdateIndexerState
  <2> QED
    BY <2>1, <2>2, RowStays, UpdateAdvances DEF RowAdvances
<1>2. fails' \in 0..MaxFetchFailures
  BY PipelineAssumption DEF TypeOK, EnterStreaming, PipelineAssumption
<1>3. st' \in {"ok", "next", "err"} /\ (st' = "ok" => StreamCancelled) /\ st = "loop"
  BY DEF EnterStreaming
<1>4. UNCHANGED <<wire, lastSeen, joinedAt, event, disconnectSlot, disconnects, restarts>>
  BY DEF EnterStreaming, wsVars, bounds
<1>5. StreamTypes'
  BY <1>2, <1>3, <1>4 DEF TypeOK, StreamTypes, St
<1> QED
  BY <1>1, <1>3, <1>4, <1>5 DEF StreamSteps, EventInv

\* So does the check before the wait for a notification.
LEMMA AwaitEventStep ==
    ASSUME TypeOK, EventInv, AwaitEvent
    PROVE  StreamSteps
<1>1. RowAdvances
  BY RowStays DEF AwaitEvent
<1>2. StreamTypes'
  BY DEF TypeOK, StreamTypes, AwaitEvent, wsVars, bounds, St
<1> QED
  BY <1>1, <1>2 DEF StreamSteps, EventInv, AwaitEvent

\* One notification is taken at a time, with its slot as the last one seen.
LEMMA ReceiveEventStep ==
    ASSUME TypeOK, EventInv, NEW t \in Tx, ReceiveEvent(t)
    PROVE  StreamSteps
<1>1. RowAdvances
  BY RowStays DEF ReceiveEvent
<1>2. lastSeen' \in 0..MaxSlot
  BY SlotTypes DEF TypeOK, ReceiveEvent, Larger
<1>3. st' \in {"next", "fetch"} /\ event' \in {event, {t}} /\ st = "wait" /\ wire' \subseteq wire
  BY DEF ReceiveEvent
<1>4. StreamTypes'
  BY <1>2, <1>3 DEF TypeOK, StreamTypes, ReceiveEvent, bounds, St
<1> QED
  BY <1>1, <1>3, <1>4 DEF StreamSteps, EventInv

\* Only a transaction that is visible at "finalized" goes on to be written.
LEMMA FetchTransactionStep ==
    ASSUME TypeOK, EventInv, NEW t \in Tx, FetchTransaction(t)
    PROVE  StreamSteps
<1>1. RowAdvances
  BY RowStays, FatalRow DEF FetchTransaction
<1>2. fails' \in 0..MaxFetchFailures
  BY PipelineAssumption DEF TypeOK, FetchTransaction, MayFail, PipelineAssumption
<1>3. /\ st' \in {"write", "beat", "next", "err"} /\ st = "fetch" /\ event' \in {event, {}}
      /\ st' \in {"write", "beat"} => Visible(t)
  BY DEF FetchTransaction, FatalStream
<1>4. st' \in {"write", "beat"} => \A u \in event' : Visible(u)
  BY <1>3 DEF FetchTransaction, EventInv
<1>5. StreamTypes'
  BY <1>2, <1>3 DEF TypeOK, StreamTypes, FetchTransaction, wsVars, bounds, St
<1> QED
  BY <1>1, <1>3, <1>4, <1>5 DEF StreamSteps, EventInv

\* The heartbeat writes the slot of the notification into the row.
LEMMA StreamHeartbeatStep ==
    ASSUME TypeOK, EventInv, NEW t \in Tx, StreamHeartbeat(t)
    PROVE  StreamSteps
<1>1. RowAdvances
  <2>1. "streaming" \in Status /\ TxSlot[t] \in 0..MaxSlot
    BY SlotTypes DEF Status
  <2> QED
    BY <2>1, UpdateAdvances DEF StreamHeartbeat, RowAdvances
<1>2. StreamTypes'
  BY DEF TypeOK, StreamTypes, StreamHeartbeat, wsVars, bounds, St
<1> QED
  BY <1>1, <1>2 DEF StreamSteps, StreamHeartbeat

\* A disconnect remembers a slot of the chain, or none.
LEMMA DisconnectStep ==
    ASSUME TypeOK, EventInv, Disconnect
    PROVE  StreamSteps
<1>1. RowAdvances
  BY RowStays DEF Disconnect
<1>2. disconnectSlot' \in 0..MaxSlot
  <2>1. checkpoint["realtime"] \in 0..MaxSlot /\ 0 \in 0..MaxSlot /\ lastSeen \in 0..MaxSlot
    BY SlotTypes DEF TypeOK, Stream
  <2> QED
    BY <2>1 DEF Disconnect
<1>3. disconnects' \in 0..MaxDisconnects
  BY PipelineAssumption DEF TypeOK, Disconnect, PipelineAssumption
<1>4. StreamTypes'
  BY <1>2, <1>3 DEF TypeOK, StreamTypes, Disconnect, St
<1> QED
  BY <1>1, <1>4 DEF StreamSteps, EventInv, Disconnect

\* That slot goes into the row too, which keeps a larger one.
LEMMA CatchingUpStep ==
    ASSUME TypeOK, EventInv, CatchingUp
    PROVE  StreamSteps
<1>1. RowAdvances
  <2>1. "catching_up" \in Status /\ disconnectSlot \in 0..MaxSlot
    BY DEF Status, TypeOK
  <2> QED
    BY <2>1, UpdateAdvances DEF CatchingUp, RowAdvances
<1>2. StreamTypes'
  BY DEF TypeOK, StreamTypes, CatchingUp, wsVars, bounds, St
<1> QED
  BY <1>1, <1>2 DEF StreamSteps, EventInv, CatchingUp

\* A reconnection begins with an empty connection, or is fatal.
LEMMA ReconnectStep ==
    ASSUME TypeOK, EventInv, Reconnect
    PROVE  StreamSteps
<1>1. RowAdvances
  BY RowStays, FatalRow DEF Reconnect
<1>2. confirmed \in 0..MaxSlot /\ 0 \in 0..MaxSlot
  BY SlotTypes
<1>3. /\ st' \in {"mini", "loop", "err"} /\ st = "reconnect" /\ event' \in {event, {}}
      /\ wire' \in {wire, {}} /\ lastSeen' \in {lastSeen, 0} /\ joinedAt' \in {joinedAt, confirmed}
  BY DEF Reconnect, FatalStream, Subscribed, wsVars
<1>4. StreamTypes'
  BY <1>2, <1>3 DEF TypeOK, StreamTypes, Reconnect, bounds, St
<1> QED
  BY <1>1, <1>3, <1>4 DEF StreamSteps, EventInv

\* The stream goes on after a mini-backfill, or ends with its error.
LEMMA MiniBackfillReturnedStep ==
    ASSUME TypeOK, EventInv, MiniBackfillReturned
    PROVE  StreamSteps
<1>1. RowAdvances
  BY RowStays DEF MiniBackfillReturned
<1>2. StreamTypes'
  BY DEF TypeOK, StreamTypes, MiniBackfillReturned, wsVars, bounds, St
<1> QED
  BY <1>1, <1>2 DEF StreamSteps, EventInv, MiniBackfillReturned

\* No step of the stream but a write and a mini-backfill touches the chain, the
\* tables, the tokens, the jobs or the orchestrator.
LEMMA QuietSteps ==
    ASSUME TypeOK, EventInv, QuietStreamStep
    PROVE  StreamSteps /\ UNCHANGED <<Frame, restarts>>
<1>1. StreamSteps
  BY ConnectStep, EnterStreamingStep, AwaitEventStep, ReceiveEventStep, FetchTransactionStep,
     StreamHeartbeatStep, DisconnectStep, CatchingUpStep, ReconnectStep,
     MiniBackfillReturnedStep, ZenonT(60)
  DEF QuietStreamStep
<1>2. UNCHANGED <<Frame, restarts>>
  BY DEF QuietStreamStep, Connect, EnterStreaming, AwaitEvent, ReceiveEvent, FetchTransaction,
         StreamHeartbeat, CatchingUp, Reconnect, MiniBackfillReturned, Disconnect, bounds
<1> QED
  BY <1>1, <1>2

-----------------------------------------------------------------------------
(* What all steps but a few leave alone.                                   *)

\* A step of the environment of the jobs: it leaves their producers, channels,
\* writers and checkpoints alone and takes back no cancellation and no row.
LEMMA EnvironmentInv ==
    ASSUME IngestInv, IngestTypeOK', UNCHANGED jobVars, finalized <= finalized',
           stored \subseteq stored', \A j \in Job : checkpoint'[j] = checkpoint[j],
           \A j \in Job : cancelled[j] => cancelled'[j]
    PROVE  IngestInv'
<1>1. \A j \in Job : SameJob(j)
  BY Zenon DEF SameJob, jobVars, prodVars, wrVars
<1>2. OnlyAdds
  BY DEF OnlyAdds, jobVars
<1> QED
  BY <1>1, <1>2, FrameInv, ZenonT(60)

\* The types of Ingest after such a step.
LEMMA EnvironmentTypes ==
    ASSUME IngestTypeOK, UNCHANGED <<total, jobVars>>, finalized' \in 0..MaxSlot,
           stored' \subseteq Tx, checkpoint' \in [Stream -> 0..MaxSlot],
           cancelled' \in [Job -> BOOLEAN], status' \in Status, lastProcessed' \in 0..MaxSlot
    PROVE  IngestTypeOK'
<1>1. UNCHANGED <<pc, from, to, at, chunkEnd, failed, chan, wr, held, written, unfetched,
                  undrained>>
  BY DEF jobVars, prodVars, wrVars
<1> QED
  BY <1>1, Zenon DEF IngestTypeOK

\* A checkpoint once written is never taken away.
CheckpointsStay == \A s \in Stream : checkpoint'[s] = 0 => checkpoint[s] = 0

\* A step that keeps the range of the backfill keeps what was said of what lies
\* before it, if it ends the first backfill also.
LEMMA OriginFrame ==
    ASSUME TypeOK, IngestInv, OriginInv, HoleInv, PlanInv, OnlyAdds, CheckpointsStay,
           restarts \in Nat, restarts' \in Nat, restarts <= restarts',
           from'["backfill"] = from["backfill"], origin' = origin, plan' = plan,
           run' = "start" => run = "start",
           run' = "tail" => \/ run = "tail"
                            \/ run = "backfill" /\ pc["backfill"] = "ok" /\ ~Shutdown,
           pc["backfill"] = "off" =>
                pc'["backfill"] = "off" /\ checkpoint'["backfill"] = checkpoint["backfill"],
           run = "start" => pc["backfill"] = "off",
           origin = 0 => run' \in {"init", "stream", "ok", "err"}
    PROVE  OriginInv' /\ HoleInv'
<1>1. \A s : Covered(s) => Covered(s)'
  BY CoveredMonotone DEF OnlyAdds
<1>2. Unskipped' => Unskipped
  BY DEF Unskipped, CheckpointsStay, Stream, Job
<1>3. OriginInv'
  BY <1>2 DEF OriginInv
<1>4. ASSUME ChunkSize > 0, run' = "tail", NEW s \in from["backfill"]..plan.hi
      PROVE  Covered(s)
  <2>1. CASE run = "tail"
    BY <1>4, <2>1 DEF HoleInv
  <2>2. CASE run = "backfill" /\ pc["backfill"] = "ok" /\ ~Shutdown
    <3>1. to["backfill"] = plan.hi
      BY <2>2 DEF PlanInv
    <3>2. OkCovered("backfill")
      BY DEF IngestInv, JobInv, AccountInv, Job
    <3> QED
      BY <1>4, <2>2, <3>1, <3>2, Zenon DEF OkCovered, Shutdown
  <2> QED
    BY <1>4, <2>1, <2>2, Zenon
<1>5. HoleInv'
  BY <1>1, <1>2, <1>4 DEF HoleInv
<1> QED
  BY <1>3, <1>5

-----------------------------------------------------------------------------
(* The steps of the jobs.                                                  *)

\* A batch in the writer's hands is one of the job's range.
LEMMA HeldIsFinal ==
    ASSUME IngestInv, NEW j \in Job, wr[j] \in {"write", "drainWrite"}
    PROVE  /\ Running(j) /\ held[j] \in Nat /\ 1 <= held[j] /\ held[j] <= finalized
<1>1. RangeInv(j) /\ QueueInv(j) /\ IngestTypeOK
  BY DEF IngestInv, JobInv
<1>2. held[j] \in Nat /\ at[j] \in Nat /\ to[j] \in Nat /\ finalized \in Nat
  BY <1>1, JobTypes
<1>3. Running(j) /\ held[j] # 0 /\ held[j] < at[j]
  BY <1>1, Zenon DEF QueueInv, Ready
<1>4. at[j] <= to[j] + 1 /\ to[j] <= finalized
  BY <1>1, <1>3, Zenon DEF RangeInv
<1> QED
  BY <1>2, <1>3, <1>4

\* What a step of job j leaves alone, and what it may do to its producer, the
\* checkpoints and the table.
JobEffect(j) ==
    /\ UNCHANGED <<finalized, cancelled, from, to>> /\ OnlyAdds
    /\ \A k \in Job : pc'[k] = pc[k] \/ (k = j /\ Running(j) /\ pc'[k] # "off")
    /\ \/ checkpoint' = checkpoint
       \/ /\ Running(j) /\ 1 <= held[j] /\ held[j] <= finalized
          /\ checkpoint' = [checkpoint EXCEPT ![j] = held[j]]
    /\ \A t \in stored' : t \in stored \/ TxSlot[t] <= finalized

\* A producer writes no table and keeps its range.
LEMMA ProducerEffect ==
    ASSUME IngestInv, NEW j \in Job, ProducerStep(j)
    PROVE  JobEffect(j)
<1>1. finalized \in Nat /\ DOMAIN pc = Job
  BY JobDomains, Zenon DEF IngestInv
<1>2. UNCHANGED <<finalized, cancelled, from, to, stored, checkpoint, undrained>>
  BY Zenon DEF ProducerStep, NextChunk, FetchBlock, SendBatch, ChunkHeartbeat, JoinWriter, dbVars
<1>3. unfetched \subseteq unfetched'
  BY DEF ProducerStep, NextChunk, FetchBlock, SendBatch, ChunkHeartbeat, JoinWriter
<1>4. /\ Running(j)
      /\ \/ pc' = pc
         \/ \E p \in PC \ {"off"} : pc' = [pc EXCEPT ![j] = p]
  <2>1. Running(j)
    BY DEF ProducerStep, NextChunk, FetchBlock, SendBatch, ChunkHeartbeat, JoinWriter, Running
  <2>2. {"join", "slot", "beat", "send", "chunk", "err", "ok"} \subseteq PC \ {"off"}
    BY Zenon DEF PC
  <2>3. pc' = pc \/ \E p \in {"join", "slot", "beat", "send", "chunk", "err", "ok"} :
                       pc' = [pc EXCEPT ![j] = p]
    BY DEF ProducerStep, NextChunk, FetchBlock, SendBatch, ChunkHeartbeat, JoinWriter
  <2> QED
    BY <2>1, <2>2, <2>3, ZenonT(60)
<1>5. \A k \in Job : pc'[k] = pc[k] \/ (k = j /\ Running(j) /\ pc'[k] # "off")
  BY <1>1, <1>4
<1> QED
  BY <1>1, <1>2, <1>3, <1>5 DEF JobEffect, OnlyAdds

\* A writer commits finalized blocks only, and only the checkpoint of its job.
LEMMA WriterEffect ==
    ASSUME IngestInv, NEW j \in Job, WriterStep(j)
    PROVE  JobEffect(j)
<1>1. finalized \in Nat
  BY JobDomains, ZenonT(60) DEF IngestInv
<1>2. UNCHANGED <<finalized, cancelled, from, to, pc, unfetched>>
  BY DEF WriterStep, TakeBatch, ChannelClosed, StartDrain, EndDrain, CommitBatch, FailBatch,
         FailDrainBatch, FlushCounters, prodVars
<1>3. undrained \subseteq undrained'
  BY Zenon DEF WriterStep, TakeBatch, ChannelClosed, StartDrain, EndDrain, CommitBatch, FailBatch,
         FailDrainBatch, FlushCounters
<1>4. CASE CommitBatch(j) \/ FailBatch(j) \/ FailDrainBatch(j)
  <2>1. wr[j] \in {"write", "drainWrite"}
    BY <1>4 DEF CommitBatch, FailBatch, FailDrainBatch
  <2>2. \/ stored' = stored /\ checkpoint' = checkpoint
        \/ /\ stored' = stored \cup DecodeBlock(held[j])
           /\ checkpoint' = [checkpoint EXCEPT ![j] = held[j]]
    BY <1>4 DEF CommitBatch, FailBatch, FailDrainBatch, FailedWrite, WriteBlock,
                UpdateCheckpoint, dbVars
  <2>3. Running(j) /\ 1 <= held[j] /\ held[j] <= finalized
    BY <2>1, HeldIsFinal
  <2>4. \A t \in DecodeBlock(held[j]) : TxSlot[t] <= finalized
    BY <2>3, Zenon DEF DecodeBlock
  <2>5. finalized <= finalized'
    BY <1>1, <1>2
  <2>6. OnlyAdds
    BY <1>2, <1>3, <2>2, <2>5, Zenon DEF OnlyAdds
  <2>7. \A t \in stored' : t \in stored \/ TxSlot[t] <= finalized
    BY <2>2, <2>4, ZenonT(60)
  <2> QED
    BY <1>2, <2>2, <2>3, <2>6, <2>7, Zenon DEF JobEffect
<1>5. CASE ~(CommitBatch(j) \/ FailBatch(j) \/ FailDrainBatch(j))
  <2>1. UNCHANGED <<stored, checkpoint>>
    BY <1>5 DEF WriterStep, TakeBatch, ChannelClosed, StartDrain, EndDrain, FlushCounters, dbVars
  <2> QED
    BY <1>1, <1>2, <1>3, <2>1 DEF JobEffect, OnlyAdds
<1> QED
  BY <1>4, <1>5

\* A job never lowers the slot of the row.
LEMMA JobRow ==
    ASSUME TypeOK, NEW j \in Job, JobStep(j)
    PROVE  RowAdvances
<1>1. chunkEnd[j] \in 0..MaxSlot /\ to[j] \in 0..MaxSlot /\ 0 \in 0..MaxSlot
  <2>1. IngestTypeOK
    BY DEF TypeOK
  <2> QED
    BY <2>1, JobTypes
<1>2. {"backfilling", "failed", "idle"} \subseteq Status
  BY DEF Status
<1>3. \/ UNCHANGED rowVars \/ TryUpdateIndexerState("backfilling", chunkEnd[j])
      \/ TryUpdateIndexerState("failed", 0) \/ TryUpdateIndexerState("idle", to[j])
  BY Zenon DEF JobStep, ProducerStep, WriterStep, NextChunk, FetchBlock, SendBatch, ChunkHeartbeat,
         JoinWriter, TakeBatch, ChannelClosed, StartDrain, EndDrain, CommitBatch, FailBatch,
         FailDrainBatch, FlushCounters, TryUpdateIndexerState
<1> QED
  BY <1>1, <1>2, <1>3, RowStays, UpdateAdvances, Zenon DEF RowAdvances

\* Without chunks a job goes from the head of its loop to the end.
LEMMA NoChunkStep ==
    ASSUME IngestInv, NoChunkInv, NEW j \in Job, JobStep(j)
    PROVE  NoChunkInv'
<1> SUFFICES ASSUME ChunkSize = 0
             PROVE  \A k \in Job : /\ pc'[k] \notin {"slot", "send", "beat"} /\ held'[k] = 0
                                   /\ chan'[k] = <<>> /\ checkpoint'[k] = 0
  BY DEF NoChunkInv
<1>1. /\ pc[j] \notin {"slot", "send", "beat"} /\ held[j] = 0 /\ chan[j] = <<>>
      /\ \A k \in Job : /\ pc[k] \notin {"slot", "send", "beat"} /\ held[k] = 0
                         /\ chan[k] = <<>> /\ checkpoint[k] = 0
  BY DEF NoChunkInv
<1>2. wr[j] \notin {"write", "drainWrite"}
  BY <1>1, Zenon DEF IngestInv, JobInv, QueueInv
<1>3. DOMAIN pc = Job /\ DOMAIN held = Job /\ DOMAIN chan = Job
  BY JobDomains DEF IngestInv
<1>4. CASE ProducerStep(j)
  <2>1. NextChunk(j) \/ JoinWriter(j)
    BY <1>1, <1>4, Zenon DEF ProducerStep, FetchBlock, SendBatch, ChunkHeartbeat
  <2>2. \E p \in {"join", "err", "ok"} : pc' = [pc EXCEPT ![j] = p]
    BY <2>1 DEF NextChunk, MoreChunks, JoinWriter
  <2>3. UNCHANGED <<held, chan, checkpoint>>
    BY <2>1 DEF NextChunk, JoinWriter, dbVars, wrVars
  <2> QED
    BY <1>1, <1>3, <2>2, <2>3, Zenon
<1>5. CASE WriterStep(j)
  <2>1. ChannelClosed(j) \/ StartDrain(j) \/ EndDrain(j) \/ FlushCounters(j)
    BY <1>1, <1>2, <1>5, Zenon DEF WriterStep, TakeBatch, CommitBatch, FailBatch, FailDrainBatch
  <2>2. /\ UNCHANGED <<pc, held, checkpoint>>
        /\ chan' = chan \/ chan' = [chan EXCEPT ![j] = <<>>]
    BY <2>1, Zenon DEF ChannelClosed, StartDrain, EndDrain, FlushCounters, dbVars, prodVars
  <2> QED
    BY <1>1, <1>3, <2>2
<1> QED
  BY <1>4, <1>5 DEF JobStep

\* A step of a job keeps the invariant of the pipeline.
LEMMA JobProgressInv ==
    ASSUME PipelineInv, JobProgress
    PROVE  PipelineInv'
<1>1. PICK j \in Job : JobStep(j)
  BY DEF JobProgress
<1>2. IngestInv' /\ JobEffect(j) /\ NoChunkInv'
  BY <1>1, JobStepInv, ProducerEffect, WriterEffect, NoChunkStep DEF JobStep, PipelineInv
<1>3. UNCHANGED <<confirmed, run, plan, origin, wire, lastSeen, joinedAt, st, event, fails,
                  disconnectSlot, disconnects, restarts>>
  BY DEF JobProgress, orchVars, wsVars, streamVars, bounds
<1>4. TypeOK'
  <2>1. finalized' = finalized
    BY <1>2, Zenon DEF JobEffect
  <2> QED
    BY <1>2, <1>3, <2>1, Zenon DEF PipelineInv, TypeOK, IngestInv
<1>5. DOMAIN checkpoint = Stream /\ "backfill" \in Job /\ "catchup" \in Job /\ Job \subseteq Stream
  BY JobDomains DEF PipelineInv, IngestInv, Job
<1>6. /\ \A s \in Stream : checkpoint'[s] = checkpoint[s] \/ (s = j /\ Running(j)
                                /\ 1 <= checkpoint'[s] /\ checkpoint'[s] <= finalized)
      /\ UNCHANGED <<finalized, cancelled, from, to>>
      /\ pc'["backfill"] = pc["backfill"]
         \/ ("backfill" = j /\ Running(j) /\ pc'["backfill"] # "off")
      /\ pc'["catchup"] = pc["catchup"]
         \/ ("catchup" = j /\ Running(j) /\ pc'["catchup"] # "off")
  BY <1>2, <1>5 DEF JobEffect
<1>7. IndexIsFinal'
  <2>1. \A t \in stored' : TxSlot[t] <= finalized'
    BY <1>2 DEF JobEffect, PipelineInv, IndexIsFinal
  <2>2. \A s \in Stream : checkpoint'[s] <= finalized'
    BY <1>6 DEF PipelineInv, IndexIsFinal
  <2> QED
    BY <2>1, <2>2, Zenon DEF IndexIsFinal
<1>8. PlanInv'
  BY <1>3, <1>6 DEF PipelineInv, PlanInv, Running
<1>9. EventInv' /\ TokenInv'
  BY <1>3, <1>6, Zenon DEF PipelineInv, EventInv, TokenInv, Visible, StreamCancelled, Shutdown,
     CleanExitMeansShutdown
<1>10. IdleInv'
  <2>1. run \in {"init", "start", "stream"} => pc'["backfill"] = "off"
    BY <1>6 DEF PipelineInv, IdleInv, Running
  <2>2. run = "init" => pc'["catchup"] = "off" /\ \A s \in Stream : checkpoint'[s] = checkpoint[s]
    BY <1>6 DEF PipelineInv, IdleInv, Running, Job
  <2> QED
    BY <1>3, <2>1, <2>2, Zenon DEF PipelineInv, IdleInv
<1>11. OriginInv' /\ HoleInv'
  <2>1. CheckpointsStay
    BY <1>6 DEF CheckpointsStay
  <2>2. OnlyAdds
    BY <1>2 DEF JobEffect
  <2>3. restarts \in Nat /\ restarts' = restarts
    BY <1>3, InvTypes
  <2>4. pc["backfill"] = "off" =>
          pc'["backfill"] = "off" /\ checkpoint'["backfill"] = checkpoint["backfill"]
    BY <1>5, <1>6 DEF Running
  <2>5. run = "start" => pc["backfill"] = "off"
    BY DEF PipelineInv, IdleInv
  <2>6. origin = 0 => run' \in {"init", "stream", "ok", "err"}
    BY <1>3 DEF PipelineInv, OriginInv
  <2> QED
    BY <1>3, <1>6, <2>1, <2>2, <2>3, <2>4, <2>5, <2>6, OriginFrame DEF PipelineInv
<1> QED
  BY <1>2, <1>4, <1>7, <1>8, <1>9, <1>10, <1>11, Zenon DEF PipelineInv

-----------------------------------------------------------------------------
(* The steps that leave the jobs alone.                                    *)

\* Where run may go in a step that starts no backfill.
RunMoves ==
    /\ run' = "start" => run = "start"
    /\ run' = "stream" => run \in {"init", "stream"}
    /\ run' \in {"backfill", "tailing"} => run' = run
    /\ run' = "tail" =>
         run = "tail" \/ (run = "backfill" /\ pc["backfill"] = "ok" /\ ~Shutdown)
    /\ run' = "join" => run \in {"backfill", "tail", "tailing", "join"}
    /\ run' = "abort" => run \in {"backfill", "abort"}

\* What a step outside the jobs may do: move the orchestrator on, cancel, and add
\* rows and a checkpoint of the stream.
Outside ==
    /\ UNCHANGED <<jobVars, plan, origin, restarts>>
    /\ finalized <= finalized' /\ stored \subseteq stored'
    /\ \A j \in Job : checkpoint'[j] = checkpoint[j] /\ (cancelled[j] => cancelled'[j])
    /\ CheckpointsStay
    /\ run' = "init" => run = "init" /\ st' = "off" /\ checkpoint' = checkpoint
    /\ RunMoves

\* Such a step keeps the invariant when it keeps what is said of the tables, the
\* notification and the tokens.
LEMMA OutsideInv ==
    ASSUME PipelineInv, TypeOK', IndexIsFinal', EventInv', TokenInv', Outside
    PROVE  PipelineInv'
<1>1. IngestInv'
  BY EnvironmentInv, Zenon DEF PipelineInv, Outside, TypeOK
<1>2. UNCHANGED <<pc, from, to, held, chan, plan, origin, restarts>>
  BY DEF Outside, jobVars, prodVars, wrVars
<1>3. "backfill" \in Job
  BY DEF Job
<1>4. PlanInv'
  <2>1. plan.hi <= finalized'
    <3>1. finalized \in Nat /\ plan.hi \in Nat /\ plan.hi <= finalized
      BY InvTypes, Zenon
    <3>2. finalized' \in 0..MaxSlot
      BY Zenon DEF TypeOK, IngestTypeOK
    <3>3. MaxSlot \in Nat /\ finalized <= finalized'
      BY InvTypes, Zenon DEF Outside
    <3> QED
      BY <3>1, <3>2, <3>3
  <2>2. run' \in {"backfill", "tail", "tailing", "join"} =>
          run \in {"backfill", "tail", "tailing", "join"}
    BY Zenon DEF Outside, RunMoves
  <2> QED
    BY <1>2, <2>1, <2>2 DEF PipelineInv, PlanInv
<1>5. IdleInv'
  <2>1. run' \in {"init", "start", "stream"} => run \in {"init", "start", "stream"}
    BY DEF Outside, RunMoves
  <2> QED
    BY <1>2, <2>1, Zenon DEF PipelineInv, IdleInv, Outside
<1>6. NoChunkInv'
  BY <1>2 DEF PipelineInv, NoChunkInv, Outside
<1>7. OriginInv' /\ HoleInv'
  <2>1. OnlyAdds
    BY DEF OnlyAdds, Outside, jobVars
  <2>2. restarts \in Nat /\ restarts' \in Nat /\ restarts <= restarts'
    BY <1>2, InvTypes
  <2>3. run = "start" => pc["backfill"] = "off"
    BY DEF PipelineInv, IdleInv
  <2>4. origin = 0 => run' \in {"init", "stream", "ok", "err"}
    <3>1. run' \in Run
      BY DEF TypeOK
    <3> QED
      BY <3>1 DEF PipelineInv, OriginInv, Outside, RunMoves, Run
  <2> QED
    BY <1>2, <1>3, <2>1, <2>2, <2>3, <2>4, OriginFrame, ZenonT(60) DEF PipelineInv, Outside, RunMoves
<1> QED
  BY <1>1, <1>4, <1>5, <1>6, <1>7, Zenon DEF PipelineInv

\* The stream, when it writes nothing.
LEMMA QuietStreamInv ==
    ASSUME PipelineInv, QuietStreamStep
    PROVE  PipelineInv'
<1>1. StreamSteps /\ UNCHANGED <<Frame, restarts>>
  BY QuietSteps DEF PipelineInv
<1>2. UNCHANGED <<finalized, confirmed, stored, checkpoint, total, cancelled, jobVars, run, plan,
                  origin, restarts>>
  BY <1>1 DEF Frame, chainVars, dbVars, orchVars
<1>3. TypeOK'
  <2>1. IngestTypeOK'
    BY <1>1, <1>2, InvTypes, EnvironmentTypes, Zenon DEF IngestTypeOK, StreamSteps, RowAdvances
  <2>2. OrchTypes'
    BY <1>2 DEF PipelineInv, TypeOK, OrchTypes
  <2> QED
    BY <1>1, <2>1, <2>2 DEF StreamSteps, TypeOK, OrchTypes, StreamTypes
<1>4. IndexIsFinal'
  BY <1>2 DEF PipelineInv, IndexIsFinal
<1>5. EventInv'
  BY <1>1, <1>2 DEF StreamSteps, EventInv, Visible
<1>6. TokenInv'
  BY <1>1, <1>2 DEF PipelineInv, StreamSteps, TokenInv, StreamCancelled, Shutdown,
     CleanExitMeansShutdown
<1>7. run # "init"
  BY <1>1, Zenon DEF PipelineInv, IdleInv, StreamSteps
<1>8. Outside
  <2>1. finalized \in Nat
    BY SlotTypes DEF PipelineInv
  <2> QED
    BY <1>2, <1>7, <2>1 DEF Outside, CheckpointsStay, RunMoves
<1> QED
  BY <1>3, <1>4, <1>5, <1>6, <1>8, OutsideInv, Zenon

\* The chain's confirmed tip concerns nothing but the notifications.
LEMMA ConfirmInv ==
    ASSUME PipelineInv, Confirm
    PROVE  PipelineInv'
<1>1. UNCHANGED <<finalized, stored, checkpoint, status, lastProcessed, total, cancelled, jobVars,
                  run, plan, origin, lastSeen, joinedAt, st, event, fails, disconnectSlot,
                  disconnects, restarts>>
  BY DEF Confirm, ingestVars, dbVars, rowVars, jobVars, orchVars, streamVars, bounds
<1>2. finalized \in Nat /\ confirmed' \in finalized..MaxSlot /\ wire' \subseteq Tx
  BY SlotTypes DEF Confirm, PipelineInv, TypeOK
<1>3. TypeOK'
  <2>1. IngestTypeOK'
    BY <1>1, InvTypes, EnvironmentTypes, Zenon DEF IngestTypeOK
  <2> QED
    BY <1>1, <1>2, <2>1, Zenon DEF PipelineInv, TypeOK
<1>4. IndexIsFinal' /\ EventInv' /\ TokenInv'
  BY <1>1, Zenon DEF PipelineInv, IndexIsFinal, EventInv, Visible, TokenInv, StreamCancelled, Shutdown,
              CleanExitMeansShutdown
<1>5. Outside
  <2>1. run = "init" => st = "off"
    BY DEF PipelineInv, IdleInv
  <2> QED
    BY <1>1, <1>2, <2>1 DEF Outside, CheckpointsStay, RunMoves
<1> QED
  BY <1>3, <1>4, <1>5, OutsideInv, Zenon

\* A slot becomes finalized: what was final stays so.
LEMMA FinalizeSlotInv ==
    ASSUME PipelineInv, FinalizeSlot
    PROVE  PipelineInv'
<1>1. UNCHANGED <<stored, checkpoint, status, lastProcessed, total, cancelled, jobVars, confirmed,
                  run, plan, origin, wire, lastSeen, joinedAt, st, event, fails, disconnectSlot,
                  disconnects, restarts>>
  BY Zenon DEF FinalizeSlot, Finalize, dbVars, rowVars, jobVars, orchVars, wsVars, streamVars, bounds
<1>2. /\ finalized \in Nat /\ finalized' = finalized + 1 /\ finalized' \in 0..MaxSlot
      /\ confirmed \in finalized'..MaxSlot
  BY SlotTypes DEF FinalizeSlot, Finalize, PipelineInv
<1>3. TypeOK'
  <2>1. IngestTypeOK'
    BY <1>1, <1>2, InvTypes, EnvironmentTypes, Zenon DEF IngestTypeOK
  <2> QED
    BY <1>1, <1>2, <2>1, Zenon DEF PipelineInv, TypeOK
<1>4. \A n \in Nat : n <= finalized => n <= finalized'
  BY <1>2
<1>5. (\A t \in Tx : TxSlot[t] \in Nat) /\ (\A s \in Stream : checkpoint[s] \in Nat)
  BY SlotTypes DEF PipelineInv
<1>6. stored \subseteq Tx /\ event \subseteq Tx
  BY InvTypes
<1>7. IndexIsFinal' /\ EventInv'
  BY <1>1, <1>4, <1>5, <1>6, Zenon DEF PipelineInv, IndexIsFinal, EventInv, Visible
<1>8. TokenInv'
  BY <1>1, ZenonT(60) DEF PipelineInv, TokenInv, StreamCancelled, Shutdown, CleanExitMeansShutdown
<1>9. Outside
  <2>1. run = "init" => st = "off"
    BY DEF PipelineInv, IdleInv
  <2> QED
    BY <1>1, <1>2, <2>1 DEF Outside, CheckpointsStay, RunMoves
<1> QED
  BY <1>3, <1>7, <1>8, <1>9, OutsideInv, Zenon

\* A step of run, or a signal, that starts no job and reads no table.
LEMMA ControlInv ==
    ASSUME PipelineInv, RunMoves, run' \in Run, st' \in St, cancelled' \in [Job -> BOOLEAN],
           \A j \in Job : cancelled[j] => cancelled'[j], TokenInv',
           st' = st \/ st' = "connect", run' = "init" => run = "init" /\ st' = "off",
           UNCHANGED <<chainVars, dbVars, rowVars, total, jobVars, plan, origin, wsVars, event, fails,
                       disconnectSlot, bounds>>
    PROVE  PipelineInv'
<1>1. UNCHANGED <<finalized, confirmed, stored, checkpoint, status, lastProcessed, total, jobVars,
                  plan, origin, wire, lastSeen, joinedAt, event, fails, disconnectSlot,
                  disconnects, restarts>>
  BY Zenon DEF chainVars, dbVars, rowVars, wsVars, bounds
<1>2. TypeOK'
  <2>1. IngestTypeOK'
    BY <1>1, InvTypes, EnvironmentTypes, Zenon DEF IngestTypeOK
  <2> QED
    BY <1>1, <2>1 DEF PipelineInv, TypeOK
<1>3. IndexIsFinal' /\ EventInv'
  BY <1>1, Zenon DEF PipelineInv, IndexIsFinal, EventInv, Visible
<1>4. Outside
  <2>1. finalized <= finalized' /\ stored \subseteq stored'
    BY <1>1, SlotTypes DEF PipelineInv
  <2>2. CheckpointsStay /\ \A j \in Job : checkpoint'[j] = checkpoint[j]
    BY <1>1, Zenon DEF CheckpointsStay
  <2>3. UNCHANGED <<jobVars, plan, origin, restarts>> /\ checkpoint' = checkpoint
    BY <1>1
  <2> QED
    BY <2>1, <2>2, <2>3, Zenon DEF Outside
<1> QED
  BY <1>2, <1>3, <1>4, OutsideInv, Zenon

\* A shutdown cancels both tokens.
LEMMA SignalInv ==
    ASSUME PipelineInv, Signal
    PROVE  PipelineInv'
<1>1. UNCHANGED <<run, plan, origin, st, event, fails, disconnectSlot>>
  BY DEF Signal, orchVars, streamVars
<1>2. cancelled' \in [Job -> BOOLEAN] /\ \A j \in Job : cancelled'[j]
  BY DEF Signal
<1>3. TokenInv'
  BY <1>2 DEF TokenInv, StreamCancelled, Shutdown, CleanExitMeansShutdown, Job
<1>4. run \in Run /\ st \in St /\ (run = "init" => st = "off")
  BY DEF PipelineInv, TypeOK, IdleInv
<1> QED
  BY <1>1, <1>2, <1>3, <1>4, ControlInv, Zenon DEF Signal, RunMoves

\* A stuttering step.
LEMMA StutterInv ==
    ASSUME PipelineInv, UNCHANGED pipelineVars
    PROVE  PipelineInv'
<1>1. UNCHANGED <<chainVars, dbVars, rowVars, total, cancelled, jobVars, run, plan, origin, wsVars,
                  st, event, fails, disconnectSlot, bounds>>
  BY DEF pipelineVars, ingestVars, chainVars, jobVars, orchVars, streamVars
<1>2. TokenInv'
  BY <1>1, Zenon DEF PipelineInv, TokenInv, StreamCancelled, Shutdown, CleanExitMeansShutdown
<1>3. /\ run \in Run /\ st \in St /\ (run = "init" => st = "off")
      /\ cancelled \in [Job -> BOOLEAN]
  BY Zenon DEF PipelineInv, TypeOK, IngestTypeOK, IdleInv
<1> QED
  BY <1>1, <1>2, <1>3, ControlInv, Zenon DEF RunMoves

\* After a failed backfill only the stream's token is cancelled, and run will
\* report the error.
LEMMA BackfillReturnedInv ==
    ASSUME PipelineInv, BackfillReturned
    PROVE  PipelineInv'
<1>1. /\ run = "backfill" /\ UNCHANGED <<st, event, fails, disconnectSlot>>
      /\ UNCHANGED <<chainVars, dbVars, rowVars, total, jobVars, plan, origin, wsVars, bounds>>
  BY DEF BackfillReturned, streamVars
<1>2. /\ cancelled \in [Job -> BOOLEAN] /\ st \in St /\ "catchup" \in Job /\ "backfill" \in Job
  BY InvTypes DEF Job
<1>3. \/ /\ pc["backfill"] = "ok" /\ run' = (IF Shutdown THEN "join" ELSE "tail")
         /\ cancelled' = cancelled
      \/ run' = "abort" /\ cancelled' = [cancelled EXCEPT !["catchup"] = TRUE]
  BY DEF BackfillReturned
<1>4. cancelled' \in [Job -> BOOLEAN] /\ \A j \in Job : cancelled[j] => cancelled'[j]
  BY <1>2, <1>3, Zenon
<1>5. TokenInv'
  BY <1>1, <1>2, <1>3, Zenon DEF PipelineInv, TokenInv, StreamCancelled, Shutdown, CleanExitMeansShutdown
<1>6. RunMoves /\ run' \in Run /\ run' # "init"
  BY <1>1, <1>3, Zenon DEF RunMoves, Run
<1> QED
  BY <1>1, <1>2, <1>4, <1>5, <1>6, ControlInv, Zenon

\* run goes on to wait for the stream, without a tail or after it.
LEMMA TailOverInv ==
    ASSUME PipelineInv, run \in {"tail", "tailing"}, run' = "join",
           UNCHANGED <<ingestVars, confirmed, plan, origin, wsVars, streamVars, bounds>>
    PROVE  PipelineInv'
<1>1. UNCHANGED <<chainVars, dbVars, rowVars, total, cancelled, jobVars, plan, origin, wsVars,
                  st, event, fails, disconnectSlot, bounds>>
  BY DEF ingestVars, chainVars, jobVars, streamVars
<1>2. TokenInv'
  BY <1>1 DEF PipelineInv, TokenInv, StreamCancelled, Shutdown, CleanExitMeansShutdown
<1>3. st \in St /\ cancelled \in [Job -> BOOLEAN] /\ "join" \in Run
  BY InvTypes, Zenon DEF Run
<1> QED
  BY <1>1, <1>2, <1>3, ControlInv, Zenon DEF RunMoves

\* run returns: with Ok only if the stream did and run was not aborting, which
\* takes a shutdown.
LEMMA JoinStreamInv ==
    ASSUME PipelineInv, JoinStream
    PROVE  PipelineInv'
<1>1. /\ run \in {"join", "abort", "stream"} /\ st \in {"ok", "err"}
      /\ UNCHANGED <<st, event, fails, disconnectSlot>>
      /\ UNCHANGED <<chainVars, dbVars, rowVars, total, jobVars, plan, origin, wsVars, bounds>>
      /\ run' = (IF run = "abort" THEN "err" ELSE st)
      /\ cancelled' = [cancelled EXCEPT !["catchup"] = @ \/ run = "join"]
  BY DEF JoinStream, RunResult, StreamEnded, streamVars
<1>2. /\ cancelled \in [Job -> BOOLEAN] /\ st \in St /\ "catchup" \in Job /\ "backfill" \in Job
  BY InvTypes DEF Job
<1>3. /\ cancelled' \in [Job -> BOOLEAN] /\ cancelled'["backfill"] = cancelled["backfill"]
      /\ cancelled'["catchup"] <=> cancelled["catchup"] \/ run = "join"
  BY <1>1, <1>2, Zenon
<1>4. \A j \in Job : cancelled[j] => cancelled'[j]
  BY <1>3 DEF Job
<1>5. run' = "ok" => Shutdown
  BY <1>1, Zenon DEF PipelineInv, TokenInv
<1>6. TokenInv'
  <2>1. run' \in {"ok", "err"}
    BY <1>1
  <2> QED
    BY <1>1, <1>3, <1>5, <2>1, Zenon DEF PipelineInv, TokenInv, StreamCancelled, Shutdown,
                                  CleanExitMeansShutdown
<1>7. RunMoves /\ run' \in Run /\ run' # "init"
  BY <1>1 DEF RunMoves, Run
<1> QED
  BY <1>1, <1>2, <1>3, <1>4, <1>6, <1>7, ControlInv, Zenon

\* The stream writes a transaction that getTransaction found, so a finalized one.
LEMMA WriteEventInv ==
    ASSUME PipelineInv, NEW t \in Tx, WriteEvent(t)
    PROVE  PipelineInv'
<1>1. /\ st = "write" /\ t \in event /\ st' \in {"beat", "err"}
      /\ st' = "beat" => event' = event
      /\ event' \in {event, {}}
      /\ UNCHANGED <<finalized, confirmed, total, cancelled, jobVars, run, plan, origin, wire,
                     lastSeen, joinedAt, fails, disconnectSlot, disconnects, restarts>>
  BY DEF WriteEvent, FatalStream, chainVars, orchVars, wsVars, bounds
<1>2. RowAdvances
  BY RowStays, FatalRow, Zenon DEF WriteEvent, PipelineInv
<1>3. \/ stored' = stored /\ checkpoint' = checkpoint
      \/ /\ stored' = stored \cup {t}
         /\ checkpoint' = [checkpoint EXCEPT !["realtime"] = TxSlot[t]]
  BY DEF WriteEvent, FailedWrite, WriteBlock, UpdateCheckpoint, dbVars
<1>4. TxSlot[t] \in Nat /\ 1 <= TxSlot[t] /\ TxSlot[t] <= MaxSlot /\ TxSlot[t] <= finalized
  BY <1>1, SlotTypes DEF PipelineInv, EventInv, Visible
<1>5. checkpoint \in [Stream -> 0..MaxSlot] /\ stored \subseteq Tx /\ MaxSlot \in Nat
  BY InvTypes
<1>6. /\ checkpoint' \in [Stream -> 0..MaxSlot] /\ stored' \subseteq Tx
      /\ \A s \in Stream : checkpoint'[s] = checkpoint[s]
                           \/ (s = "realtime" /\ checkpoint'[s] = TxSlot[t])
  BY <1>3, <1>4, <1>5
<1>7. TypeOK'
  <2>1. IngestTypeOK'
    BY <1>1, <1>2, <1>6, InvTypes, EnvironmentTypes, Zenon DEF IngestTypeOK, RowAdvances
  <2>2. st' \in St /\ event' \subseteq Tx
    BY <1>1, Zenon DEF PipelineInv, TypeOK, St
  <2> QED
    BY <1>1, <2>1, <2>2 DEF PipelineInv, TypeOK
<1>8. IndexIsFinal'
  BY <1>1, <1>3, <1>4, <1>6, Zenon DEF PipelineInv, IndexIsFinal
<1>9. EventInv'
  BY <1>1 DEF PipelineInv, EventInv, Visible
<1>10. TokenInv'
  BY <1>1, Zenon DEF PipelineInv, TokenInv, StreamCancelled, Shutdown, CleanExitMeansShutdown
<1>11. Outside
  <2>1. run # "init"
    BY <1>1 DEF PipelineInv, IdleInv
  <2>2. finalized \in Nat /\ stored \subseteq stored'
    BY <1>3, SlotTypes DEF PipelineInv
  <2>3. CheckpointsStay
    BY <1>4, <1>6 DEF CheckpointsStay
  <2>4. \A j \in Job : checkpoint'[j] = checkpoint[j]
    BY <1>6, Zenon DEF Job, Stream
  <2>5. finalized <= finalized'
    BY <1>1, <2>2
  <2>6. RunMoves
    BY <1>1, <2>1, Zenon DEF RunMoves
  <2> QED
    BY <1>1, <2>1, <2>2, <2>3, <2>4, <2>5, <2>6, Zenon DEF Outside
<1> QED
  BY <1>7, <1>8, <1>9, <1>10, <1>11, OutsideInv, Zenon

-----------------------------------------------------------------------------
(* The steps that start a job.                                             *)

\* What starting job j over lo..hi does to the two jobs: they have nothing in
\* flight yet, and only a job that did not fail at once has the new range.
StartEffect(j, lo, hi) ==
    /\ UNCHANGED <<finalized, stored, checkpoint, total, cancelled, unfetched, undrained>>
    /\ pc'[j] \in {"err", "ok", "chunk"}
    /\ IF pc'[j] = "err" THEN from'[j] = from[j] ELSE from'[j] = lo /\ to'[j] = hi
    /\ \A k \in Job \ {j} : UNCHANGED <<pc[k], from[k], to[k]>>
    /\ NoChunkInv'

\* The three ways a start ends have this effect.
LEMMA StartOrReturnEffect ==
    ASSUME IngestTypeOK, NoChunkInv, NEW j \in Job, NEW lo, NEW hi, StartOrReturn(j, lo, hi)
    PROVE  StartEffect(j, lo, hi)
<1>1. /\ DOMAIN pc = Job /\ DOMAIN from = Job /\ DOMAIN to = Job /\ DOMAIN held = Job
      /\ DOMAIN chan = Job
  BY JobDomains
<1>2. UNCHANGED <<finalized, stored, checkpoint, total, cancelled, unfetched, undrained>>
  BY Zenon DEF StartOrReturn, dbVars
<1>3. \/ /\ pc' = [pc EXCEPT ![j] = "err"] /\ UNCHANGED <<from, to, held, chan>>
      \/ /\ \/ pc' = [pc EXCEPT ![j] = "ok"] /\ UNCHANGED <<held, chan>>
            \/ /\ pc' = [pc EXCEPT ![j] = "chunk"]
               /\ held' = [held EXCEPT ![j] = 0] /\ chan' = [chan EXCEPT ![j] = <<>>]
         /\ from' = [from EXCEPT ![j] = lo] /\ to' = [to EXCEPT ![j] = hi]
  BY DEF StartOrReturn, FailEarly, ReturnEarly, SpawnWriter, wrVars
<1>4. /\ pc'[j] \in {"err", "ok", "chunk"}
      /\ IF pc'[j] = "err" THEN from'[j] = from[j] ELSE from'[j] = lo /\ to'[j] = hi
  BY <1>1, <1>3, Zenon
<1>5. \A k \in Job \ {j} : UNCHANGED <<pc[k], from[k], to[k]>>
  BY <1>1, <1>3, Zenon
<1>6. NoChunkInv'
  <2>1. ASSUME NEW k \in Job
        PROVE  /\ pc'[k] = pc[k] \/ pc'[k] \in {"err", "ok", "chunk"}
               /\ held'[k] = held[k] \/ held'[k] = 0
               /\ chan'[k] = chan[k] \/ chan'[k] = <<>>
    BY <1>1, <1>3, Zenon
  <2> QED
    BY <1>2, <2>1, Zenon DEF NoChunkInv
<1> QED
  BY <1>2, <1>4, <1>5, <1>6, Zenon DEF StartEffect

\* A mini-backfill disturbs nothing but the catch-up job.
LEMMA StartMiniBackfillInv ==
    ASSUME PipelineInv, StartMiniBackfill
    PROVE  PipelineInv'
<1>1. /\ st = "mini" /\ st' = "minirun"
      /\ UNCHANGED <<confirmed, run, plan, origin, wire, lastSeen, joinedAt, event, fails,
                     disconnectSlot, disconnects, restarts>>
  BY DEF StartMiniBackfill, orchVars, wsVars, bounds
<1>2. IngestInv'
  BY MiniBackfillInv DEF PipelineInv, TypeOK, StartMiniBackfill
<1>3. StartEffect("catchup", disconnectSlot + 1, finalized)
  <2>1. StartOrReturn("catchup", disconnectSlot + 1, finalized)
    BY DEF StartMiniBackfill, MiniBackfill, StartOrReturn
  <2> QED
    BY <2>1, StartOrReturnEffect, Zenon DEF PipelineInv, IngestInv, Job
<1>4. /\ UNCHANGED <<finalized, stored, checkpoint, cancelled, unfetched, undrained>>
      /\ UNCHANGED <<pc["backfill"], from["backfill"], to["backfill"]>>
      /\ NoChunkInv'
  BY <1>3, Zenon DEF StartEffect, Job
<1>5. TypeOK'
  <2>1. IngestTypeOK' /\ "minirun" \in St
    BY <1>2, Zenon DEF IngestInv, St
  <2> QED
    BY <1>1, <1>4, <2>1 DEF PipelineInv, TypeOK
<1>6. IndexIsFinal' /\ PlanInv' /\ EventInv' /\ TokenInv'
  BY <1>1, <1>4, Zenon DEF PipelineInv, IndexIsFinal, PlanInv, EventInv, TokenInv, StreamCancelled,
                    Shutdown, CleanExitMeansShutdown
<1>7. IdleInv'
  BY <1>1, <1>4, Zenon DEF PipelineInv, IdleInv
<1>8. OriginInv' /\ HoleInv'
  <2>1. OnlyAdds /\ CheckpointsStay
    <3>1. finalized \in Nat
      BY InvTypes
    <3> QED
      BY <1>4, <3>1 DEF OnlyAdds, CheckpointsStay
  <2>2. restarts \in Nat /\ restarts' = restarts
    BY <1>1, InvTypes
  <2>3. run = "start" => pc["backfill"] = "off"
    BY DEF PipelineInv, IdleInv
  <2>4. origin = 0 => run' \in {"init", "stream", "ok", "err"}
    BY <1>1 DEF PipelineInv, OriginInv
  <2> QED
    <3>1. TypeOK /\ IngestInv /\ OriginInv /\ HoleInv /\ PlanInv
      BY Zenon DEF PipelineInv
    <3>2. /\ restarts' \in Nat /\ restarts <= restarts'
          /\ from'["backfill"] = from["backfill"] /\ pc'["backfill"] = pc["backfill"]
          /\ checkpoint'["backfill"] = checkpoint["backfill"]
          /\ origin' = origin /\ plan' = plan /\ run' = run
      BY <1>1, <1>4, <2>2
    <3> QED
      BY <2>1, <2>2, <2>3, <2>4, <3>1, <3>2, OriginFrame, Zenon
<1> QED
  BY <1>2, <1>4, <1>5, <1>6, <1>7, <1>8, Zenon DEF PipelineInv

\* A backfill that run starts: the steps of run differ in the range only, and
\* the slots before it must be accounted for.
LEMMA BackfillStarts ==
    ASSUME PipelineInv, run \in {"start", "tail"}, run' \in {"backfill", "tailing"},
           NEW lo \in Nat, 1 <= lo, NEW hi \in 0..finalized, RunBackfill(lo, hi),
           plan' \in [lo : Nat, hi : 0..MaxSlot], 1 <= plan'.lo, plan'.hi = hi,
           UNCHANGED <<confirmed, origin, wsVars, streamVars, bounds>>,
           ChunkSize > 0 /\ Unskipped =>
               \A s \in Slot : origin <= s /\ s < EffectiveStart(lo) => Covered(s)
    PROVE  PipelineInv'
<1>1. UNCHANGED <<confirmed, origin, wire, lastSeen, joinedAt, st, event, fails, disconnectSlot,
                  disconnects, restarts>>
  BY DEF wsVars, streamVars, bounds
<1>2. IngestInv'
  BY RunBackfillInv DEF PipelineInv
<1>3. StartEffect("backfill", EffectiveStart(lo), hi)
  <2>1. StartOrReturn("backfill", EffectiveStart(lo), hi)
    BY DEF RunBackfill, StartOrReturn
  <2> QED
    BY <2>1, StartOrReturnEffect, Zenon DEF PipelineInv, IngestInv, Job
<1>4. /\ UNCHANGED <<finalized, stored, checkpoint, cancelled, unfetched, undrained>>
      /\ IF pc'["backfill"] = "err" THEN from'["backfill"] = from["backfill"]
         ELSE from'["backfill"] = EffectiveStart(lo) /\ to'["backfill"] = hi
      /\ NoChunkInv'
  BY <1>3, Zenon DEF StartEffect
<1>5. TypeOK'
  <2>1. IngestTypeOK' /\ run' \in Run
    BY <1>2, Zenon DEF IngestInv, Run
  <2> QED
    BY <1>1, <1>4, <2>1, Zenon DEF PipelineInv, TypeOK
<1>6. IndexIsFinal' /\ EventInv' /\ TokenInv'
  BY <1>1, <1>4, Zenon DEF PipelineInv, IndexIsFinal, EventInv, TokenInv, StreamCancelled, Shutdown,
                    Visible, CleanExitMeansShutdown
<1>7. PlanInv'
  <2>1. hi <= finalized'
    <3>1. finalized \in Nat
      BY InvTypes
    <3> QED
      BY <1>4, <3>1
  <2> QED
    BY <1>4, <2>1, Zenon DEF PlanInv
<1>8. IdleInv'
  BY Zenon DEF IdleInv
<1>9. OriginInv'
  <2>1. Unskipped' => Unskipped
    BY <1>1, <1>4 DEF Unskipped
  <2> QED
    BY <1>1, <2>1, Zenon DEF PipelineInv, OriginInv
<1>10. HoleInv'
  <2>1. Unskipped' => Unskipped
    BY <1>1, <1>4 DEF Unskipped
  <2>2. \A s : Covered(s) => Covered(s)'
    BY <1>4, CoveredMonotone, ZenonT(60)
  <2>3. ASSUME ChunkSize > 0, Unskipped, NEW s \in Slot, origin <= s, s < from'["backfill"]
        PROVE  Covered(s)
    BY <1>4, <2>3 DEF PipelineInv, HoleInv
  <2> QED
    BY <1>1, <2>1, <2>2, <2>3, Zenon DEF HoleInv
<1> QED
  BY <1>2, <1>4, <1>5, <1>6, <1>7, <1>8, <1>9, <1>10, ZenonT(60) DEF PipelineInv

\* Where the backfill is, in numbers.
LEMMA BackfillTypes ==
    ASSUME PipelineInv
    PROVE  /\ AccountInv("backfill") /\ from["backfill"] \in Nat
           /\ checkpoint["backfill"] \in Nat /\ origin \in Nat
           /\ \A s \in Slot : s \in Nat
<1>1. TypeOK /\ IngestInv /\ "backfill" \in Job
  BY DEF PipelineInv, Job
<1>2. IngestTypeOK /\ JobInv("backfill")
  BY <1>1, Zenon DEF IngestInv
<1>3. AccountInv("backfill")
  BY <1>2, Zenon DEF JobInv
<1>4. from["backfill"] \in Nat /\ checkpoint["backfill"] \in Nat
  BY <1>1, <1>2, JobTypes, Zenon
<1>5. origin \in Nat
  BY <1>1 DEF TypeOK
<1>6. \A s \in Slot : s \in Nat
  BY IngestAssumption DEF Slot, IngestAssumption
<1> QED
  BY <1>3, <1>4, <1>5, <1>6, Zenon

\* Below the backfill's checkpoint everything since the first backfill is
\* accounted for: before the range of the last backfill, and in it.
LEMMA BelowCheckpoint ==
    ASSUME PipelineInv, ChunkSize > 0, Unskipped, NEW s \in Slot,
           origin <= s, s <= checkpoint["backfill"]
    PROVE  Covered(s)
<1>1. AccountInv("backfill") /\ from["backfill"] \in Nat /\ s \in Nat
  BY BackfillTypes
<1>2. CASE s < from["backfill"]
  BY <1>2, Zenon DEF PipelineInv, HoleInv
<1>3. CASE from["backfill"] <= s
  BY <1>1, <1>3, Zenon DEF AccountInv
<1> QED
  BY <1>1, <1>2, <1>3

\* The first backfill of a process begins at start_slot or after the checkpoint.
LEMMA StartBackfillInv ==
    ASSUME PipelineInv, StartBackfill
    PROVE  PipelineInv'
<1>1. /\ run = "start" /\ run' = "backfill" /\ plan' = plan /\ RunBackfill(plan.lo, plan.hi)
      /\ UNCHANGED <<confirmed, origin, wsVars, streamVars, bounds>>
  BY DEF StartBackfill
<1>2. /\ plan \in [lo : Nat, hi : 0..MaxSlot] /\ 1 <= plan.lo /\ plan.lo \in Nat
      /\ plan.hi \in 0..finalized
  <2>1. plan \in [lo : Nat, hi : 0..MaxSlot] /\ TypeOK
    BY DEF PipelineInv, TypeOK
  <2>2. 1 <= plan.lo /\ plan.hi <= finalized
    BY DEF PipelineInv, PlanInv
  <2> QED
    BY <2>1, <2>2, SlotTypes
<1>3. ASSUME ChunkSize > 0, Unskipped, NEW s \in Slot, origin <= s, s < EffectiveStart(plan.lo)
      PROVE  Covered(s)
  <2>1. plan.lo = IF checkpoint["backfill"] = 0 THEN origin ELSE checkpoint["backfill"] + 1
    BY <1>1, <1>3 DEF PipelineInv, OriginInv
  <2>2. checkpoint["backfill"] \in Nat /\ origin \in Nat /\ s \in Nat
    BY BackfillTypes
  <2>3. s <= checkpoint["backfill"]
    BY <1>3, <2>1, <2>2 DEF EffectiveStart, Larger
  <2> QED
    BY <1>3, <2>3, BelowCheckpoint, Zenon
<1> QED
  BY <1>1, <1>2, <1>3, BackfillStarts, Zenon

\* The tail begins after the first backfill, whose range is accounted for, or
\* after a checkpoint beyond it.
LEMMA TailBackfillInv ==
    ASSUME PipelineInv, TailBackfill
    PROVE  PipelineInv'
<1>1. run = "tail" /\ UNCHANGED <<confirmed, origin, wsVars, streamVars, bounds>>
  BY DEF TailBackfill
<1>2. CASE run' = "join" /\ UNCHANGED <<ingestVars, plan>>
  BY <1>1, <1>2, TailOverInv
<1>3. CASE /\ finalized > plan.hi /\ RunBackfill(plan.hi + 1, finalized)
           /\ plan' = [lo |-> plan.hi + 1, hi |-> finalized] /\ run' = "tailing"
  <2>1. plan.hi \in Nat /\ finalized \in 0..finalized /\ finalized \in 0..MaxSlot
    BY InvTypes
  <2>2. /\ plan.hi + 1 \in Nat /\ 1 <= plan.hi + 1 /\ plan' \in [lo : Nat, hi : 0..MaxSlot]
        /\ 1 <= plan'.lo /\ plan'.hi = finalized
    BY <1>3, <2>1
  <2>3. ASSUME ChunkSize > 0, Unskipped, NEW s \in Slot, origin <= s,
               s < EffectiveStart(plan.hi + 1)
        PROVE  Covered(s)
    <3>1. checkpoint["backfill"] \in Nat /\ from["backfill"] \in Nat /\ s \in Nat
      BY BackfillTypes
    <3>2. CASE s <= checkpoint["backfill"]
      BY <2>3, <3>2, BelowCheckpoint, Zenon
    <3>3. CASE s < from["backfill"]
      BY <2>3, <3>3, Zenon DEF PipelineInv, HoleInv
    <3>4. CASE s \in from["backfill"]..plan.hi
      BY <1>1, <2>3, <3>4, Zenon DEF PipelineInv, HoleInv
    <3>5. s <= checkpoint["backfill"] \/ s <= plan.hi
      BY <2>1, <2>3, <3>1 DEF EffectiveStart, Larger
    <3> QED
      BY <2>1, <3>1, <3>2, <3>3, <3>4, <3>5
  <2>4. run \in {"start", "tail"} /\ run' \in {"backfill", "tailing"}
    BY <1>1, <1>3, Zenon
  <2> QED
    BY <1>1, <1>3, <2>1, <2>2, <2>3, <2>4, BackfillStarts, ZenonT(60)
<1> QED
  BY <1>2, <1>3, Zenon DEF TailBackfill

-----------------------------------------------------------------------------
(* Cold start and restart.                                                 *)

\* The range decide_initial_state asks for, for any checkpoint, tip and start_slot.
LEMMA DecidedRange ==
    ASSUME NEW last \in Nat, NEW tip \in Nat, NEW start \in Nat,
           DecideInitialState(last, tip, start).kind = "backfill"
    PROVE  /\ DecideInitialState(last, tip, start).lo = IF last = 0 THEN start ELSE last + 1
           /\ DecideInitialState(last, tip, start).hi = tip
           /\ last = 0 => start # 0
<1>1. CASE last = 0 /\ start # 0 /\ ~(start > tip + 1) /\ start < tip
  <2>1. DecideInitialState(last, tip, start) = Backfill(start, tip)
    BY <1>1, Zenon DEF DecideInitialState
  <2> QED
    BY <1>1, <2>1 DEF Backfill
<1>2. CASE last # 0 /\ ~(last > tip + 1) /\ last < tip
  <2>1. DecideInitialState(last, tip, start) = Backfill(last + 1, tip)
    BY <1>2, Zenon DEF DecideInitialState
  <2> QED
    BY <1>2, <2>1 DEF Backfill
<1>3. CASE last = 0 /\ (start = 0 \/ start > tip + 1 \/ ~(start < tip))
  <2>1. DecideInitialState(last, tip, start) \in {NoBackfill("stream"), NoBackfill("fatal")}
    BY <1>3 DEF DecideInitialState
  <2> QED
    BY <2>1 DEF NoBackfill
<1>4. CASE last # 0 /\ (last > tip + 1 \/ ~(last < tip))
  <2>1. DecideInitialState(last, tip, start) \in {NoBackfill("stream"), NoBackfill("fatal")}
    BY <1>4 DEF DecideInitialState
  <2> QED
    BY <2>1 DEF NoBackfill
<1> QED
  BY <1>1, <1>2, <1>3, <1>4, ZenonT(60)

\* Unless a checkpoint of the stream or of a catch-up is there, the cold start
\* begins at start_slot or after the backfill's checkpoint.
LEMMA PlannedBackfill ==
    ASSUME PipelineInv, run = "init", NEW initial,
           initial = DecideInitialState(LastSlot, finalized, StartSlot), initial.kind = "backfill"
    PROVE  /\ initial.lo \in Nat /\ 1 <= initial.lo /\ initial.hi = finalized
           /\ restarts = 0 \/ (checkpoint["realtime"] = 0 /\ checkpoint["catchup"] = 0) =>
                initial.lo = IF checkpoint["backfill"] = 0 THEN StartSlot
                             ELSE checkpoint["backfill"] + 1
<1>1. /\ checkpoint["backfill"] \in Nat /\ checkpoint["realtime"] \in Nat
      /\ checkpoint["catchup"] \in Nat /\ finalized \in Nat /\ StartSlot \in Nat
  BY SlotTypes, PipelineAssumption, Zenon DEF PipelineInv, Stream, Job, PipelineAssumption
<1>2. LastSlot \in Nat
  BY <1>1, Zenon DEF LastSlot, Larger
<1>3. /\ initial.lo = (IF LastSlot = 0 THEN StartSlot ELSE LastSlot + 1)
      /\ initial.hi = finalized /\ (LastSlot = 0 => StartSlot # 0)
  BY <1>1, <1>2, DecidedRange
<1>4. initial.lo \in Nat /\ 1 <= initial.lo
  BY <1>1, <1>2, <1>3
<1>5. restarts = 0 => checkpoint["realtime"] = 0 /\ checkpoint["catchup"] = 0
  BY DEF PipelineInv, IdleInv, Stream, Job
<1>6. checkpoint["realtime"] = 0 /\ checkpoint["catchup"] = 0 => LastSlot = checkpoint["backfill"]
  BY <1>1 DEF LastSlot, Larger
<1> QED
  BY <1>3, <1>4, <1>5, <1>6, Zenon

\* run decides between an early exit, the stream alone and a backfill next to it.
LEMMA DetermineInv ==
    ASSUME PipelineInv, DetermineInitialState
    PROVE  PipelineInv'
<1>1. /\ run = "init" /\ st = "off" /\ pc["backfill"] = "off"
      /\ UNCHANGED <<ingestVars, confirmed, wsVars, event, fails, disconnectSlot, bounds>>
  BY Zenon DEF DetermineInitialState, PipelineInv, IdleInv
<1>2. UNCHANGED <<finalized, confirmed, stored, checkpoint, status, lastProcessed, total, cancelled,
                  pc, from, to, held, chan, unfetched, undrained, wire, lastSeen, joinedAt, event,
                  fails, disconnectSlot, disconnects, restarts>>
  BY <1>1 DEF ingestVars, dbVars, rowVars, prodVars, wrVars, wsVars, bounds
<1>3. TokenInv => ~StreamCancelled \/ Shutdown
  BY <1>1, Zenon DEF TokenInv
<1>4. CASE /\ run' \in {"ok", "err", "stream"} /\ st' \in {"off", "connect"}
           /\ run' = "ok" => Shutdown
           /\ UNCHANGED <<plan, origin>>
  <2>1. UNCHANGED <<chainVars, dbVars, rowVars, total, jobVars>>
    BY <1>1, Zenon DEF ingestVars, chainVars, jobVars
  <2>2. run' \in Run /\ st' \in St /\ cancelled \in [Job -> BOOLEAN]
    BY <1>4 DEF PipelineInv, TypeOK, IngestTypeOK, Run, St
  <2>3. RunMoves
    BY <1>1, <1>4, ZenonT(60) DEF RunMoves
  <2>4. TokenInv'
    BY <1>2, <1>3, <1>4, Zenon DEF PipelineInv, TokenInv, StreamCancelled, Shutdown,
                            CleanExitMeansShutdown
  <2>5. st' = st \/ st' = "connect"
    BY <1>1, <1>4
  <2> QED
    BY <1>1, <1>2, <1>4, <2>1, <2>2, <2>3, <2>4, <2>5, ControlInv, Zenon
<1>5. ASSUME NEW initial, initial = DecideInitialState(LastSlot, finalized, StartSlot),
             initial.kind = "backfill", run' = "start", st' = "connect",
             plan' = [lo |-> initial.lo, hi |-> initial.hi],
             origin' = IF origin = 0 THEN initial.lo ELSE origin
      PROVE  PipelineInv'
  <2>1. /\ initial.lo \in Nat /\ 1 <= initial.lo /\ initial.hi = finalized
        /\ Unskipped' => initial.lo = IF checkpoint["backfill"] = 0 THEN StartSlot
                                      ELSE checkpoint["backfill"] + 1
    BY <1>1, <1>2, <1>5, PlannedBackfill, Zenon DEF Unskipped
  <2>2. plan'.lo = initial.lo /\ plan'.hi = finalized
    BY <1>5, <2>1, Zenon
  <2>3. origin' \in Nat /\ origin' # 0
    <3>1. origin \in Nat
      BY InvTypes
    <3> QED
      BY <1>5, <2>1, <3>1
  <2>4. finalized \in Nat /\ finalized \in 0..MaxSlot
    BY InvTypes
  <2>5. IngestInv' /\ IngestTypeOK'
    <3>1. UNCHANGED <<jobVars, total, finalized, stored, checkpoint, status, lastProcessed, cancelled>>
      BY <1>1, <1>2 DEF ingestVars, jobVars
    <3>2. IngestTypeOK'
      BY <3>1, InvTypes, EnvironmentTypes, Zenon DEF IngestTypeOK
    <3>3. IngestInv
      BY InvTypes, Zenon
    <3> QED
      <4>0. finalized' = finalized
        BY <3>1, Zenon
      <4>1. finalized <= finalized'
        BY <2>4, <4>0
      <4> QED
        BY <3>1, <3>2, <3>3, <4>1, EnvironmentInv, Zenon
  <2>6. TypeOK'
    <3>1. run' \in Run /\ st' \in St /\ plan' \in [lo : Nat, hi : 0..MaxSlot]
      BY <1>5, <2>1, <2>4, Zenon DEF Run, St
    <3> QED
      BY <1>2, <2>3, <2>5, <3>1, Zenon DEF PipelineInv, TypeOK
  <2>7. IndexIsFinal' /\ EventInv' /\ TokenInv' /\ NoChunkInv'
    BY <1>2, <1>3, <1>5, Zenon DEF PipelineInv, IndexIsFinal, EventInv, TokenInv, NoChunkInv,
                            StreamCancelled, Shutdown, CleanExitMeansShutdown
  <2>8. PlanInv' /\ IdleInv'
    <3>1. PlanInv'
      <4>1. finalized' = finalized /\ run' = "start"
        BY <1>2, <1>5, Zenon
      <4>2. 1 <= plan'.lo
        BY <2>1, <2>2, Zenon
      <4>3. plan'.hi <= finalized'
        BY <2>2, <2>4, <4>1
      <4> QED
        BY <4>1, <4>2, <4>3 DEF PlanInv
    <3>2. IdleInv'
      BY <1>1, <1>2, <1>5 DEF IdleInv
    <3> QED
      BY <3>1, <3>2, Zenon
  <2>9. Unskipped' => origin' = StartSlot
    <3>1. CASE origin = 0
      BY <1>5, <2>1, <3>1, ZenonT(60) DEF PipelineInv, OriginInv
    <3>2. CASE origin # 0
      BY <1>2, <1>5, <3>2 DEF PipelineInv, OriginInv, Unskipped
    <3> QED
      BY <3>1, <3>2, Zenon
  <2>10. OriginInv'
    BY <1>2, <2>1, <2>2, <2>3, <2>9, Zenon DEF OriginInv
  <2>11. HoleInv'
    <3>1. \A s : Covered(s) => Covered(s)'
      BY <1>2, CoveredMonotone
    <3>2. ASSUME ChunkSize > 0, Unskipped', NEW s \in Slot, origin' <= s, s < from["backfill"]
          PROVE  Covered(s)
      <4>1. CASE origin = 0
        <5>1. s \in Nat /\ 1 <= s
          BY IngestAssumption DEF Slot, IngestAssumption
        <5> QED
          BY <3>2, <4>1, <5>1 DEF PipelineInv, OriginInv
      <4>2. CASE origin # 0
        BY <1>2, <1>5, <3>2, <4>2, Zenon DEF PipelineInv, HoleInv, Unskipped
      <4> QED
        BY <4>1, <4>2, Zenon
    <3> QED
      BY <1>2, <1>5, <3>1, <3>2, Zenon DEF HoleInv
  <2> QED
    BY <2>5, <2>6, <2>7, <2>8, <2>10, <2>11, Zenon DEF PipelineInv
<1> QED
  BY <1>1, <1>4, <1>5, ZenonT(60) DEF DetermineInitialState

\* A restart leaves the tables, the chain and the history.
LEMMA RestartInv ==
    ASSUME PipelineInv, Restart
    PROVE  PipelineInv'
<1>1. /\ run' = "init" /\ st' = "off" /\ plan' = [lo |-> 1, hi |-> 0] /\ event' = {}
      /\ wire' = {} /\ lastSeen' = 0 /\ joinedAt' = 0 /\ fails' = 0 /\ disconnectSlot' = 0
      /\ UNCHANGED <<finalized, confirmed, origin, disconnects>>
      /\ restarts' = restarts + 1 /\ restarts < MaxRestarts /\ LoseMemory
  BY Zenon DEF Restart, chainVars
<1>2. UNCHANGED <<stored, checkpoint, unfetched, undrained>>
  BY <1>1, Zenon DEF LoseMemory, dbVars
<1>3. /\ \A j \in Job : pc'[j] = "off" /\ held'[j] = 0 /\ chan'[j] = <<>> /\ ~cancelled'[j]
      /\ from'["backfill"] = from["backfill"]
  <2>1. DOMAIN from = Job
    BY JobDomains DEF PipelineInv, IngestInv
  <2> QED
    BY <1>1, <2>1, Zenon DEF LoseMemory, Job
<1>4. "backfill" \in Job /\ "catchup" \in Job /\ Job \subseteq Stream
  BY DEF Job, Stream
<1>5. IngestInv'
  BY <1>1, LoseMemoryInv, Zenon DEF PipelineInv
<1>6. restarts \in Nat /\ restarts' \in 0..MaxRestarts /\ restarts' # 0
  BY <1>1, PipelineAssumption DEF PipelineInv, TypeOK, PipelineAssumption
<1>7. finalized \in Nat /\ 0 \in 0..MaxSlot /\ MaxFetchFailures \in Nat
  BY SlotTypes, PipelineAssumption DEF PipelineInv, PipelineAssumption
<1>8. TypeOK'
  <2>1. IngestTypeOK' /\ run' \in Run /\ st' \in St
    BY <1>1, <1>5, Zenon DEF IngestInv, Run, St
  <2>2. plan' \in [lo : Nat, hi : 0..MaxSlot] /\ fails' \in 0..MaxFetchFailures
    BY <1>1, <1>7
  <2>3. confirmed' \in finalized'..MaxSlot /\ origin' \in Nat /\ disconnects' \in 0..MaxDisconnects
    BY <1>1 DEF PipelineInv, TypeOK
  <2>4. lastSeen' \in 0..MaxSlot /\ joinedAt' \in 0..MaxSlot /\ disconnectSlot' \in 0..MaxSlot
    BY <1>1, <1>7, Zenon
  <2> QED
    BY <1>1, <1>6, <2>1, <2>2, <2>3, <2>4, Zenon DEF TypeOK
<1>9. IndexIsFinal' /\ EventInv'
  BY <1>1, <1>2 DEF PipelineInv, IndexIsFinal, EventInv
<1>10. TokenInv'
  BY <1>1, <1>3, <1>4, ZenonT(60) DEF TokenInv, StreamCancelled, Shutdown, CleanExitMeansShutdown
<1>11. PlanInv'
  BY <1>1, <1>7 DEF PlanInv
<1>12. IdleInv' /\ NoChunkInv'
  BY <1>1, <1>2, <1>3, <1>4, <1>6, ZenonT(60) DEF PipelineInv, IdleInv, NoChunkInv
<1>13. Unskipped' => Unskipped
  BY <1>1, <1>2, <1>6, Zenon DEF Unskipped
<1>14. OriginInv'
  BY <1>1, <1>2, <1>3, <1>4, <1>13, Zenon DEF PipelineInv, OriginInv
<1>15. HoleInv'
  <2>1. \A s : Covered(s) => Covered(s)'
    BY <1>2, CoveredMonotone
  <2> QED
    BY <1>1, <1>3, <1>13, <2>1, Zenon DEF PipelineInv, HoleInv
<1> QED
  BY <1>5, <1>8, <1>9, <1>10, <1>11, <1>12, <1>14, <1>15, Zenon DEF PipelineInv

\* Nothing is indexed and nothing runs at first.
LEMMA InitInv == Init => PipelineInv
<1> SUFFICES ASSUME Init PROVE PipelineInv
  BY Zenon
<1>1. IngestInv /\ IngestInit
  BY IngestInitInv DEF Init
<1>2. /\ MaxSlot \in Nat /\ MaxFetchFailures \in Nat /\ MaxDisconnects \in Nat
      /\ MaxRestarts \in Nat /\ StartSlot \in Nat /\ finalized \in 0..MaxSlot
  BY <1>1, IngestAssumption, PipelineAssumption, Zenon
  DEF IngestAssumption, PipelineAssumption, IngestInit
<1>3. /\ run = "init" /\ st = "off" /\ plan = [lo |-> 1, hi |-> 0] /\ origin = 0 /\ event = {}
      /\ restarts = 0
  BY Zenon DEF Init
<1>4. /\ \A s \in Stream : checkpoint[s] = 0
      /\ \A j \in Job : /\ pc[j] = "off" /\ held[j] = 0 /\ chan[j] = <<>> /\ from[j] = 1
                         /\ ~cancelled[j] /\ checkpoint[j] = 0
      /\ stored = {}
  BY <1>1 DEF IngestInit, Stream
<1>5. "backfill" \in Job /\ "catchup" \in Job
  BY DEF Job
<1>6. TypeOK
  <2>1. IngestTypeOK /\ run \in Run /\ st \in St
    BY <1>1, <1>3, Zenon DEF IngestInv, Run, St
  <2>2. plan \in [lo : Nat, hi : 0..MaxSlot] /\ origin \in Nat
    BY <1>2, <1>3
  <2>3. /\ confirmed \in finalized..MaxSlot /\ wire \subseteq Tx /\ event \subseteq Tx
        /\ lastSeen \in 0..MaxSlot /\ joinedAt \in 0..MaxSlot /\ disconnectSlot \in 0..MaxSlot
        /\ fails \in 0..MaxFetchFailures /\ disconnects \in 0..MaxDisconnects
        /\ restarts \in 0..MaxRestarts
    BY <1>2 DEF Init
  <2> QED
    BY <2>1, <2>2, <2>3, ZenonT(60) DEF TypeOK
<1>7. IndexIsFinal
  <2>1. 0 <= finalized
    BY <1>2
  <2> QED
    BY <1>4, <2>1, Zenon DEF IndexIsFinal
<1>8. PlanInv /\ EventInv
  BY <1>2, <1>3 DEF PlanInv, EventInv
<1>9. TokenInv
  BY <1>3, <1>4, <1>5, Zenon DEF TokenInv, StreamCancelled, CleanExitMeansShutdown
<1>10. IdleInv /\ NoChunkInv
  BY <1>3, <1>4, <1>5, Zenon DEF IdleInv, NoChunkInv
<1>11. OriginInv
  BY <1>3, <1>4, <1>5, Zenon DEF OriginInv, Unskipped
<1>12. HoleInv
  BY <1>3 DEF HoleInv, Unskipped
<1> QED
  BY <1>1, <1>6, <1>7, <1>8, <1>9, <1>10, <1>11, <1>12, Zenon DEF PipelineInv

-----------------------------------------------------------------------------
(* The results.                                                            *)

\* Every step of the pipeline, one of the cases above, keeps the invariant.
LEMMA NextInv ==
    ASSUME PipelineInv, [Next]_pipelineVars
    PROVE  PipelineInv'
<1>1. CASE OrchestratorStep
  <2>1. CASE TailReturned
    BY <2>1, TailOverInv DEF TailReturned
  <2> QED
    BY <1>1, <2>1, DetermineInv, StartBackfillInv, BackfillReturnedInv, TailBackfillInv,
       JoinStreamInv, ZenonT(60)
    DEF OrchestratorStep
<1>2. CASE StreamStep \/ Disconnect
  BY <1>2, QuietStreamInv, WriteEventInv, StartMiniBackfillInv, Zenon DEF StreamStep, QuietStreamStep
<1>3. CASE JobProgress \/ Confirm \/ FinalizeSlot \/ Signal \/ Restart
  BY <1>3, JobProgressInv, ConfirmInv, FinalizeSlotInv, SignalInv, RestartInv, Zenon
<1> QED
  BY <1>1, <1>2, <1>3, StutterInv, Zenon DEF Next

\* The invariant of the pipeline holds in every reachable state.
THEOREM PipelineInvariant == Spec => []PipelineInv
<1>1. Init => PipelineInv
  BY InitInv
<1>2. PipelineInv /\ [Next]_pipelineVars => PipelineInv'
  BY NextInv
<1> QED
  BY <1>1, <1>2, PTL DEF Spec

\* The variables of the pipeline keep their types.
THEOREM PipelineTypes == Spec => []TypeOK
<1>1. PipelineInv => TypeOK
  BY Zenon DEF PipelineInv
<1> QED
  BY <1>1, PipelineInvariant, PTL

\* Three concurrent writers index finalized transactions only, and no checkpoint
\* overtakes the finalized tip, so that a restart that asks a node which does not
\* lag never meets the "checkpoint ahead of chain tip" error.
THEOREM OnlyFinalIsIndexed == Spec => []IndexIsFinal
<1>1. PipelineInv => IndexIsFinal
  BY DEF PipelineInv
<1> QED
  BY <1>1, PipelineInvariant, PTL

\* run returns Ok only after a shutdown was requested, although a failed backfill
\* and the end of run cancel the stream's token too.
THEOREM CleanExits == Spec => []CleanExitMeansShutdown
<1>1. PipelineInv => CleanExitMeansShutdown
  BY Zenon DEF PipelineInv, TokenInv
<1> QED
  BY <1>1, PipelineInvariant, PTL

\* Any number of crashes and restarts of a pipeline whose stream has written
\* nothing leaves no hole up to the backfill's checkpoint.
THEOREM NoHoleAfterRestarts == Spec => []RestartsLeaveNoHole
<1>1. PipelineInv => RestartsLeaveNoHole
  <2> SUFFICES ASSUME PipelineInv, origin # 0, checkpoint["realtime"] = 0,
                      checkpoint["catchup"] = 0, NEW s \in Slot, origin <= s,
                      s <= checkpoint["backfill"]
               PROVE  Covered(s)
    BY DEF RestartsLeaveNoHole
  <2>1. ChunkSize \in Nat /\ s \in Nat /\ 1 <= s
    BY IngestAssumption DEF IngestAssumption, Slot
  <2>2. ChunkSize # 0
    BY <2>1 DEF PipelineInv, NoChunkInv, Job
  <2>3. ChunkSize > 0
    BY <2>1, <2>2
  <2> QED
    BY <2>3, BelowCheckpoint, Zenon DEF Unskipped
<1> QED
  BY <1>1, PipelineInvariant, PTL

\* A backfill and a tail that went well hand over to the stream with every slot
\* from start_slot to the tail's end accounted for.
THEOREM HandoverIsComplete == Spec => []HandoverCovers
<1>1. PipelineInv => HandoverCovers
  <2> SUFFICES ASSUME PipelineInv, run = "join", pc["backfill"] = "ok", ~Shutdown, restarts = 0,
                      ChunkSize > 0, NEW s \in origin..plan.hi
               PROVE  Covered(s)
    BY Zenon DEF HandoverCovers
  <2>1. origin # 0 /\ origin \in Nat /\ plan.hi \in 0..MaxSlot
    BY Zenon DEF PipelineInv, OriginInv, TypeOK
  <2>2. MaxSlot \in Nat /\ from["backfill"] \in Nat
    BY JobTypes DEF PipelineInv, IngestInv, Job
  <2>3. s \in Slot /\ s \in Nat /\ origin <= s /\ s <= plan.hi
    BY <2>1, <2>2 DEF Slot
  <2>4. CASE s < from["backfill"]
    BY <2>1, <2>3, <2>4, Zenon DEF PipelineInv, HoleInv, Unskipped
  <2>5. CASE from["backfill"] <= s
    <3>1. OkCovered("backfill") /\ to["backfill"] = plan.hi
      BY Zenon DEF PipelineInv, PlanInv, IngestInv, JobInv, AccountInv, Job
    <3>2. s \in from["backfill"]..to["backfill"]
      BY <2>1, <2>2, <2>3, <2>5, <3>1
    <3> QED
      BY <3>1, <3>2, Zenon DEF OkCovered, Shutdown
  <2> QED
    BY <2>2, <2>3, <2>4, <2>5
<1> QED
  BY <1>1, PipelineInvariant, PTL

\* What Ingest promises of its jobs also holds next to the stream and across
\* restarts: backed checkpoints, an indexed prefix, Ok only for a covered range.
THEOREM JobsKeepTheirPromises ==
    Spec => [](CheckpointBacked /\ BackfillPrefixIndexed /\ OkMeansCovered)
<1>1. PipelineInv => CheckpointBacked /\ BackfillPrefixIndexed /\ OkMeansCovered
  BY Zenon DEF PipelineInv, IngestInv, JobInv, AccountInv, CheckpointBacked, BackfillPrefixIndexed,
         OkMeansCovered, Job
<1> QED
  BY <1>1, PipelineInvariant, PTL

\* A backfill writes the slot it begins at, which its range contains.
LEMMA RunBackfillRow ==
    ASSUME TypeOK, NEW lo \in Nat, NEW hi \in 0..MaxSlot, RunBackfill(lo, hi)
    PROVE  RowAdvances
<1>1. PICK e \in Nat : e = EffectiveStart(lo)
  BY SlotTypes DEF EffectiveStart, Larger, Stream, Job
<1>2. \/ UNCHANGED rowVars
      \/ e <= hi /\ TryUpdateIndexerState("backfilling", e)
  BY <1>1, Zenon DEF RunBackfill, ReturnEarly, TryUpdateIndexerState
<1>3. e <= hi => e \in 0..MaxSlot
  BY <1>1, SlotTypes
<1>4. "backfilling" \in Status
  BY DEF Status
<1> QED
  BY <1>2, <1>3, <1>4, RowStays, UpdateAdvances, ZenonT(60) DEF RowAdvances

\* last_processed_slot is written by the backfill, the catch-up and the stream in
\* any order, and never moves back.
THEOREM CursorOnlyAdvances == Spec => CursorNeverRewinds
<1>1. PipelineInv /\ [Next]_pipelineVars => [lastProcessed' >= lastProcessed]_pipelineVars
  <2> SUFFICES ASSUME PipelineInv, Next
               PROVE  RowAdvances
    BY DEF RowAdvances
  <2>1. TypeOK /\ EventInv
    BY Zenon DEF PipelineInv
  <2>2. plan.lo \in Nat /\ plan.hi \in Nat /\ plan.hi \in 0..MaxSlot /\ finalized \in 0..MaxSlot
    BY <2>1, SlotTypes DEF TypeOK
  <2>3. CASE StartBackfill
    BY <2>1, <2>2, <2>3, RunBackfillRow, Zenon DEF StartBackfill
  <2>4. CASE TailBackfill
    <3>1. RunBackfill(plan.hi + 1, finalized) \/ UNCHANGED ingestVars
      BY <2>4 DEF TailBackfill
    <3> QED
      BY <2>1, <2>2, <3>1, RunBackfillRow, RowStays DEF ingestVars
  <2>5. CASE DetermineInitialState \/ BackfillReturned \/ TailReturned \/ JoinStream \/ Confirm
             \/ FinalizeSlot \/ Signal \/ Restart
    <3>1. UNCHANGED rowVars
      BY <2>5, Zenon DEF DetermineInitialState, BackfillReturned, TailReturned, JoinStream, Confirm,
                  FinalizeSlot, Finalize, Signal, Restart, LoseMemory, ingestVars
    <3> QED
      BY <2>1, <3>1, RowStays
  <2>6. CASE QuietStreamStep
    BY <2>1, <2>6, QuietSteps, Zenon DEF StreamSteps
  <2>7. ASSUME NEW t \in Tx, WriteEvent(t)
        PROVE  RowAdvances
    BY <2>1, <2>7, RowStays, FatalRow, Zenon DEF WriteEvent
  <2>8. CASE StartMiniBackfill
    <3>1. UNCHANGED rowVars
      BY <2>8, Zenon DEF StartMiniBackfill, MiniBackfill, ReturnEarly
    <3> QED
      BY <2>1, <3>1, RowStays
  <2>9. CASE JobProgress
    BY <2>1, <2>9, JobRow, Zenon DEF JobProgress
  <2> QED
    BY <2>3, <2>4, <2>5, <2>6, <2>7, <2>8, <2>9, Zenon
    DEF Next, OrchestratorStep, StreamStep, QuietStreamStep
<1> QED
  BY <1>1, PipelineInvariant, PTL DEF Spec, CursorNeverRewinds

\* The rows total_instructions counts are in the table also next to the stream,
\* which writes rows that are then no new ones for the writers of the jobs.
THEOREM CountersStayBacked == Spec => []CountedRowsExist
<1>1. Init => CountedRowsExist
  <2>1. Init => total = 0 /\ written = [j \in Job |-> 0] /\ stored = {}
    BY Zenon DEF Init, IngestInit
  <2>2. "backfill" \in Job /\ "catchup" \in Job /\ Cardinality({}) = 0
    BY FS_EmptySet DEF Job
  <2> QED
    BY <2>1, <2>2 DEF CountedRowsExist
<1>2. /\ CountedRowsExist /\ PipelineInv /\ PipelineInv' /\ [Next]_pipelineVars
      => CountedRowsExist'
  <2> SUFFICES ASSUME CountedRowsExist, PipelineInv, PipelineInv', [Next]_pipelineVars
               PROVE  CountedRowsExist'
    BY Zenon
  <2>1. IngestTypeOK /\ IngestTypeOK'
    BY Zenon DEF PipelineInv, IngestInv
  <2>2. CASE JobProgress
    BY <2>1, <2>2, JobStepCounts DEF JobProgress
  <2>3. CASE \/ StartBackfill \/ StartMiniBackfill
             \/ \E lo, hi : RunBackfill(lo, hi)
    <3>1. (\E lo, hi : RunBackfill(lo, hi)) \/ \E d : MiniBackfill(d)
      BY <2>3, Zenon DEF StartBackfill, StartMiniBackfill
    <3> QED
      BY <2>1, <3>1, StartCounts, Zenon
  <2>4. CASE Restart
    BY <2>1, <2>4, LoseMemoryCounts, Zenon DEF Restart
  <2>5. ASSUME UNCHANGED <<total, written>>, stored \subseteq stored'
        PROVE  CountedRowsExist'
    <3>1. total \in Nat /\ written["backfill"] \in Nat /\ written["catchup"] \in Nat
      BY <2>1, Zenon DEF IngestTypeOK, Job
    <3>2. Counted' <= Counted
      BY <2>5, <3>1 DEF Counted
    <3> QED
      BY <2>1, <2>5, <3>2, CountFrame, ZenonT(60)
  <2>6. CASE QuietStreamStep
    <3>1. UNCHANGED <<total, written, stored>>
      BY <2>6, QuietSteps, Zenon DEF PipelineInv, Frame, dbVars, jobVars, wrVars
    <3> QED
      BY <2>5, <3>1, ZenonT(60)
  <2>7. ASSUME NEW t \in Tx, WriteEvent(t)
        PROVE  CountedRowsExist'
    <3>1. UNCHANGED <<total, written>> /\ stored \subseteq stored'
      BY <2>7, Zenon DEF WriteEvent, FailedWrite, WriteBlock, dbVars, jobVars, wrVars
    <3> QED
      BY <2>5, <3>1
  <2>8. CASE \/ DetermineInitialState \/ BackfillReturned \/ TailReturned \/ JoinStream \/ Confirm
             \/ FinalizeSlot \/ Signal \/ UNCHANGED ingestVars
    <3>1. UNCHANGED <<total, written, stored>>
      BY <2>8, Zenon DEF DetermineInitialState, BackfillReturned, TailReturned, JoinStream, Confirm,
                  FinalizeSlot, Finalize, Signal, ingestVars, dbVars, jobVars, wrVars
    <3> QED
      BY <2>5, <3>1
  <2>9. CASE TailBackfill
    <3>1. (\E lo, hi : RunBackfill(lo, hi)) \/ UNCHANGED ingestVars
      BY <2>9, Zenon DEF TailBackfill
    <3> QED
      BY <2>3, <2>8, <3>1, ZenonT(60)
  <2>10. UNCHANGED pipelineVars => UNCHANGED ingestVars
    BY DEF pipelineVars
  <2> QED
    BY <2>2, <2>3, <2>4, <2>6, <2>7, <2>8, <2>9, <2>10, Zenon
    DEF Next, OrchestratorStep, StreamStep, QuietStreamStep
<1> QED
  BY <1>1, <1>2, PipelineInvariant, PTL DEF Spec
=============================================================================
