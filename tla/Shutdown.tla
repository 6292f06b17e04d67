------------------------------ MODULE Shutdown ------------------------------
(***************************************************************************)
(* The process (main.rs): start-up, the select over the API server and the *)
(* pipeline, the drain with its timeout, the final indexer_state update    *)
(* and the closing of the pool.  The pipeline is reduced to what main can  *)
(* observe: a task that fetches and beats, the tasks it spawns and joins   *)
(* (writer, streaming), and its result.  Ingest and Pipeline model it.     *)
(*                                                                         *)
(* A JoinHandle yields its task's output once.  tokio panics when a handle *)
(* whose output was taken is polled again; `taken' records the handles     *)
(* whose output the select consumed.  A panic of main ends the process.    *)
(***************************************************************************)
EXTENDS Integers

CONSTANTS MaxSlot   \* bound: slots the pipeline fetches

ASSUME MaxSlotIsNat == MaxSlot \in Nat

VARIABLES
  main,          \* where main is
  signalled,     \* SIGINT or SIGTERM was received
  cancel,        \* the cancellation token
  started,       \* started_programs is not empty
  api, pipe,     \* the two spawned tasks
  task,          \* the tasks the pipeline spawned
  taken,         \* handles whose output was consumed
  outcome,       \* run_result
  pool,          \* the connection pool
  fetched,       \* slots handed to the writer
  checkpoint,    \* the largest last_slot of _checkpoints
  lastProcessed, \* indexer_state.last_processed_slot
  status,        \* indexer_state.status
  lastSlot,      \* the slot read for the final update; 0 is None
  flushFailed    \* the final update failed or timed out

row == <<lastProcessed, status>>
data == <<fetched, checkpoint>>
tasks == <<api, pipe, task>>
vars == <<main, signalled, cancel, started, api, pipe, task, taken, outcome, pool,
          fetched, checkpoint, lastProcessed, status, lastSlot, flushFailed>>

Ended == {"exited", "panicked"}
Up == main \notin Ended
Done(t) == t \in {"ok", "err", "panicked", "aborted"}
Larger(a, b) == IF a > b THEN a ELSE b

(***************************************************************************)
(* Start-up                                                                *)
(***************************************************************************)

\* Leaving main drops the runtime and every task with it.
Leave(how) ==
  /\ main' = how
  /\ api' = "dropped" /\ pipe' = "dropped" /\ task' = "dropped"

\* The pool, the system tables, the programs or the listener cannot be had.
StartFails ==
  /\ main = "init"
  /\ Leave("exited")
  /\ outcome' = "err"
  /\ UNCHANGED <<signalled, cancel, started, taken, pool, data, row, lastSlot, flushFailed>>

\* A signal during start-up: graceful_shutdown with no started program.
CancelledBeforeStart ==
  /\ main = "init"
  /\ cancel
  /\ main' = "close"
  /\ outcome' = "ok"
  /\ UNCHANGED <<signalled, cancel, started, tasks, taken, pool, data, row, lastSlot,
                 flushFailed>>

\* The token is read once, before the listener is bound: a later signal is
\* seen by the tasks.
StartApiOnly ==
  /\ main = "init"
  /\ main' = "serve"
  /\ api' = "running"
  /\ UNCHANGED <<signalled, cancel, started, pipe, task, taken, outcome, pool, data, row,
                 lastSlot, flushFailed>>

StartPipeline ==
  /\ main = "init"
  /\ main' = "select"
  /\ started' = TRUE
  /\ api' = "running" /\ pipe' = "running" /\ task' = "running"
  /\ UNCHANGED <<signalled, cancel, taken, outcome, pool, data, row, lastSlot, flushFailed>>

(***************************************************************************)
(* The tasks                                                               *)
(***************************************************************************)

\* The server ends cleanly only after cancellation, once its connections have.  To
\* main its panic is one more error.
ApiEnds(result) ==
  /\ api = "running"
  /\ result = "ok" => cancel
  /\ api' = result
  /\ UNCHANGED <<main, signalled, cancel, started, pipe, task, taken, outcome, pool, data, row,
                 lastSlot, flushFailed>>

\* The backfill runs in the pipeline's own task, the writer and the streaming in
\* the tasks it spawned.
Indexing == "running" \in {pipe, task}

Fetch ==
  /\ Indexing
  /\ fetched < MaxSlot
  /\ fetched' = fetched + 1
  /\ UNCHANGED <<main, signalled, cancel, started, tasks, taken, outcome, pool, checkpoint,
                 row, lastSlot, flushFailed>>

\* update_indexer_state keeps the larger slot.
UpdateIndexerState(to, slot) ==
  /\ status' = to
  /\ lastProcessed' = Larger(lastProcessed, slot)

\* Variant: the heartbeat has a task of its own, which nobody joins.
BeatsDetached == started

Beats == Indexing

\* The heartbeat of a chunk or of the stream.
Beat ==
  /\ Beats
  /\ pool = "open"
  /\ UpdateIndexerState("indexing", fetched)
  /\ UNCHANGED <<main, signalled, cancel, started, tasks, taken, outcome, pool, data,
                 lastSlot, flushFailed>>

HasBatch == checkpoint < fetched

\* write_block commits a batch with its checkpoint.
Commit ==
  /\ task = "running"
  /\ pool = "open"
  /\ HasBatch
  /\ checkpoint' = checkpoint + 1
  /\ UNCHANGED <<main, signalled, cancel, started, tasks, taken, outcome, pool, fetched,
                 row, lastSlot, flushFailed>>

\* A spawned task ends: drained after cancellation, or failed.
TaskEnds ==
  /\ task = "running"
  /\ task' = "ended"
  /\ UNCHANGED <<main, signalled, cancel, started, api, pipe, taken, outcome, pool, data, row,
                 lastSlot, flushFailed>>

\* Variant: run returns without awaiting the tasks it spawned.
JoinsNothing == TRUE

\* run_backfill awaits its writer and run the streaming task, on the error path too.
JoinsItsTasks == task # "running"

\* Variant: a finished backfill ends the pipeline.
MayEndAnytime(result) == TRUE

MayEndWith(result) == result = "ok" => cancel

\* run returns Ok only when it was cancelled.
PipelineEnds(result) ==
  /\ pipe = "running"
  /\ JoinsItsTasks
  /\ MayEndWith(result)
  /\ pipe' = result
  /\ \/ result = "err" /\ UpdateIndexerState("failed", 0)
     \/ UNCHANGED row
  /\ UNCHANGED <<main, signalled, cancel, started, api, task, taken, outcome, pool, data,
                 lastSlot, flushFailed>>

\* The pipeline's task panics.  It joins nothing: its writer and its stream go on.
PipelinePanics ==
  /\ pipe = "running"
  /\ pipe' = "panicked"
  /\ UNCHANGED <<main, signalled, cancel, started, api, task, taken, outcome, pool, data, row,
                 lastSlot, flushFailed>>

(***************************************************************************)
(* The select and the drain                                                *)
(***************************************************************************)

Signal ==
  /\ Up
  /\ ~signalled
  /\ signalled' = TRUE /\ cancel' = TRUE
  /\ UNCHANGED <<main, started, tasks, taken, outcome, pool, data, row, lastSlot, flushFailed>>

ServeReturns ==
  /\ main = "serve"
  /\ Done(api)
  /\ main' = "close"
  /\ outcome' = api
  /\ UNCHANGED <<signalled, cancel, started, tasks, taken, pool, data, row, lastSlot,
                 flushFailed>>

\* Whichever task ends first cancels the other; its result is the process's.
Select(handle, result) ==
  /\ main = "select"
  /\ Done(result)
  /\ main' = "drainApi"
  /\ cancel' = TRUE
  /\ taken' = taken \union {handle}
  /\ outcome' = result
  /\ UNCHANGED <<signalled, started, tasks, pool, data, row, lastSlot, flushFailed>>

\* The drain awaits the API handle, then the pipeline handle.  A handle whose
\* output was taken panics when it is polled.
Drain(handle, result, next) ==
  /\ IF handle \in taken
     THEN Leave("panicked")
     ELSE Done(result) /\ main' = next /\ UNCHANGED tasks
  /\ UNCHANGED <<signalled, cancel, started, taken, outcome, pool, data, row, lastSlot,
                 flushFailed>>

DrainApi == main = "drainApi" /\ Drain("api", api, "drainPipe")
DrainPipeline == main = "drainPipe" /\ Drain("pipe", pipe, "totals")

Aborted(t) == IF Done(t) THEN t ELSE "aborted"

\* Variant: the drain has no time limit.
NeverTimesOut == FALSE

\* The timeout polls the handles first: it expires only while one is pending.
DrainTimesOut == "api" \notin taken /\ ~Done(api)

\* abort() reaches the two tasks, not the tasks the pipeline spawned.
DrainTimeout ==
  /\ main = "drainApi"
  /\ DrainTimesOut
  /\ main' = "totals"
  /\ api' = Aborted(api) /\ pipe' = Aborted(pipe)
  /\ UNCHANGED <<signalled, cancel, started, task, taken, outcome, pool, data, row, lastSlot,
                 flushFailed>>

(***************************************************************************)
(* graceful_shutdown                                                       *)
(***************************************************************************)

\* Variant: the slot of some checkpoint, not of the largest.
SomeCheckpoint == 0..checkpoint

\* read_max_checkpoint_slot may fail.
MaxCheckpoint == {0, checkpoint}

\* read_shutdown_totals, before it, only logs.
ReadMaxCheckpoint ==
  /\ main = "totals"
  /\ main' = "stop"
  /\ lastSlot' \in MaxCheckpoint
  /\ UNCHANGED <<signalled, cancel, started, tasks, taken, outcome, pool, data, row,
                 flushFailed>>

\* An update that took effect may be reported as failed.
SetStopped ==
  /\ main = "stop"
  /\ main' = "close"
  /\ \/ UpdateIndexerState("stopped", lastSlot) /\ flushFailed' \in BOOLEAN
     \/ flushFailed' = TRUE /\ UNCHANGED row
  /\ UNCHANGED <<signalled, cancel, started, tasks, taken, outcome, pool, data, lastSlot>>

ClosePool ==
  /\ main = "close"
  /\ pool = "open"
  /\ pool' = "closed"
  /\ UNCHANGED <<main, signalled, cancel, started, tasks, taken, outcome, data, row, lastSlot,
                 flushFailed>>

Exit ==
  /\ main = "close"
  /\ pool = "closed"
  /\ Leave("exited")
  /\ UNCHANGED <<signalled, cancel, started, taken, outcome, pool, data, row, lastSlot,
                 flushFailed>>

(***************************************************************************)
(* Specification                                                           *)
(***************************************************************************)

Init ==
  /\ main = "init"
  /\ signalled = FALSE /\ cancel = FALSE /\ started = FALSE
  /\ api = "none" /\ pipe = "none" /\ task = "none"
  /\ taken = {} /\ outcome = "none" /\ pool = "open"
  /\ fetched = 0 /\ checkpoint = 0 /\ lastProcessed = 0 /\ status = "initializing"
  /\ lastSlot = 0 /\ flushFailed = FALSE

MainStep ==
  \/ StartFails \/ CancelledBeforeStart \/ StartApiOnly \/ StartPipeline
  \/ ServeReturns \/ Select("pipe", pipe) \/ Select("api", api)
  \/ DrainApi \/ DrainPipeline \/ DrainTimeout
  \/ ReadMaxCheckpoint \/ SetStopped \/ ClosePool \/ Exit

PipelineEndsEither == \E result \in {"ok", "err"} : PipelineEnds(result)

Next ==
  \/ MainStep \/ Signal
  \/ (\E result \in {"ok", "err"} : ApiEnds(result))
  \/ Fetch \/ Beat \/ Commit \/ TaskEnds \/ PipelineEndsEither \/ PipelinePanics

Spec == Init /\ [][Next]_vars

\* The runtime polls main and its timers.  Nothing is assumed of the tasks: a
\* connection may keep the server busy, and next() waits for a frame without
\* watching the token, so that a cancelled pipeline may stay as long.
FairSpec == Spec /\ WF_vars(MainStep)

(***************************************************************************)
(* Properties                                                              *)
(***************************************************************************)

\* The types of the variables; a checkpoint is never ahead of what was fetched.
ShutdownTypeOK ==
  /\ main \in Ended \union {"init", "serve", "select", "drainApi", "drainPipe", "totals",
                            "stop", "close"}
  /\ signalled \in BOOLEAN /\ cancel \in BOOLEAN /\ started \in BOOLEAN
  /\ {api, pipe} \subseteq {"none", "running", "ok", "err", "panicked", "aborted", "dropped"}
  /\ task \in {"none", "running", "ended", "dropped"}
  /\ taken \subseteq {"api", "pipe"}
  /\ outcome \in {"none", "ok", "err", "panicked"}
  /\ pool \in {"open", "closed"}
  /\ fetched \in 0..MaxSlot /\ checkpoint \in 0..fetched
  /\ lastProcessed \in 0..MaxSlot /\ lastSlot \in 0..MaxSlot
  /\ status \in {"initializing", "indexing", "failed", "stopped"}
  /\ flushFailed \in BOOLEAN

\* The pool is closed only when neither the pipeline nor a task it spawned can
\* still use it, whatever order the tasks end in and whoever was aborted.  Only the
\* tasks a panic of the pipeline has detached may outlive the pool.
PoolOutlivesPipeline ==
  pool = "closed" => pipe # "running" /\ (task # "running" \/ outcome = "panicked")

\* Once main has recorded 'stopped' nothing the process still runs records another
\* status or moves the slot, unless a panic detached it.
StoppedIsFinal == [][status = "stopped" /\ outcome # "panicked" => row' = row]_vars

\* The row that says 'stopped' is never behind the checkpoints, unless they could
\* not be read or the pipeline panicked: nothing commits once main has read them
\* for the final update.
StoppedIsNotBehind ==
  status = "stopped" /\ lastSlot # 0 /\ outcome # "panicked" => lastProcessed >= checkpoint

\* The process reports a clean run only when it was asked to stop: a task that
\* ends by itself is an error.
CleanExitWasAsked == main = "exited" /\ outcome = "ok" => signalled

\* Once the pipeline or the server of a process has ended, for whatever reason, the
\* process ends, even when a connection keeps the server from draining or the
\* pipeline never sees the token.  The timeout of the drain is what ends it; the
\* select before it has none, and waits as long as both run.
ShutdownEnds == started /\ (Done(pipe) \/ Done(api)) ~> ~Up

(***************************************************************************)
(* What the documentation says                                             *)
(***************************************************************************)

\* docs/architecture.md, Shutdown Protocol: after the drain and the flush comes
\* "UPDATE indexer_state SET status = 'stopped'", then pool.close(): a process that
\* ends with a pipeline has recorded it, or failed to.
StoppedIsRecorded == ~Up /\ started => status = "stopped" \/ flushFailed
=============================================================================
