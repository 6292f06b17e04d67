------------------------------ MODULE Pipeline ------------------------------
(***************************************************************************)
(* PipelineOrchestrator: cold start (determine_initial_state), the         *)
(* concurrent backfill and stream of run ("Option C"), run_streaming and   *)
(* stream_events with disconnects and mini-backfills, cancellation, and    *)
(* process restarts.  The two slot-range jobs are those of Ingest; their   *)
(* writers and the stream commit into the same tables.                     *)
(*                                                                         *)
(* The chain has two tips: every RPC call reads the finalized one, the     *)
(* WebSocket notifies transactions as they become confirmed.  Of the       *)
(* WebSocket stream only its interface is here: a notification is          *)
(* delivered once per connection, in any order, and is lost with it.       *)
(***************************************************************************)
EXTENDS Ingest

CONSTANTS StartSlot,        \* config.start_slot, 0 when it is not set
          MaxFetchFailures, \* config.max_consecutive_fetch_failures
          MaxDisconnects,   \* bound on WebSocket disconnects
          MaxRestarts       \* bound on process restarts

ASSUME PipelineAssumption ==
    /\ StartSlot \in Nat
    /\ MaxFetchFailures \in Nat
    /\ MaxDisconnects \in Nat
    /\ MaxRestarts \in Nat

VARIABLES
    confirmed,    \* tip of the chain at commitment "confirmed"
    run,          \* where run() is
    plan,         \* start_slot and end_slot of InitialState::Backfill
    st,           \* where run_streaming is
    wire,         \* notifications on their way on the current connection
    lastSeen,     \* last_seen_slot of the current connection
    event,        \* the notification being processed, as a set of at most one
    fails,        \* consecutive_failures
    disconnectSlot,
    disconnects,  \* disconnects so far
    restarts,     \* restarts so far
    origin,       \* history: first slot of the first backfill, 0 if none
    joinedAt      \* history: confirmed tip when the connection was subscribed

chainVars  == <<finalized, confirmed>>
jobVars    == <<prodVars, chan, wrVars, unfetched, undrained>>
orchVars   == <<run, plan, origin>>
wsVars     == <<wire, lastSeen, joinedAt>>
streamVars == <<st, event, fails, disconnectSlot>>
bounds     == <<disconnects, restarts>>
pipelineVars == <<ingestVars, confirmed, orchVars, wsVars, streamVars, bounds>>

Run == {"init", "start", "backfill", "tail", "tailing", "join", "abort",
        "stream", "ok", "err"}
St == {"off", "connect", "loop", "next", "wait", "fetch", "write", "beat",
       "disc", "reconnect", "mini", "minirun", "ok", "err"}
StreamEnded == st \in {"ok", "err"}

\* mini_backfill and stream_events watch the token run_streaming was given, a
\* child of the one run and run_backfill watch.
StreamCancelled == cancelled["catchup"]
Shutdown == cancelled["backfill"]

-----------------------------------------------------------------------------
(* Cold start.                                                             *)

\* Variant of LastSlot: resume from indexer_state.
ResumeFromCursor == lastProcessed

\* The highest of the three checkpoints, 0 when there is none.
LastSlot == Larger(checkpoint["backfill"],
                   Larger(checkpoint["realtime"], checkpoint["catchup"]))

Backfill(lo, hi) == [kind |-> "backfill", lo |-> lo, hi |-> hi]
NoBackfill(kind) == [kind |-> kind, lo |-> 1, hi |-> 0]

\* decide_initial_state for the last checkpoint, the chain tip and start_slot (0
\* stands for None): one slot ahead of the tip is tolerated, more is fatal.
DecideInitialState(last, tip, start) ==
    IF last = 0
    THEN CASE start > tip + 1             -> NoBackfill("fatal")
           [] start # 0 /\ start < tip   -> Backfill(start, tip)
           [] OTHER                       -> NoBackfill("stream")
    ELSE CASE last > tip + 1 -> NoBackfill("fatal")
           [] last < tip      -> Backfill(last + 1, tip)
           [] OTHER           -> NoBackfill("stream")

\* run up to the spawn of the stream: determine_initial_state, whose reads may
\* fail, and the choice of what to run.
DetermineInitialState ==
    /\ run = "init"
    /\ LET initial == DecideInitialState(LastSlot, finalized, StartSlot)
       IN  \/ /\ Shutdown
              /\ run' = "ok"
              /\ UNCHANGED <<plan, origin, st>>
           \/ /\ ~Shutdown                  \* a read failed, or Fatal
              /\ run' = "err"
              /\ UNCHANGED <<plan, origin, st>>
           \/ /\ ~Shutdown /\ initial.kind = "stream"
              /\ run' = "stream"
              /\ st' = "connect"
              /\ UNCHANGED <<plan, origin>>
           \/ /\ ~Shutdown /\ initial.kind = "backfill"
              /\ run' = "start"
              /\ st' = "connect"
              /\ plan' = [lo |-> initial.lo, hi |-> initial.hi]
              /\ origin' = IF origin = 0 THEN initial.lo ELSE origin
    /\ UNCHANGED <<ingestVars, confirmed, wsVars, event, fails, disconnectSlot, bounds>>

-----------------------------------------------------------------------------
(* run, next to the stream it has spawned.                                 *)

StartBackfill ==
    /\ run = "start"
    /\ RunBackfill(plan.lo, plan.hi)
    /\ run' = "backfill"
    /\ UNCHANGED <<confirmed, plan, origin, wsVars, streamVars, bounds>>

\* run_backfill returned: on an error the stream's token is cancelled.
BackfillReturned ==
    /\ run = "backfill"
    /\ \/ /\ pc["backfill"] = "ok"
          /\ run' = IF Shutdown THEN "join" ELSE "tail"
          /\ UNCHANGED cancelled
       \/ /\ pc["backfill"] = "err"
          /\ run' = "abort"
          /\ cancelled' = [cancelled EXCEPT !["catchup"] = TRUE]
    /\ UNCHANGED <<chainVars, dbVars, rowVars, total, jobVars, plan, origin,
                   wsVars, streamVars, bounds>>

\* The tail backfill, from the end of the first to the tip of now.
TailBackfill ==
    /\ run = "tail"
    /\ \/ /\ finalized > plan.hi
          /\ RunBackfill(plan.hi + 1, finalized)
          /\ plan' = [lo |-> plan.hi + 1, hi |-> finalized]
          /\ run' = "tailing"
       \/ /\ run' = "join"                  \* no gap, or get_slot failed
          /\ UNCHANGED <<ingestVars, plan>>
    /\ UNCHANGED <<confirmed, origin, wsVars, streamVars, bounds>>

\* Variant: the tail is awaited together with the stream.
TailAndStreamEnded == pc["backfill"] \in {"ok", "err"} /\ StreamEnded
TailEnded == pc["backfill"] \in {"ok", "err"}

\* The tail's error is only logged.
TailReturned ==
    /\ run = "tailing"
    /\ TailEnded
    /\ run' = "join"
    /\ UNCHANGED <<ingestVars, confirmed, plan, origin, wsVars, streamVars, bounds>>

\* run's result: the backfill's error after a failed backfill, the stream's
\* result otherwise.  The variant forgets the former.
StreamResult == st
RunResult == IF run = "abort" THEN "err" ELSE st

\* The stream task ended and run returns.
JoinStream ==
    /\ run \in {"join", "abort", "stream"}
    /\ StreamEnded
    /\ run' = RunResult
    /\ cancelled' = [cancelled EXCEPT !["catchup"] = @ \/ run = "join"]
    /\ UNCHANGED <<chainVars, dbVars, rowVars, total, jobVars, plan, origin,
                   wsVars, streamVars, bounds>>

OrchestratorStep ==
    \/ DetermineInitialState \/ StartBackfill \/ BackfillReturned
    \/ TailBackfill \/ TailReturned \/ JoinStream

-----------------------------------------------------------------------------
(* run_streaming.                                                          *)

Frame == <<chainVars, dbVars, total, cancelled, jobVars, orchVars>>

\* A fresh connection is subscribed: nothing seen, nothing on the wire.
Subscribed ==
    /\ wire' = {}
    /\ lastSeen' = 0
    /\ joinedAt' = confirmed

\* The first subscribe is not retried.
Connect ==
    /\ st = "connect"
    /\ \/ st' = "loop" /\ Subscribed
       \/ st' = "err" /\ UNCHANGED wsVars
    /\ UNCHANGED <<Frame, rowVars, event, fails, disconnectSlot, bounds>>

\* The head of run_streaming's loop; stream_events starts with no failures.
EnterStreaming ==
    /\ st = "loop"
    /\ \/ /\ StreamCancelled
          /\ st' = "ok"
          /\ UNCHANGED <<rowVars, fails>>
       \/ /\ ~StreamCancelled
          /\ \/ UpdateIndexerState("streaming", 0) /\ st' = "next" /\ fails' = 0
             \/ TryUpdateIndexerState("streaming", 0) /\ st' = "err" /\ UNCHANGED fails
    /\ UNCHANGED <<Frame, wsVars, event, disconnectSlot, bounds>>

\* The token is looked at before stream.next, which does not watch it.
AwaitEvent ==
    /\ st = "next"
    /\ st' = IF StreamCancelled THEN "ok" ELSE "wait"
    /\ UNCHANGED <<Frame, rowVars, wsVars, event, fails, disconnectSlot, bounds>>

\* stream.next yields a notification; failed transactions may be skipped.
ReceiveEvent(t) ==
    /\ st = "wait"
    /\ t \in wire
    /\ wire' = wire \ {t}
    /\ lastSeen' = Larger(lastSeen, TxSlot[t])
    /\ IF t \in FailedTx /\ ~IndexFailedTxs
       THEN st' = "next" /\ UNCHANGED event
       ELSE st' = "fetch" /\ event' = {t}
    /\ UNCHANGED <<Frame, rowVars, joinedAt, fails, disconnectSlot, bounds>>

\* StreamInterrupt::Fatal: the error is recorded if possible, run_streaming ends.
FatalStream ==
    /\ TryUpdateIndexerState("error", 0)
    /\ st' = "err"
    /\ event' = {}

\* Variant: getTransaction at commitment "confirmed".
VisibleWhenConfirmed(t) == TxSlot[t] <= confirmed
\* getTransaction at commitment "finalized" finds the transaction.
Visible(t) == TxSlot[t] <= finalized

\* Another failure is tolerated; the variant is one off.
MayFailOnceMore == fails <= MaxFetchFailures
MayFail == fails < MaxFetchFailures

\* getTransaction and decode_transaction.
FetchTransaction(t) ==
    /\ st = "fetch" /\ t \in event
    /\ \/ /\ Visible(t)
          /\ fails' = 0
          /\ IF Decodes(t) THEN st' = "write" ELSE st' = "beat"
          /\ UNCHANGED <<rowVars, event>>
       \/ /\ ~Visible(t)                    \* Ok(None)
          /\ st' = "next" /\ event' = {}
          /\ UNCHANGED <<rowVars, fails>>
       \/ /\ MayFail                        \* the call failed
          /\ fails' = fails + 1
          /\ st' = "next" /\ event' = {}
          /\ UNCHANGED rowVars
       \/ /\ ~MayFail                       \* it failed once too often
          /\ FatalStream
          /\ UNCHANGED fails
    /\ UNCHANGED <<Frame, wsVars, disconnectSlot, bounds>>

\* write_block for one transaction, with the realtime checkpoint at its slot.
WriteEvent(t) ==
    /\ st = "write" /\ t \in event
    /\ \/ /\ WriteBlock("realtime", {t}, TxSlot[t])
          /\ st' = "beat"
          /\ UNCHANGED <<rowVars, event>>
       \/ /\ FailedWrite("realtime", {t}, TxSlot[t])
          /\ FatalStream
    /\ UNCHANGED <<chainVars, total, cancelled, jobVars, orchVars, wsVars, fails,
                   disconnectSlot, bounds>>

\* The heartbeat, when it is due.
StreamHeartbeat(t) ==
    /\ st = "beat" /\ t \in event
    /\ TryUpdateIndexerState("streaming", TxSlot[t])
    /\ st' = "next" /\ event' = {}
    /\ UNCHANGED <<Frame, wsVars, fails, disconnectSlot, bounds>>

\* stream.next failed: the connection and what was on it are gone.  The
\* reference point is the last slot seen, else the realtime checkpoint (0 if
\* there is none or it cannot be read).
Disconnect ==
    /\ st = "wait"
    /\ disconnects < MaxDisconnects
    /\ disconnects' = disconnects + 1
    /\ disconnectSlot' \in IF lastSeen # 0 THEN {lastSeen} ELSE {checkpoint["realtime"], 0}
    /\ wire' = {}
    /\ st' = "disc"
    /\ UNCHANGED <<Frame, rowVars, lastSeen, joinedAt, event, fails, restarts>>

CatchingUp ==
    /\ st = "disc"
    /\ TryUpdateIndexerState("catching_up", disconnectSlot)
    /\ st' = "reconnect"
    /\ UNCHANGED <<Frame, wsVars, event, fails, disconnectSlot, bounds>>

\* The retried reconnection: a subscribed connection, or an error once the retry
\* time is used up.
Reconnect ==
    /\ st = "reconnect"
    /\ \/ /\ Subscribed
          /\ st' = IF disconnectSlot > 0 THEN "mini" ELSE "loop"
          /\ UNCHANGED <<rowVars, event>>
       \/ FatalStream /\ UNCHANGED wsVars
    /\ UNCHANGED <<Frame, fails, disconnectSlot, bounds>>

StartMiniBackfill ==
    /\ st = "mini"
    /\ MiniBackfill(disconnectSlot)
    /\ st' = "minirun"
    /\ UNCHANGED <<confirmed, orchVars, wsVars, event, fails, disconnectSlot, bounds>>

MiniBackfillReturned ==
    /\ st = "minirun"
    /\ \/ pc["catchup"] = "ok" /\ st' = "loop"
       \/ pc["catchup"] = "err" /\ st' = "err"
    /\ UNCHANGED <<Frame, rowVars, wsVars, event, fails, disconnectSlot, bounds>>

StreamStep ==
    \/ Connect \/ EnterStreaming \/ AwaitEvent
    \/ \E t \in Tx : ReceiveEvent(t) \/ FetchTransaction(t) \/ WriteEvent(t) \/ StreamHeartbeat(t)
    \/ CatchingUp \/ Reconnect \/ StartMiniBackfill \/ MiniBackfillReturned

-----------------------------------------------------------------------------
(* The environment.                                                        *)

Connected == st \in {"loop", "next", "wait", "fetch", "write", "beat", "mini", "minirun"}

\* A slot becomes confirmed; a subscribed connection is notified.
Confirm ==
    /\ confirmed < MaxSlot
    /\ confirmed' = confirmed + 1
    /\ wire' = IF Connected THEN wire \cup {t \in Tx : TxSlot[t] = confirmed + 1} ELSE wire
    /\ UNCHANGED <<ingestVars, orchVars, lastSeen, joinedAt, streamVars, bounds>>

FinalizeSlot ==
    /\ finalized < confirmed
    /\ Finalize
    /\ UNCHANGED <<confirmed, orchVars, wsVars, streamVars, bounds>>

\* SIGTERM or SIGINT: the token and with it the child.
Signal ==
    /\ ~Shutdown
    /\ cancelled' = [j \in Job |-> TRUE]
    /\ UNCHANGED <<chainVars, dbVars, rowVars, total, jobVars, orchVars, wsVars,
                   streamVars, bounds>>

\* The process dies or exits, and is started again.
Restart ==
    /\ restarts < MaxRestarts
    /\ restarts' = restarts + 1
    /\ LoseMemory
    /\ run' = "init" /\ st' = "off"
    /\ plan' = [lo |-> 1, hi |-> 0]
    /\ wire' = {} /\ lastSeen' = 0 /\ joinedAt' = 0
    /\ event' = {} /\ fails' = 0 /\ disconnectSlot' = 0
    /\ UNCHANGED <<chainVars, origin, disconnects>>

Init ==
    /\ IngestInit
    /\ confirmed \in finalized..MaxSlot
    /\ run = "init" /\ st = "off"
    /\ plan = [lo |-> 1, hi |-> 0]
    /\ origin = 0
    /\ wire = {} /\ lastSeen = 0 /\ joinedAt = 0
    /\ event = {} /\ fails = 0 /\ disconnectSlot = 0
    /\ disconnects = 0 /\ restarts = 0

JobProgress ==
    /\ \E j \in Job : JobStep(j)
    /\ UNCHANGED <<confirmed, orchVars, wsVars, streamVars, bounds>>

Next ==
    \/ OrchestratorStep \/ StreamStep \/ JobProgress
    \/ Confirm \/ FinalizeSlot \/ Disconnect \/ Signal \/ Restart

Spec == Init /\ [][Next]_pipelineVars

\* tokio polls every task that can make progress, every call returns and a
\* notification on the wire arrives.  The chain owes nothing.
Fairness ==
    /\ WF_pipelineVars(OrchestratorStep)
    /\ WF_pipelineVars(StreamStep)
    /\ \A j \in Job :
        /\ WF_pipelineVars(ProducerStep(j) /\ UNCHANGED <<confirmed, orchVars, wsVars, streamVars, bounds>>)
        /\ WF_pipelineVars(WriterStep(j) /\ UNCHANGED <<confirmed, orchVars, wsVars, streamVars, bounds>>)

FairSpec == Spec /\ Fairness

-----------------------------------------------------------------------------
(* Properties.                                                             *)

\* The types of the variables of this module.
TypeOK ==
    /\ IngestTypeOK
    /\ confirmed \in finalized..MaxSlot
    /\ run \in Run /\ st \in St
    /\ plan \in [lo : Nat, hi : 0..MaxSlot]
    /\ origin \in Nat /\ joinedAt \in 0..MaxSlot
    /\ wire \subseteq Tx /\ event \subseteq Tx
    /\ lastSeen \in 0..MaxSlot /\ disconnectSlot \in 0..MaxSlot
    /\ fails \in 0..MaxFetchFailures
    /\ disconnects \in 0..MaxDisconnects /\ restarts \in 0..MaxRestarts

\* Three writers and two commitments, but the index holds finalized transactions
\* only, and no checkpoint is ahead of the finalized tip: a restart that asks a
\* node which does not lag never meets the "checkpoint ahead of chain tip" error
\* of decide_initial_state.
IndexIsFinal ==
    /\ \A t \in stored : TxSlot[t] <= finalized
    /\ \A s \in Stream : checkpoint[s] <= finalized

\* As long as the stream has written nothing, any number of crashes, restarts,
\* cancellations and failed writes leaves no hole between the first slot ever
\* asked for and the backfill checkpoint: each restart resumes where it must.
RestartsLeaveNoHole ==
    origin # 0 /\ checkpoint["realtime"] = 0 /\ checkpoint["catchup"] = 0 =>
        \A s \in Slot : origin <= s /\ s <= checkpoint["backfill"] => Covered(s)

\* When run hands over to the stream after a backfill and a tail that went well,
\* every slot from the start of this process's backfill is accounted for.
HandoverCovers ==
    run = "join" /\ pc["backfill"] = "ok" /\ ~Shutdown /\ restarts = 0 /\ ChunkSize > 0 =>
        \A s \in origin..plan.hi : Covered(s)

\* run returns Ok only when a shutdown was requested: whatever ends the stream or
\* the backfill on its own is an error, also through the child token.
CleanExitMeansShutdown == run = "ok" => Shutdown

\* last_processed_slot never moves back, although the backfill and the stream
\* write it concurrently and out of order.
CursorNeverRewinds == [][lastProcessed' >= lastProcessed]_pipelineVars

\* A shutdown always gets the orchestrator to the point where only the stream is
\* left to wait for.
ShutdownReachesJoin == Shutdown ~> run \in {"join", "abort", "stream", "ok", "err"}

(* What the documentation says and the code does not do.                   *)

\* docs/architecture.md:137, README.md:547: after a crash both paths resume from
\* their own checkpoints, so what a restarted process does not backfill again is
\* accounted for.  determine_initial_state resumes after the highest checkpoint of
\* all streams.
RestartLosesNothing ==
    run \in {"start", "stream"} /\ st = "connect" /\ origin # 0 =>
        \A s \in origin..LastSlot : Covered(s)

\* The comment on the tail backfill: it covers the slots between the end of the
\* backfill and the first event of the subscription, so that once a tail went well
\* no finalized slot from before the subscription is missing.  The tail ends at the
\* finalized tip, the subscription starts at the confirmed one.
HandoffLeavesNoGap ==
    run = "join" /\ plan.lo > origin /\ pc["backfill"] = "ok" /\ ~Shutdown /\ Connected =>
        \A s \in origin..joinedAt : s <= finalized => Covered(s)
=============================================================================
