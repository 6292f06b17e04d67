# Solarix in TLA+

Solarix is an indexer for Solana programs. It fetches a program's blocks and
transactions, decodes the instructions with the program's IDL, stores them in
PostgreSQL and answers queries about them. These modules model the pipeline from the
RPC node to the answer of a query, with its concurrency, failures and restarts. TLC
checks them on small instances; TLAPS proves the write path, the pipeline with its
stream and restarts, the WebSocket stream, the registry, the shutdown, the paging of
queries, the listing of blocks and the account snapshot for every instance.

## The system and its parts

| Part | Source (`src/`) | Module |
|---|---|---|
| backfill, mini-backfill, chunking | `pipeline/mod.rs` | `Ingest` |
| bounded channel and writer task | `pipeline/mod.rs` | `Ingest` |
| `write_block`, checkpoints | `storage/writer.rs` | `Ingest` |
| cold start, orchestration, streaming | `pipeline/mod.rs` | `Pipeline` (extends `Ingest`) |
| WebSocket stream, deduplication, heartbeat | `pipeline/ws.rs` | `WsStream`; `Feed` is what it promises |
| start-up, select, drain, final update | `main.rs` | `Shutdown` |
| registration, deletion, IDL cache, reseeding | `registry.rs`, `api/handlers.rs`, `idl/mod.rs`, `startup.rs` | `Registry` |
| RPC client: retries, error classes, cutting into chunks and batches | `pipeline/rpc.rs` | `RpcClient`, `Snapshot` |
| account snapshot and account upserts | `pipeline/mod.rs`, `storage/writer.rs` | `Snapshot` (extends `RpcClient`) |
| parsing of blocks, `decode_transaction`, instruction rows | `pipeline/rpc.rs`, `pipeline/mod.rs`, `storage/writer.rs` | `Instructions` (extends `Pages`, `Borsh`) |
| decoder | `decoder/mod.rs` | `Decoder`; `Borsh` is what it is checked against |
| cursor pages, buckets, counts | `api/handlers.rs` | `Pages`, `Instructions` |
| promoted columns, filters, account queries | `storage/schema.rs`, `storage/writer.rs`, `storage/queries.rs`, `api/filters.rs` | `Accounts` (extends `Snapshot`, `Decoder`) |
| schema generation | `storage/schema.rs` | database steps in `Registry`, type mapping in `Accounts` |
| bootstrap, configuration, statistics, shared types | various | not modelled |

`main` starts the API server and one pipeline. The pipeline reads the checkpoints
and the chain tip, decides between backfilling and streaming, and normally does
both at once: the stream in a task of its own, the backfill in the pipeline's. Every
slot-range job is a producer, a bounded channel and a writer task. The stream, after
a disconnect, reconnects and runs a mini-backfill. All of them commit to the same
tables. One cancellation token, with a child for the stream, stops them. Independently,
API requests register and delete programs, a restart picks the registered ones up, and
clients read the tables page by page while the pipeline writes them.

`PROJECT.json` lists every part with what is left out of it, the source lines of
each definition, and the hazards of the code with the properties about them.

## The modules

**Ingest** has one producer/channel/writer triple per job (`"backfill"`,
`"catchup"`). `pc[j]` is the producer's place in the code, `wr[j]` the writer's; each
await is a step. A batch is its slot: the rows are a function of it. A transaction
stands for the rows of its decodable instructions, which are always written
together. `stored` and `checkpoint` are the database and change only in `WriteBlock`,
because the code writes them in one transaction; a write that fails may still have
been committed. `unfetched` and `undrained` are history: the slots the code gives up
on purpose (a failed `getBlock`, a failed write of the drain). They let the properties
say *everything else is there*.

**Pipeline** adds the orchestrator (`run`), the stream (`st`) and the chain's two
tips. RPC calls read `finalized`; notifications come at `confirmed`. A connection is a
set of notifications that arrive in any order and are lost with it. `Restart` keeps
the database only.

**WsStream** is one stream object: frames arrive in order from a server that may send
anything at any time or die; time is two capped counters, since `next_deadline` only
compares against two durations. `arrived` and `delivered` are history. **Feed** is what
the stream promises its consumer, without frames, buffers, eviction queue or heartbeat:
notifications are taken in the order of their arrival, each moves the cursor and becomes an
event unless its signature is that of one of the last `Window` events. `WsStream`
implements it (`ImplementsFeed`): `taken` is the number of notifications `next()` has
parsed, `cursor` is `last_seen_slot`, `Window` is the size of the deduplication set.

**Shutdown** reduces the pipeline to what `main` sees of it. `taken` records the
handles whose output the `select!` consumed: tokio panics when such a handle is
polled again. The pipeline itself may panic too: `main` learns of it through the handle,
and the writer and stream it had spawned are detached, run on and may meet the closed pool
or write after `stopped`. The properties about them except that case by name.

**Registry** has one program, because all state is keyed by the program, and a set of
requests. Every lock scope, statement and transaction is a step, and a statement may be
reported as failed although it took effect.

**RpcClient** is one call to the node: `pc` says which request is outstanding, an attempt
ends in an answer, a transient error (retried after a delay that doubles up to a maximum,
until the total delay is used up) or a permanent one. `get_blocks` asks chunk by chunk
up to `MaxU64`, where the code guards against overflow. **Snapshot** runs
`run_account_snapshot` on it: list the accounts, read the slot, fetch in batches, decode,
upsert in batches. `hist` is the chain, which moves on between any two requests. A node
lists accounts in any order, so the lists of the function are sets, and a batch is any part
of one that has the size of a batch.

**Decoder** is the code's decoder, operator by operator, on byte strings whose base, scalar
sizes, length prefixes and depth limit are constants. **Borsh** goes the other way: the set
of all encodings of a type with the value each stands for. **Pages** is the table of
instruction rows as a client sees it: rows are inserted at any time, and a walk asks for page
after page with the cursor of the last one; `before`, what matched when it began, is history.
**Instructions** fills that table from raw blocks: parsing, the selection of the program's
invocations (top-level and inner), decoding, insertion under the unique index. It
implements `Pages` (`PagesSpec` is a property of its run). **Accounts** adds to `Snapshot`
the columns a type's table has, the values extracted for them and the filters; its queries
are functions of the rows. A statement PostgreSQL refuses (no column of that name, no
operator for its type and the value's) is a failed query. Hex strings, which the decoder
writes for 256-bit integers, are accepted as NUMERIC by PostgreSQL 16, the version of the
repository's `docker-compose.yml`; earlier ones refuse them and with them the write.
**MCQueries** runs `Instructions` and `Accounts` side by side: they share the decoder and an
IDL with one instruction per type, and no state.

Operators described as *variant* are not part of the specifications: each is the
mistake that shows a property is able to fail.

## What the runs check

Runs that pass:

| Run | Properties | Bounds |
|---|---|---|
| `ingest_jobs` | `IngestTypeOK`, `CheckpointBacked`, `BackfillPrefixIndexed`, `OkMeansCovered`, `CountedRowsExist`, `BackfillCheckpointAdvances`, `JobsEnd` | 3 slots, 4 transactions (two in a block, one failed), chunks of 2, channel of 1, any crashes; or both jobs on 2 slots |
| `pipeline_faults` | `TypeOK`, `HandoverCovers`, `CleanExitMeansShutdown`, `IndexIsFinal`, `RestartsLeaveNoHole`, `CursorNeverRewinds`, `ShutdownReachesJoin` | 3 slots, the second empty, one tolerated fetch failure, one restart or one disconnect |
| `ws_stream` | `ImplementsFeed`, `NoDuplicateInWindow`, `DedupIsWindow`, `ArrivalsAreDelivered`, `CursorIsLargestParsed`, `PongTimeoutIsReal`, `SilenceIsNoticed` | 3 signatures, one in two slots, set of 2, 5 frames, 2 connections |
| `shutdown_order` | `PoolOutlivesPipeline`, `StoppedIsNotBehind`, `CleanExitWasAsked`, `StoppedIsFinal`, `ShutdownEnds` | 3 slots |
| `registry_register` | `SchemaMatchesRow`, `OneRegistrationWins`, `CacheAgreesWhenQuiet` | 3 requests, 2 IDLs with one schema name, one crash |
| `queries_answers` | `RowsAreInvocations`, `PagesAreDisjoint`, `WalkSeesEveryTransaction`, `CountsAgree`, `PagesSpec`, `WalkEnds` (instructions); `SlotIsNotAheadOfData`, `SnapshotIsComplete`, `BlocksAreListedOnce`, `FiltersAgreeWithData`, `CallsEnd` (accounts and RPC) | bytes of base 4, payloads of up to 4 bytes, 16 instructions; 3 blocks with 6 transactions, pages of 1 to 3; 2 accounts, 2 slots, 2 calls |

In `ingest_jobs` the second job joins on a shorter chain and in `pipeline_faults` a
behaviour has a restart or a disconnect, not both: the MC modules say so, and these are the
instances TLC finishes in minutes. A behaviour of `queries_answers` has a chain of blocks or
has accounts, since neither half reads the other's state; blocks are listed with no accounts
around, because the listing does not read them.

`FiltersAgreeWithData` asks for every integer field, with each operator and with none: the
rows the JSON says, less those whose value is NULL or above `i64::MAX`, or the refusal the code has for
`_contains`, for a value the column cannot hold and for a renamed field.

The bounds are the smallest at which the hard cases occur: a chunk boundary inside the
range and a short last chunk, a full channel with a batch held by the writer, a slot
confirmed but not finalized, more signatures than the deduplication set holds, a pong
in flight at the deadline, three requests of which two race and one deletes, a page that
ends within a transaction, a transaction written by both paths, a chunk of blocks that ends
at `u64::MAX`, an account that closes between its listing and its fetch. The bounds on
frames, connections, restarts, disconnects and calls are constants named in the modules.

The types of `Registry`, `Shutdown`, `Snapshot` and `WsStream` are proved, as part of their
invariants.

Deadlock is not checked: a job that has returned, a process that has exited, a call that
was answered and a stream at the end of its frames rest. That nothing rests too early is what the
liveness properties say.

Runs in which TLC finds the violation of something a comment or a document says:

| Run | Property | What the code does instead |
|---|---|---|
| `ingest_drain` | `CheckpointIsCrashSafe` | a failed write in the drain is followed by a successful one, and the checkpoint passes the lost block |
| `pipeline_crashgap` | `RestartLosesNothing` | a restart resumes after the largest checkpoint of all streams |
| `pipeline_handoff` | `HandoffLeavesNoGap` | the tail backfill ends at the finalized tip, the subscription began at the confirmed one |
| `queries_pages` | `WalkServesEveryRow` | the cursor is the transaction of the last row, and the next page starts below it: the rest of that transaction is on no page |
| `shutdown_stopped` | `StoppedIsRecorded` | the drain polls a handle the select consumed, which panics |
| `registry_served` | `RegisteredIsServed` | an upload whose commit fails removes the entry it cached, which another upload found there; that one answers 201, and queries answer `PROGRAM_NOT_FOUND` |

The quotations are under `findings` in `PROJECT.json`. The models also show, without a run
of their own, behaviour a reader of the documents may not expect: the mini-backfill after a
reconnect leaves the same gap as the tail backfill; a transaction notified at `confirmed`
and not yet finalized is skipped (`getTransaction` asks for `finalized`); a cancelled stream
on a quiet program is not woken by the token, and `main`'s `select!` waits for it with no
time limit (`docs/architecture.md:675` has "Configurable timeouts prevent hung shutdown");
the deduplication set starts empty on every connection and evicts in insertion order, so it
is not what "prevents reprocessing on reconnect" (`docs/architecture.md:727`), the unique
index is; a heartbeat can leave `last_processed_slot` ahead
of the checkpoints; without a pipeline the wait for open connections has no time limit; a
registration overtaken by a hard delete answers 201; an upload is ignored while an IDL is
cached.

Reading the code for the query side showed more of this kind:

- a filter on an instruction argument of a promotable type resolves to a column that
  `_instructions` does not have, and the query fails; the `data.` prefix of the repository's
  README is an unknown field; a field whose name ends like an operator suffix is misread
  when its filter has no suffix of its own;
- an account field whose name `sanitize_identifier` changes (`tickSize`) gets a column that
  is extracted from the JSON under the new name, where nothing is, and a filter on it names
  a column that does not exist, so the query fails;
- an account field named like a reserved column resolves to that column; these fields are
  the ones `FiltersAgreeWithData` leaves out;
- 256-bit integers are written in the order of their bytes, little-endian, and read by
  PostgreSQL as big-endian numbers;
- a `u32` of 2^31 or more does not fit its INTEGER column and fails the write of its batch,
  while a `u64` above `i64::MAX` is stored as NULL;
- `is_closed` is never set, and an account that changes its type keeps its old row;
- rows of the stream have no block time unless the backfill wrote them first;
- with `retry_initial_ms` 0 the retries never use up their total delay, and with a default
  page size of 0 there is no last row to take the cursor from; the `ASSUME`s exclude both;
- offset pages of accounts are ordered by a slot that all rows of a snapshot share.

## Fairness

Weak fairness only, of tasks the runtime polls and of calls that return because the
client limits their time: the producer and the writer of each job, the orchestrator,
the stream's own steps, the WebSocket client and the clock, `main`, the client of the RPC
node (an attempt that gets no answer times out). `WalkEnds` assumes a client that keeps asking
for the next page: it says that the server lets a walk end. Nothing is assumed of the chain, of the WebSocket server or of API clients.
In `Shutdown` only `main` is assumed to be polled. `ShutdownEnds` therefore begins when the
server or the pipeline has ended: from there the drain's timeout ends the process, whatever
the other one does. That a cancelled pipeline ends is not assumed. `JobsEnd` and
`ShutdownReachesJoin` show how far it does: it reaches the wait for its stream, and there
only the next frame or the pong timeout of `WsStream` (`SilenceIsNoticed`) helps.

## What is proved

`IngestProofs` proves, for every chain, set of transactions, chunk size (0 included)
and channel capacity, and for `IngestSpec` with both jobs, cancellations and crashes:

- `IngestInvariant`: `[]IngestInv`, the inductive invariant;
- `IngestTypes`, `CheckpointsAreBacked`, `BackfillPrefixIsIndexed`, `OkIsCovered`: the
  safety properties of the same content that the runs check;
- `BackfillAdvances`: the backfill checkpoint never moves back;
- `CountersAreBacked` (`CountedRowsExist`): `total_instructions` and what the writers have
  still to add count rows that exist. A commit inserts as many rows as it adds to the
  writer's counter, and the counters are only moved or dropped afterwards.

The only assumption is `IngestAssumption`, on the constants. `BackfillPrefixIndexed` is not
inductive: a commit moves the checkpoint over slots about which it says nothing.
`IngestInv` therefore says, per job, that the producer stays in its range (`RangeInv`),
that the batches in flight are strictly increasing, behind the producer and ahead of the
checkpoint (`QueueInv`), and that each slot the producer has passed is accounted for or in
flight (`AccountInv`). A commit takes the smallest batch in flight, so what it passes is
accounted for; an error drops the channel with the receiver, so nothing later is
committed. The proof has one lemma per action: the producer's steps within a chunk and
the writer's are in `IngestStepProofs`, with the lemmas all of them share; a job's start,
heartbeats and end, the environment and the theorems in `IngestProofs`.

`PipelineProofs` proves, for every chain, start slot, configuration and number of
disconnects, restarts and tolerated fetch failures (`IngestAssumption`,
`PipelineAssumption`), of the whole pipeline: `PipelineInvariant` and from it

- `PipelineTypes`, `OnlyFinalIsIndexed`, `CleanExits`, `NoHoleAfterRestarts`,
  `HandoverIsComplete` and `CursorOnlyAdvances`, the safety properties of `pipeline_faults`;
- `JobsKeepTheirPromises` and `CountersStayBacked`: what `IngestProofs` shows of the two
  jobs on their own also holds beside the stream, which writes the same tables, and across
  restarts.

`PipelineInv` contains `IngestInv`, and the steps of the jobs are those of `IngestProofs`:
the other tasks change what a job reads only in ways that keep `IngestInv`. What it adds:

- the range the backfill is asked for is within the finalized chain and is the one it works
  on (`PlanInv`), so that what the orchestrator concludes from its return is about the
  planned range;
- what the stream writes was found by `getTransaction` (`EventInv`), hence is final;
- who may have cancelled which token (`TokenInv`); which jobs are not running while `run`
  is still deciding (`IdleInv`), so that a job starts on a channel that is empty;
- with a chunk size of 0 no job ever has anything in flight (`NoChunkInv`): such a job
  returns at once, and no checkpoint comes from it;
- where the first backfill began (`OriginInv`), and that every slot from there to the start
  of the current one is accounted for (`HoleInv`). Both hold only while no other stream's
  checkpoint can make a restart skip (`Unskipped`). That is the hypothesis of
  `RestartsLeaveNoHole`, and `pipeline_crashgap` shows what happens without it.

`WsStreamProofs` proves, for all notifications, sizes of the deduplication set, timeouts and
bounds (the five `ASSUME`s of `WsStream`: the sizes are not 0, a notification is not a
control frame), `StreamTypes`, `DedupWindow`, `NoDuplicates`, `NoArrivalIsLost`,
`CursorIsLargest` and `NoPongIsMissed`. The invariant `WsInv` cuts the history of a
connection in two: `pending_frames` is the end of what arrived (`PendingIsTail`), and the rest
has been parsed. About the parsed part it says that the eviction queue is the end of
the returned events (`QueueIsTail`), that the hash set holds what the queue holds, once
each (`SetIsQueue`), that each parsed signature was returned (`ParsedAreReturned`), in the
order of arrival (`EventsComeInOrder`), and that the cursor is the largest slot
(`CursorIsExact`). `QueueIsTail` and `SetIsQueue` need each other: an eviction removes one
element of the set only because the queue has no repetitions.

`StreamIsFeed` proves that `WsStream` implements `Feed`: the initial states agree, and every
step of the stream is a step of the feed or leaves it alone. A frame that arrives while
`next()` waits is `ArriveAndTake`, one that is buffered during the handshake `Arrive`, a
replayed one `TakeOldest`, a new connection `Reconnect`; control frames, pings and time are
stutters. `DedupIsWindow` is what makes the test of the hash set the feed's test of its
recent events.

`RegistryProofs` proves, for any number of requests, IDLs, schema names and restarts
(`NothingIsNone`, `RestartsBounded`), `RegistryInvariant` and from it:

- `OneWinner` and `TablesMatchRow`, which hold as long as nothing is deleted. The
  invariant adds that at most one request *holds* the row (`HolderInv`: it wrote it and has
  not failed since), and that only the holder's tables exist (`TablesInv`);
- `CacheAgrees`: the cache agrees with the row once no request is in flight. While some
  are, it may not, and the invariant has to say why that ends: somebody is going to
  remove the entry (`WillClear`, `CacheInv`). The same fact is why `RegisteredIsServed`
  fails: the entry removed may be the right one.

`ShutdownProofs` proves, for any number of slots (`MaxSlotIsNat`), `ShutdownInvariant` and
from it `PoolIsClosedLast`, `StoppedHasTheSlot`, `CleanExitAfterSignal` and `StoppedStays`.
The invariant relates `main`'s place to the state of the tasks (`StageInv`), the slot it read
to the checkpoints (`SlotInv`) and a clean end to the signal (`AskedInv`). A pipeline that
returned has joined its tasks, one that panicked has not: what `main` concludes from the
end of the pipeline (`PipeIsDone`) is therefore stated with the panic as its exception.

`PagesProofs` proves, for any rows, insertions, requests and page sizes above 0
(`PageSizes`, `RequestLimits`), `PagesInvariant`, `PagesNeverOverlap` and
`WalksSeeEveryTransaction`. The invariant: nothing served is below the cursor (`CursorInv`), and a
transaction that matched at the start has been served in part or is below the cursor
(`SeenOrBelow`). `queries_answers` checks that `Instructions` implements `Pages`, so that
the theorems are about the table the code writes.

`SnapshotProofs` proves `BlocksListedOnce`, for every range up to `MaxU64`, chunk size and
set of produced slots (`RpcConstants`): while a range is being listed, what has been listed
is exactly the part below the next chunk (`ListingInv`), and the saturating addition does
not stop before the end of the range. It also proves, for all accounts, contents,
decodings and batch sizes, `SnapshotInvariant` and from it `SlotsAreNotAhead` and
`SnapshotsAreComplete`. `SnapshotInv` follows each listed account through the stages of the
function: it is excused, or fetched, or waits to be written, or has a row of the snapshot's
slot or later (`AccountedInv`). What was fetched was the account's content at that slot or
later (`FreshInv`), because the slot is read first (`LabelInv`). An upsert keeps this up:
it replaces only rows of an earlier slot (`UpsertKeeps`, `UpsertCovers`).

Only model-checked:

- the decoder, `RowsAreInvocations`, `CountsAgree`, `FiltersAgreeWithData` and the refinement
  of `Pages`: they rest on recursive operators over types, and what these compute needs
  induction over data;
- all liveness (`JobsEnd`, `ShutdownReachesJoin`, `SilenceIsNoticed`, `ShutdownEnds`,
  `WalkEnds`, `CallsEnd`), which is beyond the prover.

## What is not modelled, and the plan

Not modelled: SQL and DDL text, the rules of identifier sanitising (a parameter; the instance renames one field), logging, metrics, configuration
parsing, HTTP routing, the listings and single-row reads of the API, offsets of account
pages, the rate limiter (it only delays), accounts in the `write_block` of the backfill and
the stream (always empty there), `mark_program_error` (needs a stored IDL that no longer
parses), PDA derivation and decompression of on-chain IDLs, const generics in IDL types
(the decoder refuses them). These are text, I/O, cryptography, or reads of one row set.

Planned:

1. `Index`, an abstract specification (a set of transactions that only grows and a
   cursor that promises a prefix) that `Ingest` implements; today its content is
   stated as the properties of `ingest_jobs`.
2. `RpcClient` composed with `Ingest` in place of *a call may fail*, and `WsStream` with
   `Pipeline` in place of the set of notifications. `pipeline_faults` already takes
   minutes, so either needs smaller instances or a coarser stream.
3. `Instructions` with the decoder as a parameter, as `Snapshot` has it, so that
   `RowsAreInvocations`, `CountsAgree` and the refinement of `Pages` can be proved.
