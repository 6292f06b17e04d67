------------------------------ MODULE Registry ------------------------------
(***************************************************************************)
(* Registration and deletion of a program: the API handlers (handlers.rs), *)
(* the registry and its two phases (registry.rs), the IDL cache behind the *)
(* RwLock (idl/mod.rs), the programs and indexer_state rows, the generated *)
(* schema (storage/schema.rs) and the reseeding of the cache at start-up   *)
(* (startup.rs, main.rs).                                                  *)
(*                                                                         *)
(* All of this state is keyed by the program, so one program is modelled.  *)
(* Its two rows are inserted and deleted in one transaction, so one        *)
(* variable stands for both.  Every lock scope, statement or transaction   *)
(* is a step; requests interleave between them.  An IDL is a value and     *)
(* SchemaOf its derived schema name.                                       *)
(***************************************************************************)
EXTENDS Naturals, FiniteSets

CONSTANTS Idl,            \* the IDLs the program may be registered with
          SchemaOf,       \* derive_schema_name of each
          Nothing,        \* no IDL, no row, no schema
          Req,            \* the requests clients make
          MaxRestarts     \* bound: crashes of the process

MaybeIdl == Idl \union {Nothing}
Row == [status : {"registered", "schema_created", "error", "stopped"}, idl : Idl]

ASSUME NothingIsNone == Nothing \notin Idl /\ Nothing \notin Row
ASSUME RestartsBounded == MaxRestarts \in Nat

VARIABLES
  row,       \* the programs row: its status and idl_json
  schema,    \* the IDL each schema's tables were created for
  metadata,  \* the idl_hash in each schema's _metadata
  cache,     \* IdlManager.cache
  req,       \* the requests
  restarts

vars == <<row, schema, metadata, cache, req, restarts>>

SchemaName == {SchemaOf[i] : i \in Idl}

Fresh == [pc |-> "new", kind |-> "none", input |-> Nothing, data |-> Nothing,
          wasCached |-> FALSE, fetched |-> FALSE, result |-> "none"]

At(r, pc) == req[r].pc = pc

Go(r, pc) == req' = [req EXCEPT ![r].pc = pc]

Answer(r, result) == req' = [req EXCEPT ![r].pc = "done", ![r].result = result]

SetStatus(to) == row' = IF row = Nothing THEN Nothing ELSE [row EXCEPT !.status = to]

(***************************************************************************)
(* do_register                                                             *)
(***************************************************************************)

\* POST /api/programs with an IDL (i) or without (Nothing).
Post(r, i) ==
  /\ At(r, "new")
  /\ req' = [req EXCEPT ![r].pc = IF i = Nothing THEN "lookup" ELSE "prepare",
                          ![r].kind = "post", ![r].input = i]
  /\ UNCHANGED <<row, schema, metadata, cache, restarts>>

\* auto_fetch_idl: the cache is read under the read lock, which is then released.
Lookup(r) ==
  /\ At(r, "lookup")
  /\ Go(r, IF cache = Nothing THEN "fetch" ELSE "prepare")
  /\ UNCHANGED <<row, schema, metadata, cache, restarts>>

\* fetch_idl_standalone: the chain's IDL or a bundled one, or none.
Fetch(r) ==
  /\ At(r, "fetch")
  /\ \/ \E i \in Idl : req' = [req EXCEPT ![r].pc = "insert", ![r].data = i]
     \/ Answer(r, "failed")
  /\ UNCHANGED <<row, schema, metadata, cache, restarts>>

\* insert_fetched_idl replaces what another request cached meanwhile.
InsertFetched(r) ==
  /\ At(r, "insert")
  /\ cache' = req[r].data
  /\ req' = [req EXCEPT ![r].pc = "prepare", ![r].fetched = TRUE]
  /\ UNCHANGED <<row, schema, metadata, restarts>>

\* The IDL prepare_registration leaves in the cache: an upload is skipped when one
\* is already cached.
Prepared(r) == IF cache = Nothing THEN req[r].input ELSE cache

\* prepare_registration, under the write lock.  Without an IDL to prepare (another
\* request rolled the cache back) it fails, and nothing is rolled back.
Prepare(r) ==
  /\ At(r, "prepare")
  /\ cache' = Prepared(r)
  /\ IF Prepared(r) = Nothing
     THEN Answer(r, "failed")
     ELSE req' = [req EXCEPT ![r].pc = "write", ![r].data = Prepared(r),
                             ![r].wasCached = (cache # Nothing)]
  /\ UNCHANGED <<row, schema, metadata, restarts>>

\* An IDL that does not parse: upload_idl fails under the lock.
RejectUpload(r) ==
  /\ At(r, "prepare")
  /\ cache = Nothing
  /\ req[r].input # Nothing
  /\ Answer(r, "failed")
  /\ UNCHANGED <<row, schema, metadata, cache, restarts>>

\* Variant: rows_affected is not looked at.
NeverConflicts == FALSE

\* ON CONFLICT DO NOTHING affects no row.
Conflicts == row # Nothing

Registered(r) == [status |-> "registered", idl |-> req[r].data]

\* write_registration.  A commit may take effect and still be reported as failed.
WriteRegistration(r) ==
  /\ At(r, "write")
  /\ IF Conflicts
     THEN Go(r, "rollback") /\ UNCHANGED row
     ELSE \/ row' = (IF row = Nothing THEN Registered(r) ELSE row) /\ Go(r, "ddl")
          \/ row' \in {row, Registered(r)} /\ Go(r, "rollback")
  /\ UNCHANGED <<schema, metadata, cache, restarts>>

\* Variant: a failed DDL batch is only logged.
GenerateSchemaOrNot(r) ==
  LET name == SchemaOf[req[r].data]
  IN /\ At(r, "ddl")
     /\ \/ schema' = [schema EXCEPT ![name] = IF @ = Nothing THEN req[r].data ELSE @]
        \/ UNCHANGED schema
     /\ Go(r, "seed")
     /\ UNCHANGED <<row, metadata, cache, restarts>>

\* generate_schema: one implicit transaction of IF NOT EXISTS statements, so the
\* tables of an existing schema stay.  It too may be reported as failed after it
\* took effect.
GenerateSchema(r) ==
  LET name == SchemaOf[req[r].data]
      generated == [schema EXCEPT ![name] = IF @ = Nothing THEN req[r].data ELSE @]
  IN /\ At(r, "ddl")
     /\ \/ schema' = generated /\ Go(r, "seed")
        \/ schema' \in {schema, generated} /\ Go(r, "error")
     /\ UNCHANGED <<row, metadata, cache, restarts>>

\* seed_metadata: a failure, of which a schema dropped meanwhile is a cause, is
\* only logged.
SeedMetadata(r) ==
  LET name == SchemaOf[req[r].data]
  IN /\ At(r, "seed")
     /\ \/ schema[name] # Nothing /\ metadata' = [metadata EXCEPT ![name] = req[r].data]
        \/ UNCHANGED metadata
     /\ Go(r, "status")
     /\ UNCHANGED <<row, schema, cache, restarts>>

\* update_program_status: an UPDATE that affects no row succeeds, and one that took
\* effect may be reported as failed.
SetCreated(r) ==
  /\ At(r, "status")
  /\ \/ SetStatus("schema_created") /\ Answer(r, "created")
     \/ SetStatus("schema_created") /\ Go(r, "error")
     \/ UNCHANGED row /\ Go(r, "error")
  /\ UNCHANGED <<schema, metadata, cache, restarts>>

SetError(r) ==
  /\ At(r, "error")
  /\ SetStatus("error") \/ UNCHANGED row
  /\ Go(r, "rollback")
  /\ UNCHANGED <<schema, metadata, cache, restarts>>

\* Variant: only an upload is rolled back.
RollsBackUploads(r) == ~req[r].wasCached

RollsBack(r) == ~req[r].wasCached \/ req[r].fetched

\* rollback_cache removes the entry, whoever put it there.
Rollback(r) ==
  /\ At(r, "rollback")
  /\ cache' = IF RollsBack(r) THEN Nothing ELSE cache
  /\ Answer(r, "failed")
  /\ UNCHANGED <<row, schema, metadata, restarts>>

(***************************************************************************)
(* delete_program and hard_delete                                          *)
(***************************************************************************)

SoftDelete(r) ==
  /\ At(r, "new")
  /\ SetStatus("stopped")
  /\ req' = [req EXCEPT ![r].pc = "done", ![r].kind = "delete",
                          ![r].result = IF row = Nothing THEN "failed" ELSE "stopped"]
  /\ UNCHANGED <<schema, metadata, cache, restarts>>

\* The schema name is read first; the steps that follow use it.
HardDelete(r) ==
  /\ At(r, "new")
  /\ req' = IF row = Nothing
            THEN [req EXCEPT ![r].pc = "done", ![r].kind = "delete", ![r].result = "failed"]
            ELSE [req EXCEPT ![r].pc = "drop", ![r].kind = "delete", ![r].data = row.idl]
  /\ UNCHANGED <<row, schema, metadata, cache, restarts>>

\* DROP SCHEMA runs on the pool, outside the transaction of the DELETEs.
DropSchema(r) ==
  LET name == SchemaOf[req[r].data]
  IN /\ At(r, "drop")
     /\ schema' = [schema EXCEPT ![name] = Nothing]
     /\ metadata' = [metadata EXCEPT ![name] = Nothing]
     /\ Go(r, "delete")
     /\ UNCHANGED <<row, cache, restarts>>

DeleteRows(r) ==
  /\ At(r, "delete")
  /\ row' = Nothing
  /\ Go(r, "remove")
  /\ UNCHANGED <<schema, metadata, cache, restarts>>

RemoveProgram(r) ==
  /\ At(r, "remove")
  /\ cache' = Nothing
  /\ Answer(r, "deleted")
  /\ UNCHANGED <<row, schema, metadata, restarts>>

\* A statement fails, or the client goes away: the handler is not spawned, so its
\* future is dropped between two steps.
AbandonDelete(r) ==
  /\ req[r].pc \in {"drop", "delete", "remove"}
  /\ Answer(r, "abandoned")
  /\ UNCHANGED <<row, schema, metadata, cache, restarts>>

(***************************************************************************)
(* Start-up                                                                *)
(***************************************************************************)

\* query_registered_programs selects the rows with status schema_created.
Seeds == IF row = Nothing THEN FALSE ELSE row.status = "schema_created"

\* The process dies with the requests it was serving; start-up fills the cache
\* from the rows.
Restart ==
  /\ restarts < MaxRestarts
  /\ restarts' = restarts + 1
  /\ cache' = IF Seeds THEN row.idl ELSE Nothing
  /\ req' = [r \in Req |-> IF req[r].pc \in {"new", "done"}
                           THEN req[r]
                           ELSE [req[r] EXCEPT !.pc = "done", !.result = "lost"]]
  /\ UNCHANGED <<row, schema, metadata>>

(***************************************************************************)
(* Specification                                                           *)
(***************************************************************************)

Init ==
  /\ row = Nothing /\ cache = Nothing
  /\ schema = [n \in SchemaName |-> Nothing]
  /\ metadata = [n \in SchemaName |-> Nothing]
  /\ req = [r \in Req |-> Fresh]
  /\ restarts = 0

Register(r) ==
  \/ \E i \in MaybeIdl : Post(r, i)
  \/ Lookup(r) \/ Fetch(r) \/ InsertFetched(r) \/ Prepare(r) \/ RejectUpload(r)
  \/ WriteRegistration(r) \/ GenerateSchema(r) \/ SeedMetadata(r)
  \/ SetCreated(r) \/ SetError(r) \/ Rollback(r)

Delete(r) ==
  SoftDelete(r) \/ HardDelete(r) \/ DropSchema(r) \/ DeleteRows(r) \/ RemoveProgram(r)
    \/ AbandonDelete(r)

Next == (\E r \in Req : Register(r) \/ Delete(r)) \/ Restart

Spec == Init /\ [][Next]_vars

(***************************************************************************)
(* Properties                                                              *)
(***************************************************************************)

Request ==
  [pc : {"new", "lookup", "fetch", "insert", "prepare", "write", "ddl", "seed", "status",
         "error", "rollback", "drop", "delete", "remove", "done"},
   kind : {"none", "post", "delete"}, input : MaybeIdl, data : MaybeIdl,
   wasCached : BOOLEAN, fetched : BOOLEAN,
   result : {"none", "created", "failed", "stopped", "deleted", "abandoned", "lost"}]

\* The types of the variables; a row always has an IDL.
RegistryTypeOK ==
  /\ row \in Row \union {Nothing}
  /\ cache \in MaybeIdl
  /\ schema \in [SchemaName -> MaybeIdl]
  /\ metadata \in [SchemaName -> MaybeIdl]
  /\ req \in [Req -> Request]
  /\ restarts \in 0..MaxRestarts

Quiet == \A r \in Req : req[r].pc \in {"new", "done"}

NoDelete == \A r \in Req : req[r].kind # "delete"

Created == {r \in Req : req[r].result = "created"}

HalfDeleted == \E r \in Req : req[r].result = "abandoned"

\* Whatever requests ran, failed and rolled back, once none is in flight the IDL
\* the API decodes and filters with is the one the program is registered with,
\* unless a hard delete stopped half-way.
CacheAgreesWhenQuiet ==
  Quiet /\ ~HalfDeleted /\ cache # Nothing /\ row # Nothing => cache = row.idl

\* As long as nothing is deleted, a program that start-up will index has the tables
\* of its own IDL, and metadata of no other.
SchemaMatchesRow ==
  NoDelete /\ Seeds =>
    /\ schema[SchemaOf[row.idl]] = row.idl
    /\ metadata[SchemaOf[row.idl]] \in {Nothing, row.idl}

\* As long as nothing is deleted, of the requests that race to register a program
\* one at most is told 201, and the row stays the one it wrote.
OneRegistrationWins ==
  NoDelete =>
    \A r \in Created : Created = {r} /\ row = [status |-> "schema_created", idl |-> req[r].data]

(***************************************************************************)
(* What the documentation says                                             *)
(***************************************************************************)

\* README.md, Error Responses: PROGRAM_NOT_FOUND is for "Program ID not registered".
\* The handlers give that answer when the cache has no IDL of the program.  So once
\* a registration was answered 201, nothing was deleted and nothing is in flight,
\* the cache has one.
RegisteredIsServed == NoDelete /\ Quiet /\ Created # {} => cache # Nothing
=============================================================================
