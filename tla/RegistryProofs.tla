--------------------------- MODULE RegistryProofs ---------------------------
(***************************************************************************)
(* Proofs about Registry for any number of requests, IDLs and schemas.     *)
(***************************************************************************)
EXTENDS Registry, TLAPS

\* The IDL a request works with from these steps on, the request that has done
\* nothing, and the steps of a deletion.
RequestOK(r) ==
  /\ req[r].pc \in {"insert", "write", "ddl", "seed", "status", "error"} => req[r].data \in Idl
  /\ req[r].pc = "new" => req[r].kind = "none"
  /\ req[r].pc \in {"drop", "delete", "remove"} => req[r].kind = "delete"
  /\ req[r].pc # "done" => req[r].result = "none"

RequestInv == \A r \in Req : RequestOK(r)

\* Without deletions the row is written once.  The request that wrote it and has
\* not failed since is its holder.
Holds(r) == req[r].pc \in {"ddl", "seed", "status", "error"} \/ req[r].result = "created"

HolderInv ==
  /\ \A r, s \in Req : Holds(r) /\ Holds(s) => r = s
  /\ \A r \in Req : Holds(r) => row # Nothing /\ row.idl = req[r].data
  /\ \A r \in Req : req[r].result = "created" => row.status = "schema_created"

\* Only the holder creates tables.
OfRow(i) == i = Nothing \/ (row # Nothing /\ i = row.idl)

TablesInv ==
  /\ \A n \in SchemaName : OfRow(schema[n]) /\ OfRow(metadata[n])
  /\ Seeds => schema[SchemaOf[row.idl]] = row.idl
  /\ \A r \in Req : req[r].pc \in {"seed", "status"} => schema[SchemaOf[req[r].data]] # Nothing

\* A request that is going to remove the cached IDL if it does not become a holder.
WillClear(r) ==
  \/ req[r].pc \in {"drop", "delete", "remove"}
  \/ req[r].pc = "prepare" /\ req[r].fetched
  \/ req[r].pc \in {"write", "rollback"} /\ RollsBack(r)

\* The cached IDL is that of the row, or of the request about to write the row,
\* unless another request is going to remove it.
CacheInv ==
  /\ row # Nothing =>
       cache \in {Nothing, row.idl} \/ HalfDeleted \/ \E r \in Req : WillClear(r)
  /\ row = Nothing =>
       \A r \in Req : At(r, "write") =>
         \/ cache \in {Nothing, req[r].data} \/ HalfDeleted
         \/ \E s \in Req : s # r /\ WillClear(s)

RegistryInv ==
  /\ RegistryTypeOK /\ RequestInv /\ CacheInv
  /\ NoDelete => HolderInv /\ TablesInv

-----------------------------------------------------------------------------
(* What a step does to the requests.                                       *)

Others(r) == \A s \in Req : s # r => req'[s] = req[s]

\* A request that moves on keeps everything but its pc.
LEMMA GoEffect ==
  ASSUME req \in [Req -> Request], NEW r \in Req, NEW p, Go(r, p)
  PROVE  /\ Others(r) /\ req'[r].pc = p
         /\ req'[r].kind = req[r].kind /\ req'[r].input = req[r].input
         /\ req'[r].data = req[r].data /\ req'[r].wasCached = req[r].wasCached
         /\ req'[r].fetched = req[r].fetched /\ req'[r].result = req[r].result
BY DEF Go, Others, Request

\* A request that is answered keeps everything but its pc and result.
LEMMA AnswerEffect ==
  ASSUME req \in [Req -> Request], NEW r \in Req, NEW res, Answer(r, res)
  PROVE  /\ Others(r) /\ req'[r].pc = "done" /\ req'[r].result = res
         /\ req'[r].kind = req[r].kind /\ req'[r].input = req[r].input
         /\ req'[r].data = req[r].data /\ req'[r].wasCached = req[r].wasCached
         /\ req'[r].fetched = req[r].fetched
BY DEF Answer, Others, Request

\* Moving on keeps the types.
LEMMA GoType ==
  ASSUME req \in [Req -> Request], NEW r \in Req,
         NEW p \in {"fetch", "prepare", "ddl", "seed", "status", "error", "rollback", "delete",
                    "remove"},
         Go(r, p)
  PROVE  req' \in [Req -> Request]
BY DEF Go, Request

\* An answer keeps the types.
LEMMA AnswerType ==
  ASSUME req \in [Req -> Request], NEW r \in Req,
         NEW res \in {"created", "failed", "deleted", "abandoned"}, Answer(r, res)
  PROVE  req' \in [Req -> Request]
<1> DEFINE q == [req[r] EXCEPT !.pc = "done", !.result = res]
<1>1. req' = [req EXCEPT ![r] = q]
  BY Zenon DEF Answer
<1>2. req[r] \in Request
  OBVIOUS
<1>3. q \in Request
  BY <1>2, Zenon DEF Request
<1> QED
  BY <1>1, <1>3


\* The steps that set more of the request.
LEMMA PostEffect ==
  ASSUME req \in [Req -> Request], NEW r \in Req, NEW i \in MaybeIdl, Post(r, i)
  PROVE  /\ req' \in [Req -> Request] /\ Others(r)
         /\ req'[r].pc \in {"lookup", "prepare"} /\ req'[r].kind = "post"
         /\ req'[r].fetched = req[r].fetched /\ req'[r].result = req[r].result
<1> DEFINE p == IF i = Nothing THEN "lookup" ELSE "prepare"
           q == [req[r] EXCEPT !.pc = p, !.kind = "post", !.input = i]
<1>1. req' = [req EXCEPT ![r] = q] /\ p \in {"lookup", "prepare"}
  BY Zenon DEF Post
<1> HIDE DEF p
<1>2. req[r] \in Request
  OBVIOUS
<1>3. /\ q \in Request /\ q.pc = p /\ q.kind = "post"
      /\ q.fetched = req[r].fetched /\ q.result = req[r].result
  BY <1>1, <1>2, Zenon DEF Request
<1> QED
  BY <1>1, <1>3 DEF Others

\* fetch_idl_standalone gives the request its IDL.
LEMMA FetchedEffect ==
  ASSUME req \in [Req -> Request], NEW r \in Req, NEW i \in Idl,
         req' = [req EXCEPT ![r].pc = "insert", ![r].data = i]
  PROVE  /\ req' \in [Req -> Request] /\ Others(r)
         /\ req'[r].pc = "insert" /\ req'[r].data = i /\ req'[r].kind = req[r].kind
         /\ req'[r].fetched = req[r].fetched /\ req'[r].result = req[r].result
<1> DEFINE q == [req[r] EXCEPT !.pc = "insert", !.data = i]
<1>1. req' = [req EXCEPT ![r] = q] /\ req[r] \in Request
  BY Zenon
<1>2. /\ q \in Request /\ q.pc = "insert" /\ q.data = i /\ q.kind = req[r].kind
      /\ q.fetched = req[r].fetched /\ q.result = req[r].result
  BY <1>1 DEF Request, MaybeIdl
<1> QED
  BY <1>1, <1>2 DEF Others

\* insert_fetched_idl marks the request as one that fetched.
LEMMA InsertEffect ==
  ASSUME req \in [Req -> Request], NEW r \in Req, InsertFetched(r)
  PROVE  /\ req' \in [Req -> Request] /\ Others(r)
         /\ req'[r].pc = "prepare" /\ req'[r].fetched = TRUE
         /\ req'[r].kind = req[r].kind /\ req'[r].result = req[r].result
<1> DEFINE q == [req[r] EXCEPT !.pc = "prepare", !.fetched = TRUE]
<1>1. req' = [req EXCEPT ![r] = q] /\ req[r] \in Request
  BY Zenon DEF InsertFetched
<1>2. /\ q \in Request /\ q.pc = "prepare" /\ q.fetched = TRUE
      /\ q.kind = req[r].kind /\ q.result = req[r].result
  BY <1>1, Zenon DEF Request
<1> QED
  BY <1>1, <1>2 DEF Others

\* prepare_registration fixes the IDL of the request and what it found cached.
LEMMA PreparedEffect ==
  ASSUME RegistryTypeOK, NEW r \in Req, Prepared(r) # Nothing, Prepare(r)
  PROVE  /\ req' \in [Req -> Request] /\ Others(r) /\ Prepared(r) \in Idl
         /\ req'[r].pc = "write" /\ req'[r].data = Prepared(r)
         /\ req'[r].wasCached = (cache # Nothing) /\ req'[r].fetched = req[r].fetched
         /\ req'[r].kind = req[r].kind /\ req'[r].result = req[r].result
<1> DEFINE w == cache # Nothing
           q == [req[r] EXCEPT !.pc = "write", !.data = Prepared(r), !.wasCached = w]
<1>1. req' = [req EXCEPT ![r] = q]
  BY Zenon DEF Prepare
<1>2. req[r] \in Request /\ req \in [Req -> Request] /\ cache \in MaybeIdl
  BY DEF RegistryTypeOK
<1>3. Prepared(r) \in Idl /\ Prepared(r) \in MaybeIdl
  BY <1>2 DEF Prepared, Request, MaybeIdl
<1>4. w \in BOOLEAN
  OBVIOUS
<1> HIDE DEF w
<1>5. /\ q \in Request /\ q.pc = "write" /\ q.data = Prepared(r) /\ q.wasCached = w
      /\ q.fetched = req[r].fetched /\ q.kind = req[r].kind /\ q.result = req[r].result
  BY <1>2, <1>3, <1>4, Zenon DEF Request
<1> QED
  BY <1>1, <1>2, <1>3, <1>5 DEF Others, w

\* delete_program is answered at once or goes on to drop the schema.
LEMMA DeleteEffect ==
  ASSUME RegistryTypeOK, NEW r \in Req, SoftDelete(r) \/ HardDelete(r)
  PROVE  /\ req' \in [Req -> Request] /\ Others(r) /\ req'[r].kind = "delete"
         /\ \/ req'[r].pc = "done" /\ req'[r].result \in {"failed", "stopped"}
            \/ req'[r].pc = "drop" /\ req'[r].result = req[r].result
<1>1. req[r] \in Request /\ req \in [Req -> Request] /\ (row # Nothing => row.idl \in MaybeIdl)
  BY DEF RegistryTypeOK, Row, MaybeIdl
<1> DEFINE done(x) == [req[r] EXCEPT !.pc = "done", !.kind = "delete", !.result = x]
           drop == [req[r] EXCEPT !.pc = "drop", !.kind = "delete", !.data = row.idl]
<1>2. \/ \E x \in {"failed", "stopped"} : req' = [req EXCEPT ![r] = done(x)]
      \/ row # Nothing /\ req' = [req EXCEPT ![r] = drop]
  <2>1. CASE SoftDelete(r)
    <3>1. PICK x : x = IF row = Nothing THEN "failed" ELSE "stopped"
      OBVIOUS
    <3>2. req' = [req EXCEPT ![r] = done(x)]
      BY <2>1, <3>1, Zenon DEF SoftDelete
    <3> QED  BY <3>1, <3>2, Zenon
  <2>2. CASE HardDelete(r) /\ row = Nothing
    <3>1. req' = [req EXCEPT ![r] = done("failed")]
      BY <2>2, Zenon DEF HardDelete
    <3> QED  BY <3>1
  <2>3. CASE HardDelete(r) /\ row # Nothing
    BY <2>3, Zenon DEF HardDelete
  <2> QED  BY <2>1, <2>2, <2>3
<1>3. ASSUME NEW x \in {"failed", "stopped"}
      PROVE  /\ done(x) \in Request /\ done(x).pc = "done" /\ done(x).kind = "delete"
             /\ done(x).result = x
  BY <1>1, Zenon DEF Request
<1>4. ASSUME row # Nothing
      PROVE  /\ drop \in Request /\ drop.pc = "drop" /\ drop.kind = "delete"
             /\ drop.result = req[r].result
  BY <1>1, <1>4, Zenon DEF Request
<1> HIDE DEF done, drop
<1>5. ASSUME NEW x \in {"failed", "stopped"}, req' = [req EXCEPT ![r] = done(x)]
      PROVE  /\ req' \in [Req -> Request] /\ Others(r) /\ req'[r].kind = "delete"
             /\ req'[r].pc = "done" /\ req'[r].result = x
  BY <1>1, <1>3, <1>5 DEF Others
<1>6. ASSUME row # Nothing, req' = [req EXCEPT ![r] = drop]
      PROVE  /\ req' \in [Req -> Request] /\ Others(r) /\ req'[r].kind = "delete"
             /\ req'[r].pc = "drop" /\ req'[r].result = req[r].result
  BY <1>1, <1>4, <1>6 DEF Others
<1> QED
  BY <1>2, <1>5, <1>6, Zenon

-----------------------------------------------------------------------------
(* Types.                                                                  *)

\* An UPDATE changes the status of a row that is there.
LEMMA SetStatusEffect ==
  ASSUME row \in Row \union {Nothing}, NEW to \in {"schema_created", "error", "stopped"},
         SetStatus(to)
  PROVE  /\ row' \in Row \union {Nothing} /\ (row' = Nothing <=> row = Nothing)
         /\ row # Nothing => row'.idl = row.idl /\ row'.status = to
BY NothingIsNone DEF SetStatus, Row

\* A request that writes its row writes one with its IDL.
LEMMA RegisteredRow ==
  ASSUME NEW r \in Req, req[r].data \in Idl
  PROVE  /\ Registered(r) \in Row /\ Registered(r) # Nothing
         /\ Registered(r).idl = req[r].data /\ Registered(r).status = "registered"
BY NothingIsNone DEF Registered, Row

\* A step changes only its own request.
LEMMA RequestKept ==
  ASSUME RequestInv, NEW r \in Req, Others(r), RequestOK(r)'
  PROVE  RequestInv'
BY DEF RequestInv, RequestOK, Others

\* The part of the types that a step on a request may disturb.
StateType == row \in Row \union {Nothing} /\ cache \in MaybeIdl

\* What every step on a request r does: the other requests stay.
Moved(r) ==
  /\ StateType' /\ req' \in [Req -> Request] /\ RequestInv' /\ Others(r)
  /\ req[r].kind = "delete" => req'[r].kind = "delete"

\* Every step of do_register keeps the types and what is known of the requests.
LEMMA RegisterTypes ==
  ASSUME RegistryInv, NEW r \in Req, Register(r)
  PROVE  Moved(r)
<1>1. /\ req \in [Req -> Request] /\ req[r] \in Request /\ RequestInv /\ RequestOK(r)
      /\ StateType /\ RegistryTypeOK
  BY DEF RegistryInv, RegistryTypeOK, RequestInv, StateType
<1>2. ASSUME NEW i \in MaybeIdl, Post(r, i)
      PROVE  Moved(r)
  <2>1. req' \in [Req -> Request] /\ Others(r) /\ req'[r].kind = "post" /\ req[r].kind = "none"
    BY <1>1, <1>2, PostEffect, Zenon DEF Post, At, RequestOK
  <2>2. RequestOK(r)'
    BY <1>1, <1>2, <2>1, PostEffect, Zenon DEF Post, At, RequestOK
  <2> QED  BY <1>1, <1>2, <2>1, <2>2, RequestKept DEF Moved, Post, StateType
<1>3. CASE Lookup(r)
  <2>1. PICK p \in {"fetch", "prepare"} : Go(r, p)
    BY <1>3 DEF Lookup
  <2>2. /\ req' \in [Req -> Request] /\ Others(r) /\ RequestOK(r)'
        /\ req'[r].kind = req[r].kind
    BY <1>1, <1>3, <2>1, GoEffect, GoType DEF Lookup, At, RequestOK
  <2> QED  BY <1>1, <1>3, <2>2, RequestKept DEF Moved, Lookup, StateType
<1>4. CASE Fetch(r)
  <2>1. CASE Answer(r, "failed")
    BY <1>1, <1>4, <2>1, AnswerEffect, AnswerType, RequestKept DEF Moved, Fetch, At, RequestOK, StateType
  <2>2. ASSUME NEW i \in Idl, req' = [req EXCEPT ![r].pc = "insert", ![r].data = i]
        PROVE  Moved(r)
    <3>1. StateType'
      BY <1>1, <1>4, Zenon DEF Fetch, StateType
    <3>2. req' \in [Req -> Request] /\ Others(r) /\ req'[r].kind = req[r].kind
      BY <1>1, <2>2, FetchedEffect, Zenon
    <3>3. RequestOK(r)'
      BY <1>1, <1>4, <2>2, FetchedEffect, Zenon DEF Fetch, At, RequestOK
    <3>4. RequestInv'
      BY <1>1, <3>2, <3>3, RequestKept, Zenon
    <3> QED
      BY <3>1, <3>2, <3>4, Zenon DEF Moved
  <2> QED  BY <1>4, <2>1, <2>2 DEF Fetch
<1>5. CASE InsertFetched(r)
  <2>1. StateType'
    BY <1>1, <1>5 DEF InsertFetched, At, RequestOK, StateType, MaybeIdl
  <2>2. req' \in [Req -> Request] /\ Others(r) /\ req'[r].kind = req[r].kind
    BY <1>1, <1>5, InsertEffect, Zenon
  <2>3. RequestOK(r)'
    BY <1>1, <1>5, InsertEffect, Zenon DEF InsertFetched, At, RequestOK
  <2>4. RequestInv'
    BY <1>1, <2>2, <2>3, RequestKept, Zenon
  <2> QED  BY <2>1, <2>2, <2>4, Zenon DEF Moved
<1>6. CASE Prepare(r) /\ Prepared(r) # Nothing
  <2>1. StateType'
    BY <1>1, <1>6, PreparedEffect, Zenon DEF Prepare, StateType, MaybeIdl
  <2> QED  BY <1>1, <1>6, <2>1, PreparedEffect, RequestKept, Zenon DEF Moved, Prepare, At, RequestOK
<1>7. CASE Prepare(r) /\ Prepared(r) = Nothing
  BY <1>1, <1>7, AnswerEffect, AnswerType, RequestKept
     DEF Moved, Prepare, At, RequestOK, StateType, MaybeIdl
<1>8. CASE RejectUpload(r)
  BY <1>1, <1>8, AnswerEffect, AnswerType, RequestKept DEF Moved, RejectUpload, At, RequestOK, StateType
<1>9. CASE WriteRegistration(r)
  <2>1. req[r].data \in Idl /\ Registered(r) \in Row
    BY <1>1, <1>9, RegisteredRow DEF WriteRegistration, At, RequestOK
  <2>2. StateType'
    BY <1>1, <1>9, <2>1 DEF WriteRegistration, StateType
  <2>3. Go(r, "ddl") \/ Go(r, "rollback")
    BY <1>9, Zenon DEF WriteRegistration
  <2> QED  BY <1>1, <1>9, <2>1, <2>2, <2>3, GoEffect, GoType, RequestKept
              DEF Moved, WriteRegistration, At, RequestOK
<1>10. CASE GenerateSchema(r)
  BY <1>1, <1>10, GoEffect, GoType, RequestKept DEF Moved, GenerateSchema, At, RequestOK, StateType
<1>11. CASE SeedMetadata(r)
  BY <1>1, <1>11, GoEffect, GoType, RequestKept DEF Moved, SeedMetadata, At, RequestOK, StateType
<1>12. CASE SetCreated(r)
  <2>1. StateType'
    BY <1>1, <1>12, SetStatusEffect DEF SetCreated, StateType
  <2>2. CASE Answer(r, "created")
    BY <1>1, <1>12, <2>1, <2>2, AnswerEffect, AnswerType, RequestKept DEF Moved, SetCreated, At, RequestOK
  <2>3. CASE Go(r, "error")
    BY <1>1, <1>12, <2>1, <2>3, GoEffect, GoType, RequestKept DEF Moved, SetCreated, At, RequestOK
  <2> QED  BY <1>12, <2>2, <2>3 DEF SetCreated
<1>13. CASE SetError(r)
  <2>1. StateType'
    BY <1>1, <1>13, SetStatusEffect DEF SetError, StateType
  <2> QED  BY <1>1, <1>13, <2>1, GoEffect, GoType, RequestKept DEF Moved, SetError, At, RequestOK
<1>14. CASE Rollback(r)
  BY <1>1, <1>14, AnswerEffect, AnswerType, RequestKept
     DEF Moved, Rollback, At, RequestOK, StateType, MaybeIdl
<1> QED
  BY <1>2, <1>3, <1>4, <1>5, <1>6, <1>7, <1>8, <1>9, <1>10, <1>11, <1>12, <1>13, <1>14 DEF Register

\* So does every step of delete_program.
LEMMA DeleteTypes ==
  ASSUME RegistryInv, NEW r \in Req, Delete(r)
  PROVE  Moved(r)
<1>1. /\ req \in [Req -> Request] /\ req[r] \in Request /\ RequestInv /\ RequestOK(r)
      /\ StateType /\ RegistryTypeOK
  BY DEF RegistryInv, RegistryTypeOK, RequestInv, StateType
<1>2. CASE SoftDelete(r)
  <2>1. StateType'
    BY <1>1, <1>2, SetStatusEffect DEF SoftDelete, StateType
  <2>2. req' \in [Req -> Request] /\ Others(r) /\ req'[r].kind = "delete"
    BY <1>1, <1>2, DeleteEffect
  <2>3. RequestOK(r)'
    BY <1>1, <1>2, <2>2, DeleteEffect, Zenon DEF SoftDelete, At, RequestOK
  <2> QED  BY <1>1, <2>1, <2>2, <2>3, RequestKept DEF Moved
<1>3. CASE HardDelete(r)
  <2>1. req' \in [Req -> Request] /\ Others(r) /\ req'[r].kind = "delete"
    BY <1>1, <1>3, DeleteEffect
  <2>2. RequestOK(r)'
    BY <1>1, <1>3, <2>1, DeleteEffect, Zenon DEF HardDelete, At, RequestOK
  <2> QED  BY <1>1, <1>3, <2>1, <2>2, RequestKept DEF Moved, HardDelete, StateType
<1>4. CASE DropSchema(r)
  BY <1>1, <1>4, GoEffect, GoType, RequestKept DEF Moved, DropSchema, At, RequestOK, StateType
<1>5. CASE DeleteRows(r)
  BY <1>1, <1>5, GoEffect, GoType, RequestKept DEF Moved, DeleteRows, At, RequestOK, StateType
<1>6. CASE RemoveProgram(r)
  BY <1>1, <1>6, AnswerEffect, AnswerType, RequestKept
     DEF Moved, RemoveProgram, At, RequestOK, StateType, MaybeIdl
<1>7. CASE AbandonDelete(r)
  BY <1>1, <1>7, AnswerEffect, AnswerType, RequestKept DEF Moved, AbandonDelete, RequestOK, StateType
<1> QED
  BY <1>2, <1>3, <1>4, <1>5, <1>6, <1>7 DEF Delete

\* The tables and their metadata stay those of IDLs.
LEMMA SchemaTypes ==
  ASSUME RegistryInv, NEW r \in Req, Register(r) \/ Delete(r)
  PROVE  /\ schema' \in [SchemaName -> MaybeIdl] /\ metadata' \in [SchemaName -> MaybeIdl]
         /\ restarts' = restarts
<1>1. /\ schema \in [SchemaName -> MaybeIdl] /\ metadata \in [SchemaName -> MaybeIdl]
      /\ RequestOK(r) /\ Nothing \in MaybeIdl
  BY DEF RegistryInv, RegistryTypeOK, RequestInv, MaybeIdl
<1>2. CASE GenerateSchema(r)
  <2>1. req[r].data \in MaybeIdl
    BY <1>1, <1>2 DEF GenerateSchema, At, RequestOK, MaybeIdl
  <2> QED  BY <1>1, <1>2, <2>1 DEF GenerateSchema
<1>3. CASE SeedMetadata(r)
  <2>1. req[r].data \in MaybeIdl
    BY <1>1, <1>3 DEF SeedMetadata, At, RequestOK, MaybeIdl
  <2> QED  BY <1>1, <1>3, <2>1 DEF SeedMetadata
<1>4. CASE DropSchema(r)
  BY <1>1, <1>4, Zenon DEF DropSchema
<1>5. CASE UNCHANGED <<schema, metadata, restarts>>
  BY <1>1, <1>5
<1>6. CASE Register(r)
  BY <1>2, <1>3, <1>5, <1>6, Zenon
     DEF Register, Post, Lookup, Fetch, InsertFetched, Prepare, RejectUpload, WriteRegistration,
         SetCreated, SetError, Rollback
<1>7. CASE Delete(r)
  BY <1>4, <1>5, <1>7
     DEF Delete, SoftDelete, HardDelete, DeleteRows, RemoveProgram, AbandonDelete
<1> QED
  BY <1>6, <1>7

-----------------------------------------------------------------------------
(* The holder of the row and the tables.                                   *)

\* A step that leaves the row and the tables alone, on a request that does not
\* hold the row after it.
LEMMA NotHolding ==
  ASSUME HolderInv, TablesInv, NEW r \in Req, Others(r), UNCHANGED <<row, schema, metadata>>,
         ~Holds(r)'
  PROVE  HolderInv' /\ TablesInv'
<1>1. \A s \in Req : Holds(s)' => Holds(s) /\ req'[s] = req[s]
  BY DEF Others, Holds
<1>2. HolderInv'
  BY <1>1 DEF HolderInv, Holds
<1>3. TablesInv'
  BY <1>1 DEF TablesInv, OfRow, Seeds, Holds
<1> QED
  BY <1>2, <1>3

\* write_registration makes a holder only where there was no row.
LEMMA WriteHolder ==
  ASSUME RegistryInv, NoDelete, NEW r \in Req, WriteRegistration(r), Moved(r)
  PROVE  HolderInv' /\ TablesInv'
<1>1. /\ req \in [Req -> Request] /\ RequestOK(r) /\ HolderInv /\ TablesInv
      /\ At(r, "write") /\ UNCHANGED <<schema, metadata>> /\ Others(r)
  BY DEF RegistryInv, RegistryTypeOK, RequestInv, WriteRegistration, Moved
<1>2. req[r].data \in Idl /\ req[r].result = "none"
  BY <1>1 DEF RequestOK, At
<1>3. CASE UNCHANGED row /\ Go(r, "rollback")
  <2>1. ~Holds(r)'
    BY <1>1, <1>2, <1>3, GoEffect DEF Holds
  <2> QED  BY <1>1, <1>3, <2>1, NotHolding
<1>4. ASSUME row = Nothing, row' = Registered(r), NEW p \in {"ddl", "rollback"}, Go(r, p)
      PROVE  HolderInv' /\ TablesInv'
  <2>1. /\ req'[r].pc = p /\ req'[r].data = req[r].data /\ req'[r].result = "none"
    BY <1>1, <1>2, <1>4, GoEffect
  <2>2. row' # Nothing /\ row'.idl = req'[r].data /\ row'.status = "registered"
    BY <1>2, <1>4, <2>1, RegisteredRow
  <2>3. \A s \in Req : ~Holds(s)
    BY <1>1, <1>4 DEF HolderInv
  <2>4. \A s \in Req : Holds(s)' => s = r
    BY <1>1, <2>3 DEF Others, Holds
  <2>5. HolderInv'
    BY <2>1, <2>2, <2>4 DEF HolderInv, Holds
  <2>6. \A n \in SchemaName : schema'[n] = Nothing /\ metadata'[n] = Nothing
    BY <1>1, <1>4 DEF TablesInv, OfRow
  <2>7. \A s \in Req : req'[s].pc \notin {"seed", "status"}
    BY <1>4, <2>1, <2>4 DEF Holds
  <2>8. TablesInv'
    BY <2>2, <2>6, <2>7 DEF TablesInv, OfRow, Seeds
  <2> QED  BY <2>5, <2>8
<1>5. \/ UNCHANGED row /\ Go(r, "rollback")
      \/ row = Nothing /\ row' = Registered(r) /\ (Go(r, "ddl") \/ Go(r, "rollback"))
  BY DEF WriteRegistration, Conflicts
<1> QED
  BY <1>3, <1>4, <1>5

\* generate_schema and seed_metadata run for the holder, with its IDL.
LEMMA TablesHolder ==
  ASSUME RegistryInv, NoDelete, NEW r \in Req, GenerateSchema(r) \/ SeedMetadata(r), Moved(r)
  PROVE  HolderInv' /\ TablesInv'
<1>1. /\ req \in [Req -> Request] /\ RequestOK(r) /\ HolderInv /\ TablesInv
      /\ req[r].pc \in {"ddl", "seed"} /\ UNCHANGED row /\ Others(r)
      /\ schema \in [SchemaName -> MaybeIdl] /\ metadata \in [SchemaName -> MaybeIdl]
  BY DEF RegistryInv, RegistryTypeOK, RequestInv, GenerateSchema, SeedMetadata, Moved, At
<1>2. /\ Holds(r) /\ req[r].data \in Idl /\ req[r].result = "none"
      /\ row # Nothing /\ row.idl = req[r].data /\ row.idl # Nothing
  BY <1>1, NothingIsNone, Zenon DEF RequestOK, Holds, HolderInv
<1>3. /\ req'[r].pc \in {"seed", "error", "status"} /\ req'[r].data = req[r].data
      /\ req'[r].result = req[r].result
  BY <1>1, GoEffect DEF GenerateSchema, SeedMetadata
<1>4. \A s \in Req : s # r => ~Holds(s) /\ ~Holds(s)' /\ req'[s] = req[s]
  BY <1>1, <1>2 DEF HolderInv, Holds, Others
<1>5. HolderInv'
  BY <1>1, <1>2, <1>3, <1>4 DEF HolderInv, Holds
<1> DEFINE name == SchemaOf[row.idl]
<1>6. name \in SchemaName
  BY <1>2 DEF SchemaName
<1>7. CASE GenerateSchema(r)
  <2>1. UNCHANGED metadata
    BY <1>7, Zenon DEF GenerateSchema
  <2>2. \/ UNCHANGED schema /\ req'[r].pc = "error"
        \/ schema' = [schema EXCEPT ![name] = IF @ = Nothing THEN row.idl ELSE @]
    BY <1>1, <1>2, <1>7, GoEffect DEF GenerateSchema
  <2>3. CASE schema' = [schema EXCEPT ![name] = IF @ = Nothing THEN row.idl ELSE @]
    <3>1. schema'[name] = row.idl /\ \A n \in SchemaName : n # name => schema'[n] = schema[n]
      BY <1>1, <1>6, <2>3 DEF TablesInv, OfRow
    <3> QED  BY <1>1, <1>2, <1>3, <1>4, <1>5, <2>1, <3>1 DEF TablesInv, OfRow, Seeds, Holds
  <2>4. CASE UNCHANGED schema /\ req'[r].pc = "error"
    BY <1>1, <1>4, <1>5, <2>1, <2>4 DEF TablesInv, OfRow, Seeds, Holds
  <2> QED  BY <2>2, <2>3, <2>4, Zenon
<1>8. CASE SeedMetadata(r)
  <2>1. UNCHANGED schema /\ req[r].pc = "seed"
    BY <1>8 DEF SeedMetadata, At
  <2>2. \/ UNCHANGED metadata
        \/ metadata' = [metadata EXCEPT ![name] = row.idl]
    BY <1>1, <1>2, <1>8 DEF SeedMetadata
  <2>3. \A n \in SchemaName : metadata'[n] = metadata[n] \/ metadata'[n] = row.idl
    BY <1>1, <1>6, <2>2
  <2> QED  BY <1>1, <1>2, <1>3, <1>4, <1>5, <2>1, <2>3 DEF TablesInv, OfRow, Seeds, Holds
<1> QED
  BY <1>7, <1>8

\* update_program_status is called by the holder, once its tables are there.
LEMMA StatusHolder ==
  ASSUME RegistryInv, NoDelete, NEW r \in Req, SetCreated(r) \/ SetError(r), Moved(r)
  PROVE  HolderInv' /\ TablesInv'
<1>1. /\ req \in [Req -> Request] /\ RequestOK(r) /\ HolderInv /\ TablesInv
      /\ req[r].pc \in {"status", "error"} /\ UNCHANGED <<schema, metadata>> /\ Others(r)
      /\ row \in Row \union {Nothing} /\ schema \in [SchemaName -> MaybeIdl]
  BY DEF RegistryInv, RegistryTypeOK, RequestInv, SetCreated, SetError, Moved, At
<1>2. /\ Holds(r) /\ req[r].data \in Idl /\ req[r].result = "none"
      /\ row # Nothing /\ row.idl = req[r].data /\ row.idl # Nothing
  BY <1>1, NothingIsNone DEF RequestOK, Holds, HolderInv
<1>3. \A s \in Req : s # r => ~Holds(s) /\ ~Holds(s)' /\ req'[s] = req[s]
  BY <1>1, <1>2 DEF HolderInv, Holds, Others
<1>4. CASE /\ req[r].pc = "status" /\ SetStatus("schema_created")
           /\ Answer(r, "created") \/ Go(r, "error")
  <2>1. req[r].pc = "status" /\ SetStatus("schema_created")
    BY <1>4
  <2>2. row' # Nothing /\ row'.idl = row.idl /\ row'.status = "schema_created"
    BY <1>1, <1>2, <2>1, SetStatusEffect
  <2>3. req'[r].pc \in {"done", "error"} /\ req'[r].data = req[r].data
    BY <1>1, <1>4, AnswerEffect, GoEffect
  <2>4. HolderInv'
    BY <1>2, <1>3, <2>2, <2>3 DEF HolderInv, Holds
  <2>5. schema[SchemaOf[row.idl]] = row.idl
    <3>1. SchemaOf[row.idl] \in SchemaName
      BY <1>2 DEF SchemaName
    <3> QED  BY <1>1, <1>2, <2>1, <3>1 DEF TablesInv, OfRow
  <2>6. TablesInv'
    BY <1>1, <1>2, <1>3, <2>2, <2>3, <2>5 DEF TablesInv, OfRow, Seeds, Holds
  <2> QED  BY <2>4, <2>6
<1>5. CASE UNCHANGED row /\ (Go(r, "error") \/ Go(r, "rollback"))
  <2>1. /\ req'[r].pc \in {"error", "rollback"} /\ req'[r].data = req[r].data
        /\ req'[r].result = "none"
    BY <1>1, <1>2, <1>5, GoEffect
  <2>2. HolderInv'
    BY <1>1, <1>2, <1>3, <1>5, <2>1 DEF HolderInv, Holds
  <2>3. TablesInv'
    BY <1>1, <1>3, <1>5, <2>1 DEF TablesInv, OfRow, Seeds, Holds
  <2> QED  BY <2>2, <2>3
<1>6. CASE SetStatus("error") /\ Go(r, "rollback")
  <2>1. req'[r].pc = "rollback" /\ req'[r].result = "none"
    BY <1>1, <1>2, <1>6, GoEffect
  <2>2. row' # Nothing /\ row'.idl = row.idl /\ row'.status = "error"
    BY <1>1, <1>2, <1>6, SetStatusEffect
  <2>3. HolderInv'
    BY <1>3, <2>1 DEF HolderInv, Holds
  <2>4. TablesInv'
    BY <1>1, <1>2, <1>3, <2>1, <2>2 DEF TablesInv, OfRow, Seeds, Holds
  <2> QED  BY <2>3, <2>4
<1> QED
  BY <1>4, <1>5, <1>6 DEF SetCreated, SetError, At

\* do_register keeps one holder and its tables.
LEMMA RegisterHolder ==
  ASSUME RegistryInv, NoDelete, NEW r \in Req, Register(r), Moved(r)
  PROVE  HolderInv' /\ TablesInv'
<1>1. /\ req \in [Req -> Request] /\ RequestOK(r) /\ RequestOK(r)' /\ HolderInv /\ TablesInv
      /\ Others(r) /\ RegistryTypeOK
  BY DEF RegistryInv, RegistryTypeOK, RequestInv, Moved
<1>2. CASE WriteRegistration(r)
  BY <1>2, WriteHolder
<1>3. CASE GenerateSchema(r) \/ SeedMetadata(r)
  BY <1>3, TablesHolder
<1>4. CASE SetCreated(r) \/ SetError(r)
  BY <1>4, StatusHolder
<1>5. ASSUME UNCHANGED <<row, schema, metadata>>, ~Holds(r)'
      PROVE  HolderInv' /\ TablesInv'
  BY <1>1, <1>5, NotHolding
<1>6. ASSUME NEW i \in MaybeIdl, Post(r, i)
      PROVE  ~Holds(r)' /\ UNCHANGED <<row, schema, metadata>>
  BY <1>1, <1>6, PostEffect, Zenon DEF Post, Holds, RequestOK
<1>7. CASE Lookup(r)
  <2>1. PICK p \in {"fetch", "prepare"} : Go(r, p)
    BY <1>7 DEF Lookup
  <2> QED  BY <1>1, <1>5, <1>7, <2>1, GoEffect DEF Lookup, Holds, RequestOK
<1>8. CASE Fetch(r)
  <2>1. CASE Answer(r, "failed")
    BY <1>1, <1>5, <1>8, <2>1, AnswerEffect DEF Fetch, Holds
  <2>2. ASSUME NEW i \in Idl, req' = [req EXCEPT ![r].pc = "insert", ![r].data = i]
        PROVE  HolderInv' /\ TablesInv'
    BY <1>1, <1>5, <1>8, <2>2, FetchedEffect, Zenon DEF Fetch, Holds, RequestOK
  <2> QED  BY <1>8, <2>1, <2>2 DEF Fetch
<1>9. CASE InsertFetched(r)
  BY <1>1, <1>5, <1>9, InsertEffect, Zenon DEF InsertFetched, Holds, RequestOK
<1>10. CASE Prepare(r)
  <2>1. CASE Prepared(r) = Nothing
    BY <1>1, <1>5, <1>10, <2>1, AnswerEffect DEF Prepare, Holds
  <2>2. CASE Prepared(r) # Nothing
    BY <1>1, <1>5, <1>10, <2>2, PreparedEffect, Zenon DEF Prepare, Holds, RequestOK
  <2> QED  BY <2>1, <2>2
<1>11. CASE RejectUpload(r) \/ Rollback(r)
  BY <1>1, <1>5, <1>11, AnswerEffect DEF RejectUpload, Rollback, Holds
<1> QED
  BY <1>2, <1>3, <1>4, <1>5, <1>6, <1>7, <1>8, <1>9, <1>10, <1>11 DEF Register

-----------------------------------------------------------------------------
(* The cache.                                                              *)

\* A half-way deletion is not forgotten.
LEMMA HalfKept ==
  ASSUME RequestInv, NEW r \in Req, Others(r), req[r].pc # "done", HalfDeleted
  PROVE  HalfDeleted'
BY DEF RequestInv, RequestOK, Others, HalfDeleted

\* A step that leaves the cache and the IDL of the row alone, on a request that
\* goes on to clear the cache if it was going to.
LEMMA CacheKept ==
  ASSUME CacheInv, RequestInv, NEW r \in Req, Others(r), req[r].pc # "done",
         cache' = cache, row' = Nothing <=> row = Nothing, row # Nothing => row'.idl = row.idl,
         WillClear(r) => WillClear(r)' \/ HalfDeleted',
         At(r, "write")' => At(r, "write") /\ req'[r].data = req[r].data
  PROVE  CacheInv'
<1>1. HalfDeleted => HalfDeleted'
  BY HalfKept
<1>2. \A s \in Req : s # r => (WillClear(s) <=> WillClear(s)') /\ req'[s] = req[s]
  BY DEF Others, WillClear, RollsBack
<1>3. ASSUME row' # Nothing
      PROVE  cache' \in {Nothing, row'.idl} \/ HalfDeleted' \/ \E s \in Req : WillClear(s)'
  BY <1>1, <1>2, <1>3 DEF CacheInv
<1>4. ASSUME row' = Nothing, NEW s \in Req, At(s, "write")'
      PROVE  \/ cache' \in {Nothing, req'[s].data} \/ HalfDeleted'
             \/ \E t \in Req : t # s /\ WillClear(t)'
  <2>1. At(s, "write") /\ req'[s].data = req[s].data
    BY <1>2, <1>4 DEF At
  <2> QED  BY <1>1, <1>2, <1>4, <2>1 DEF CacheInv
<1> QED
  BY <1>3, <1>4 DEF CacheInv

\* An empty cache disagrees with nobody.
LEMMA CacheCleared == ASSUME cache' = Nothing PROVE CacheInv'
BY DEF CacheInv

\* A step of a request that is going to clear the cache after it.
LEMMA CacheWillBeCleared ==
  ASSUME NEW r \in Req, WillClear(r)', At(r, "write")' => cache' = req'[r].data
  PROVE  CacheInv'
BY DEF CacheInv

\* write_registration writes the row of the cached IDL, or of one that somebody
\* is going to remove from the cache.
LEMMA WriteCache ==
  ASSUME RegistryInv, NEW r \in Req, WriteRegistration(r), Moved(r)
  PROVE  CacheInv'
<1>1. /\ req \in [Req -> Request] /\ RequestInv /\ RequestOK(r) /\ CacheInv
      /\ At(r, "write") /\ UNCHANGED cache /\ Others(r) /\ req[r].pc # "done"
  BY DEF RegistryInv, RegistryTypeOK, RequestInv, WriteRegistration, Moved, At
<1>2. req[r].data \in Idl
  BY <1>1 DEF RequestOK, At
<1>3. CASE UNCHANGED row /\ Go(r, "rollback")
  <2>1. /\ req'[r].pc = "rollback" /\ req'[r].fetched = req[r].fetched
        /\ req'[r].wasCached = req[r].wasCached
    BY <1>1, <1>3, GoEffect
  <2>2. /\ WillClear(r) => WillClear(r)'
        /\ ~At(r, "write")'
    BY <1>1, <2>1 DEF WillClear, RollsBack, At
  <2> QED  BY <1>1, <1>3, <2>2, CacheKept
<1>4. CASE row = Nothing /\ row' = Registered(r)
  <2>1. row' # Nothing /\ row'.idl = req[r].data
    BY <1>2, <1>4, RegisteredRow
  <2>2. \/ cache \in {Nothing, req[r].data} \/ HalfDeleted
        \/ \E s \in Req : s # r /\ WillClear(s)
    BY <1>1, <1>4 DEF CacheInv
  <2>3. \A s \in Req : s # r => (WillClear(s) <=> WillClear(s)')
    BY <1>1 DEF Others, WillClear, RollsBack
  <2>4. HalfDeleted => HalfDeleted'
    BY <1>1, HalfKept
  <2> QED  BY <1>1, <2>1, <2>2, <2>3, <2>4 DEF CacheInv
<1>5. \/ UNCHANGED row /\ Go(r, "rollback")
      \/ row = Nothing /\ row' = Registered(r)
  BY DEF WriteRegistration, Conflicts
<1> QED
  BY <1>3, <1>4, <1>5

\* prepare_registration adds to the cache only what its request would roll back.
LEMMA PrepareCache ==
  ASSUME RegistryInv, NEW r \in Req, Prepare(r), Moved(r)
  PROVE  CacheInv'
<1>1. /\ RequestInv /\ CacheInv /\ RegistryTypeOK /\ At(r, "prepare") /\ Others(r)
      /\ req[r].pc # "done" /\ UNCHANGED row /\ cache' = Prepared(r)
  BY DEF RegistryInv, Prepare, Moved, At
<1>2. CASE Prepared(r) = Nothing
  BY <1>1, <1>2, CacheCleared
<1>3. CASE Prepared(r) # Nothing
  <2>1. /\ req'[r].pc = "write" /\ req'[r].data = cache' /\ req'[r].fetched = req[r].fetched
        /\ req'[r].wasCached = (cache # Nothing)
    BY <1>1, <1>3, PreparedEffect
  <2>2. CASE cache = Nothing \/ req[r].fetched
    <3>1. WillClear(r)'
      BY <2>1, <2>2, Zenon DEF WillClear, RollsBack
    <3> QED  BY <2>1, <3>1, CacheWillBeCleared
  <2>3. CASE cache # Nothing /\ ~req[r].fetched
    <3>1. cache' = cache
      BY <1>1, <2>3 DEF Prepared
    <3>2. ~WillClear(r)
      BY <1>1, <2>3 DEF WillClear, At
    <3>3. \A s \in Req : s # r => (WillClear(s) <=> WillClear(s)') /\ req'[s] = req[s]
      BY <1>1 DEF Others, WillClear, RollsBack
    <3>4. HalfDeleted => HalfDeleted'
      BY <1>1, HalfKept
    <3>5. ASSUME row' # Nothing
          PROVE  cache' \in {Nothing, row'.idl} \/ HalfDeleted' \/ \E s \in Req : WillClear(s)'
      BY <1>1, <3>1, <3>2, <3>3, <3>4, <3>5 DEF CacheInv
    <3>6. ASSUME row' = Nothing, NEW s \in Req, At(s, "write")'
          PROVE  \/ cache' \in {Nothing, req'[s].data} \/ HalfDeleted'
                 \/ \E t \in Req : t # s /\ WillClear(t)'
      BY <1>1, <2>1, <3>1, <3>2, <3>3, <3>4, <3>6 DEF CacheInv, At
    <3> QED  BY <3>5, <3>6 DEF CacheInv
  <2> QED  BY <2>2, <2>3
<1> QED
  BY <1>2, <1>3

\* do_register leaves no cached IDL behind that disagrees with the row.
LEMMA RegisterCache ==
  ASSUME RegistryInv, NEW r \in Req, Register(r), Moved(r)
  PROVE  CacheInv'
<1>1. /\ req \in [Req -> Request] /\ RequestInv /\ CacheInv /\ Others(r)
      /\ row \in Row \union {Nothing}
  BY DEF RegistryInv, RegistryTypeOK, Moved
<1>2. ASSUME cache' = cache, row' = Nothing <=> row = Nothing, row # Nothing => row'.idl = row.idl,
             ~WillClear(r), ~At(r, "write")', req[r].pc # "done"
      PROVE  CacheInv'
  BY <1>1, <1>2, CacheKept
<1>3. ASSUME NEW i \in MaybeIdl, Post(r, i)
      PROVE  CacheInv'
  BY <1>1, <1>2, <1>3, PostEffect, Zenon DEF Post, At, WillClear
<1>4. CASE Lookup(r)
  <2>1. PICK p \in {"fetch", "prepare"} : Go(r, p)
    BY <1>4 DEF Lookup
  <2> QED  BY <1>1, <1>2, <1>4, <2>1, GoEffect DEF Lookup, At, WillClear
<1>5. CASE Fetch(r)
  <2>1. req'[r].pc \in {"insert", "done"}
    BY <1>1, <1>5, FetchedEffect, AnswerEffect DEF Fetch
  <2> QED  BY <1>2, <1>5, <2>1 DEF Fetch, At, WillClear
<1>6. CASE InsertFetched(r)
  <2>1. WillClear(r)' /\ ~At(r, "write")'
    BY <1>1, <1>6, InsertEffect, Zenon DEF WillClear, At
  <2> QED  BY <2>1, CacheWillBeCleared
<1>7. CASE Prepare(r)
  BY <1>7, PrepareCache
<1>8. CASE RejectUpload(r)
  BY <1>8, CacheCleared DEF RejectUpload
<1>9. CASE WriteRegistration(r)
  BY <1>9, WriteCache
<1>10. CASE GenerateSchema(r) \/ SeedMetadata(r)
  <2>1. req'[r].pc \in {"seed", "error", "status"}
    BY <1>1, <1>10, GoEffect DEF GenerateSchema, SeedMetadata
  <2> QED  BY <1>2, <1>10, <2>1, Zenon DEF GenerateSchema, SeedMetadata, At, WillClear
<1>11. CASE SetCreated(r) \/ SetError(r)
  <2>1. req'[r].pc \in {"done", "error", "rollback"}
    BY <1>1, <1>11, GoEffect, AnswerEffect DEF SetCreated, SetError
  <2>2. (row' = Nothing <=> row = Nothing) /\ (row # Nothing => row'.idl = row.idl)
    BY <1>1, <1>11, SetStatusEffect DEF SetCreated, SetError
  <2> QED  BY <1>2, <1>11, <2>1, <2>2, Zenon DEF SetCreated, SetError, At, WillClear
<1>12. CASE Rollback(r) /\ RollsBack(r)
  BY <1>12, CacheCleared DEF Rollback
<1>13. CASE Rollback(r) /\ ~RollsBack(r)
  <2>1. req'[r].pc = "done"
    BY <1>1, <1>13, AnswerEffect DEF Rollback
  <2> QED  BY <1>2, <1>13, <2>1 DEF Rollback, At, WillClear
<1> QED
  BY <1>3, <1>4, <1>5, <1>6, <1>7, <1>8, <1>9, <1>10, <1>11, <1>12, <1>13 DEF Register

\* A deletion empties the cache, or is seen to have stopped half-way.
LEMMA DeleteCache ==
  ASSUME RegistryInv, NEW r \in Req, Delete(r), Moved(r)
  PROVE  CacheInv'
<1>1. /\ req \in [Req -> Request] /\ RequestInv /\ CacheInv /\ Others(r) /\ RegistryTypeOK
      /\ row \in Row \union {Nothing}
  BY DEF RegistryInv, RegistryTypeOK, Moved
<1>2. CASE SoftDelete(r) \/ HardDelete(r)
  <2>1. req'[r].pc \in {"done", "drop"} /\ req[r].pc = "new" /\ cache' = cache
    BY <1>1, <1>2, DeleteEffect, Zenon DEF SoftDelete, HardDelete, At
  <2>2. (row' = Nothing <=> row = Nothing) /\ (row # Nothing => row'.idl = row.idl)
    BY <1>1, <1>2, SetStatusEffect DEF SoftDelete, HardDelete
  <2>3. ~WillClear(r) /\ ~At(r, "write")'
    BY <2>1 DEF WillClear, At
  <2> QED  BY <1>1, <2>1, <2>2, <2>3, CacheKept
<1>3. CASE DropSchema(r) \/ DeleteRows(r)
  <2>1. WillClear(r)' /\ ~At(r, "write")'
    BY <1>1, <1>3, GoEffect DEF DropSchema, DeleteRows, WillClear, At
  <2> QED  BY <2>1, CacheWillBeCleared
<1>4. CASE RemoveProgram(r)
  BY <1>4, CacheCleared DEF RemoveProgram
<1>5. CASE AbandonDelete(r)
  <2>1. HalfDeleted'
    BY <1>1, <1>5, AnswerEffect DEF AbandonDelete, HalfDeleted
  <2> QED  BY <2>1 DEF CacheInv
<1> QED
  BY <1>2, <1>3, <1>4, <1>5 DEF Delete

-----------------------------------------------------------------------------
(* The invariant.                                                          *)

\* Start-up fills the cache from the row.
LEMMA RestartInv == ASSUME RegistryInv, Restart PROVE RegistryInv'
<1>1. /\ RegistryTypeOK /\ RequestInv /\ UNCHANGED <<row, schema, metadata>>
      /\ cache' = IF Seeds THEN row.idl ELSE Nothing
      /\ restarts < MaxRestarts /\ restarts' = restarts + 1
      /\ req \in [Req -> Request] /\ row \in Row \union {Nothing} /\ restarts \in 0..MaxRestarts
  BY Zenon DEF RegistryInv, RegistryTypeOK, Restart
<1> DEFINE lost(r) == [req[r] EXCEPT !.pc = "done", !.result = "lost"]
<1>2. ASSUME NEW r \in Req
      PROVE  /\ lost(r) \in Request /\ lost(r).pc = "done" /\ lost(r).result = "lost"
             /\ lost(r).kind = req[r].kind
  <2>1. req[r] \in Request
    BY <1>1
  <2> QED  BY <2>1, Zenon DEF Request
<1>3. req' = [r \in Req |-> IF req[r].pc \in {"new", "done"} THEN req[r] ELSE lost(r)]
  BY Zenon DEF Restart
<1> HIDE DEF lost
<1>4. \A r \in Req : \/ req[r].pc \in {"new", "done"} /\ req'[r] = req[r]
                     \/ /\ req'[r].pc = "done" /\ req'[r].result = "lost"
                        /\ req'[r].kind = req[r].kind
  BY <1>2, <1>3
<1>5. req' \in [Req -> Request]
  BY <1>1, <1>2, <1>3
<1>6. cache' \in MaybeIdl /\ restarts' \in 0..MaxRestarts
  <2>1. cache' \in MaybeIdl
    BY <1>1 DEF Row, Seeds, MaybeIdl
  <2> QED  BY <1>1, <2>1, RestartsBounded
<1>7. RegistryTypeOK'
  BY <1>1, <1>5, <1>6 DEF RegistryTypeOK
<1>8. RequestInv'
  BY <1>1, <1>4 DEF RequestInv, RequestOK
<1>9. CacheInv'
  BY <1>1 DEF CacheInv, Seeds
<1>10. NoDelete' => NoDelete
  BY <1>4 DEF NoDelete
<1>11. \A r \in Req : Holds(r)' => Holds(r) /\ req'[r] = req[r]
  BY <1>4 DEF Holds
<1>12. ASSUME HolderInv, TablesInv PROVE HolderInv' /\ TablesInv'
  BY <1>1, <1>11, <1>12 DEF HolderInv, TablesInv, OfRow, Seeds, Holds
<1> QED
  BY <1>7, <1>8, <1>9, <1>10, <1>12 DEF RegistryInv

\* A step of one request preserves the invariant.
LEMMA RequestStepInv ==
  ASSUME RegistryInv, NEW r \in Req, Register(r) \/ Delete(r)
  PROVE  RegistryInv'
<1>1. Moved(r)
  BY RegisterTypes, DeleteTypes
<1>2. restarts \in 0..MaxRestarts
  BY DEF RegistryInv, RegistryTypeOK
<1>3. RegistryTypeOK'
  BY <1>1, <1>2, SchemaTypes DEF RegistryTypeOK, Moved, StateType
<1>4. RequestInv'
  BY <1>1 DEF Moved
<1>5. CacheInv'
  BY <1>1, RegisterCache, DeleteCache
<1>6. NoDelete' => NoDelete
  BY <1>1, Zenon DEF NoDelete, Moved, Others
<1>7. NoDelete' => Register(r)
  <2> SUFFICES ASSUME Delete(r) PROVE ~NoDelete'
    OBVIOUS
  <2>1. RegistryTypeOK /\ RequestOK(r)
    BY DEF RegistryInv, RequestInv
  <2>2. CASE SoftDelete(r) \/ HardDelete(r)
    BY <2>1, <2>2, DeleteEffect DEF NoDelete
  <2>3. CASE req[r].pc \in {"drop", "delete", "remove"}
    BY <1>1, <2>1, <2>3 DEF Moved, RequestOK, NoDelete
  <2> QED  BY <2>2, <2>3 DEF Delete, DropSchema, DeleteRows, RemoveProgram, AbandonDelete, At
<1>8. NoDelete' => HolderInv' /\ TablesInv'
  BY <1>1, <1>6, <1>7, RegisterHolder
<1> QED
  BY <1>3, <1>4, <1>5, <1>8 DEF RegistryInv

\* The invariant holds for every interleaving of registrations, deletions and
\* restarts.
THEOREM RegistryInvariant == Spec => []RegistryInv
<1>1. Init => RegistryInv
  <2> SUFFICES ASSUME Init PROVE RegistryInv
    OBVIOUS
  <2>1. \A r \in Req : req[r] = Fresh
    BY DEF Init
  <2>2. Fresh \in Request
    BY DEF Fresh, Request, MaybeIdl
  <2>3. RegistryTypeOK
    BY <2>2, RestartsBounded DEF Init, RegistryTypeOK, MaybeIdl
  <2>4. RequestInv /\ \A r \in Req : ~Holds(r) /\ req[r].pc = "new" /\ req[r].result = "none"
    BY <2>1 DEF Fresh, RequestInv, RequestOK, Holds
  <2>5. CacheInv
    BY DEF Init, CacheInv
  <2>6. HolderInv
    BY <2>4 DEF HolderInv
  <2>7. TablesInv
    BY <2>4 DEF Init, TablesInv, OfRow, Seeds
  <2> QED  BY <2>3, <2>4, <2>5, <2>6, <2>7 DEF RegistryInv
<1>2. RegistryInv /\ [Next]_vars => RegistryInv'
  <2> SUFFICES ASSUME RegistryInv, [Next]_vars PROVE RegistryInv'
    OBVIOUS
  <2>1. ASSUME NEW r \in Req, Register(r) \/ Delete(r) PROVE RegistryInv'
    BY <2>1, RequestStepInv
  <2>2. CASE Restart
    BY <2>2, RestartInv, Zenon
  <2>3. CASE UNCHANGED vars
    <3>1. UNCHANGED row /\ UNCHANGED schema /\ UNCHANGED metadata /\ UNCHANGED cache
          /\ UNCHANGED req /\ UNCHANGED restarts
      BY <2>3, Zenon DEF vars
    <3>2. RegistryTypeOK'
      BY <3>1, Zenon DEF RegistryInv, RegistryTypeOK
    <3>3. RequestInv'
      BY <3>1, Zenon DEF RegistryInv, RequestInv, RequestOK
    <3>4. CacheInv'
      BY <3>1, Zenon DEF RegistryInv, CacheInv, WillClear, RollsBack, At, HalfDeleted
    <3>5. NoDelete' => NoDelete /\ HolderInv' /\ TablesInv'
      BY <3>1, Zenon DEF RegistryInv, NoDelete, HolderInv, Holds, TablesInv, OfRow, Seeds, At
    <3> QED
      BY <3>2, <3>3, <3>4, <3>5, Zenon DEF RegistryInv
  <2> QED  BY <2>1, <2>2, <2>3 DEF Next
<1> QED
  BY <1>1, <1>2, PTL DEF Spec

\* Once no request is in flight the cached IDL is the registered one, for any
\* number of racing requests (do_register, rollback_cache, hard_delete).
THEOREM CacheAgrees == Spec => []CacheAgreesWhenQuiet
<1>1. RegistryInv => CacheAgreesWhenQuiet
  BY DEF RegistryInv, CacheInv, CacheAgreesWhenQuiet, Quiet, WillClear
<1> QED
  BY <1>1, RegistryInvariant, PTL

\* Of any number of registrations that race one at most is told 201, and the row
\* is its (ON CONFLICT DO NOTHING in write_registration).
THEOREM OneWinner == Spec => []OneRegistrationWins
<1>1. RegistryInv => OneRegistrationWins
  <2> SUFFICES ASSUME RegistryInv, NoDelete, NEW r \in Created
               PROVE  Created = {r} /\ row = [status |-> "schema_created", idl |-> req[r].data]
    BY DEF OneRegistrationWins
  <2>1. HolderInv /\ row \in Row \union {Nothing} /\ r \in Req /\ Holds(r)
    BY DEF RegistryInv, RegistryTypeOK, Created, Holds
  <2>2. row \in Row /\ row.idl = req[r].data /\ row.status = "schema_created"
    BY <2>1 DEF HolderInv, Created
  <2>3. Created = {r}
    BY <2>1 DEF HolderInv, Created, Holds
  <2> QED  BY <2>2, <2>3 DEF Row
<1> QED
  BY <1>1, RegistryInvariant, PTL

\* The tables that start-up will index into are those of the registered IDL
\* (generate_schema before update_program_status).
THEOREM TablesMatchRow == Spec => []SchemaMatchesRow
<1>1. RegistryInv => SchemaMatchesRow
  <2> SUFFICES ASSUME RegistryInv, NoDelete, Seeds
               PROVE  /\ schema[SchemaOf[row.idl]] = row.idl
                      /\ metadata[SchemaOf[row.idl]] \in {Nothing, row.idl}
    BY DEF SchemaMatchesRow
  <2>1. TablesInv /\ row \in Row
    BY DEF RegistryInv, RegistryTypeOK, Seeds
  <2>2. SchemaOf[row.idl] \in SchemaName
    BY <2>1 DEF Row, SchemaName
  <2> QED  BY <2>1, <2>2 DEF TablesInv, OfRow
<1> QED
  BY <1>1, RegistryInvariant, PTL

=============================================================================
