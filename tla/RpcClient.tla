------------------------------ MODULE RpcClient ------------------------------
(***************************************************************************)
(* The JSON-RPC client of pipeline/rpc.rs: one request with its retries    *)
(* (rpc_request), get_block, get_transaction, and get_blocks, which sends  *)
(* one request per range of slots.  A caller runs one call at a time.      *)
(*                                                                         *)
(* Delays are counted in units of the smallest one.  The rate limiter only *)
(* delays an attempt and is left out.                                      *)
(***************************************************************************)
EXTENDS Integers, FiniteSets

CONSTANTS
    RetryMinDelay,     \* config.retry_initial_ms
    RetryMaxDelay,     \* config.retry_max_ms
    RetryTimeout,      \* config.retry_timeout_secs
    MaxGetBlocksRange, \* MAX_GET_BLOCKS_RANGE
    MaxU64,            \* u64::MAX
    Produced           \* the slots that have a block

\* new() does not check the delays; with an initial delay of 0 the retries of
\* a node that is down never end.
ASSUME RpcConstants ==
    /\ RetryMinDelay \in Nat \ {0} /\ RetryMaxDelay \in Nat \ {0} /\ RetryTimeout \in Nat
    /\ MaxGetBlocksRange \in Nat \ {0} /\ MaxU64 \in Nat /\ Produced \subseteq 0 .. MaxU64

VARIABLES
    pc,     \* the request the call waits for; "off" or its result: "some", "none",
            \* "listed" (of get_blocks), "ok" (of a snapshot), "err"
    waited, \* the delays of this request's retries so far
    tries,  \* their number
    lo, hi, \* get_blocks: the range
    at,     \* get_blocks: where the next chunk starts
    listed, \* get_blocks: the slots of the answers
    count   \* get_blocks: their number, with repetitions

retryVars == <<waited, tries>>
blocksVars == <<lo, hi, at, listed, count>>

Smaller(a, b) == IF a < b THEN a ELSE b
SaturatingAdd(a, b) == Smaller(a + b, MaxU64)

-----------------------------------------------------------------------------
(* One attempt.  An answer is a failure of the transport, an HTTP status,  *)
(* a body that does not parse, a JSON-RPC error (by class of codes), a     *)
(* null result or a result.                                                *)

Code == {"skipped", "behind", "protocol", "unknown"}
Answer == {"transport", "http_429", "http_4xx", "http_5xx", "garbled", "null", "result"} \cup Code

\* -32009, -32007 and -32010; -32005; -32602 to -32600; any other.
ClassifyRpcError(code) ==
    CASE code = "skipped"  -> "slot_skipped"
      [] code = "behind"   -> "rpc_failed"
      [] code = "protocol" -> "fatal"
      [] code = "unknown"  -> "rpc_failed"

SendRpcRequest(answer) ==
    CASE answer \in {"transport", "http_5xx", "garbled", "null"} -> "rpc_failed"
      [] answer = "http_429" -> "rate_limited"
      [] answer = "http_4xx" -> "fatal"
      [] answer \in Code     -> ClassifyRpcError(answer)
      [] answer = "result"   -> "ok"

SendRpcRequestOptional(answer) == IF answer = "null" THEN "none" ELSE SendRpcRequest(answer)

IsRetryable(error) == error \in {"rpc_failed", "rate_limited"}

-----------------------------------------------------------------------------
(* rpc_request: exponential backoff with jitter, up to a total delay.      *)

Backoff == Smaller(RetryMinDelay * 2 ^ tries, RetryMaxDelay)
Delays == Backoff .. Backoff + RetryMinDelay

\* Variant: the limit is compared with the last delay instead of their sum.
RetryUnlessLong ==
    \E d \in Delays : d <= RetryTimeout /\ waited' = d /\ tries' = tries

RetryLater ==
    \E d \in Delays : /\ waited + d <= RetryTimeout
                      /\ waited' = waited + d
                      /\ tries' = tries + 1

OutOfTime == \E d \in Delays : waited + d > RetryTimeout

Reset == waited' = 0 /\ tries' = 0

Returns(result) == pc' = result /\ Reset

\* An attempt that gave the caller nothing: another one follows, or the call
\* fails.  That is also the end of a result that does not parse.
FailedAttempt(outcome) ==
    \/ IsRetryable(outcome) /\ RetryLater /\ UNCHANGED pc
    \/ (~IsRetryable(outcome) \/ OutOfTime) /\ Returns("err")

RpcFails == \E answer \in Answer : FailedAttempt(SendRpcRequest(answer))

-----------------------------------------------------------------------------
(* get_block and get_transaction: something, None or an error.             *)

\* None when the node skipped the slot.
GetBlock ==
    /\ pc = "block"
    /\ \E answer \in Answer :
          LET outcome == SendRpcRequest(answer)
          IN  \/ outcome = "ok" /\ Returns("some")
              \/ outcome = "slot_skipped" /\ Returns("none")
              \/ outcome # "slot_skipped" /\ FailedAttempt(outcome)
    /\ UNCHANGED blocksVars

\* None when the node does not know the transaction: null is not retried.
GetTransaction ==
    /\ pc = "transaction"
    /\ \E answer \in Answer :
          LET outcome == SendRpcRequestOptional(answer)
          IN  \/ outcome = "ok" /\ Returns("some")
              \/ outcome = "none" /\ Returns("none")
              \/ outcome # "none" /\ FailedAttempt(outcome)
    /\ UNCHANGED blocksVars

-----------------------------------------------------------------------------
(* get_blocks.                                                             *)

\* compute_block_chunks: the end of the chunk that starts at a, and the start
\* of the next one.  In the variant two chunks share a slot.
ChunkEnd(a, end) == Smaller(SaturatingAdd(a, MaxGetBlocksRange - 1), end)
SharedStart(chunkEnd) == chunkEnd
NextStart(chunkEnd) == SaturatingAdd(chunkEnd, 1)

StartGetBlocks(start, end) ==
    /\ lo' = start /\ hi' = end /\ at' = start
    /\ listed' = {} /\ count' = 0
    /\ Returns(IF start > end THEN "listed" ELSE "blocks")

ChunkListed ==
    LET chunkEnd == ChunkEnd(at, hi)
        slots == Produced \cap (at .. chunkEnd)
    IN  /\ listed' = listed \cup slots
        /\ count' = count + Cardinality(slots)
        /\ \/ chunkEnd >= hi /\ Returns("listed") /\ UNCHANGED at
           \/ chunkEnd < hi /\ at' = NextStart(chunkEnd) /\ Returns("blocks")
        /\ UNCHANGED <<lo, hi>>

GetBlocks == pc = "blocks" /\ (ChunkListed \/ (RpcFails /\ UNCHANGED blocksVars))

BlocksInit == lo = 1 /\ hi = 0 /\ at = 1 /\ listed = {} /\ count = 0

-----------------------------------------------------------------------------
\* get_blocks lists every block of its range and each once: no slot is lost or
\* repeated where two chunks meet, also at the end of the u64 range.
BlocksAreListedOnce ==
    pc = "listed" => listed = Produced \cap (lo .. hi) /\ count = Cardinality(listed)

=============================================================================
