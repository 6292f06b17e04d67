------------------------------ MODULE MCIngest ------------------------------
(***************************************************************************)
(* Ingest on a small chain: the backfill over any range, with crashes, or  *)
(* the backfill and a mini-backfill of the last block of a shorter chain,  *)
(* both writing it.                                                        *)
(***************************************************************************)
EXTENDS Ingest, TLC

CONSTANTS t1, t2, t3, t4

\* Two transactions share a block.
MCTxSlot == t1 :> 1 @@ t2 :> 1 @@ t3 :> 2 @@ t4 :> 3

\* The mini-backfill has not run.
Alone == pc["catchup"] = "off" /\ ~cancelled["catchup"]

BackfillNext ==
    \/ JobStep("backfill")
    \/ \E lo \in 1..finalized : RunBackfill(lo, finalized) /\ (Alone \/ lo = 2)
    \/ Alone /\ (Cancel("backfill") \/ Finalize \/ Crash)

CatchupNext ==
    \/ JobStep("catchup")
    \/ ~Alone /\ Cancel("catchup")
    \/ finalized = 2 /\ stored = {} /\ (Running("backfill") => from["backfill"] = 2) /\ MiniBackfill(1)

MCBackfill == IngestInit /\ [][BackfillNext]_ingestVars
MCSpec == IngestInit /\ [][BackfillNext \/ CatchupNext]_ingestVars /\ IngestFairness
=============================================================================
