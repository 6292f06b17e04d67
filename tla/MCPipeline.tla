----------------------------- MODULE MCPipeline -----------------------------
(***************************************************************************)
(* Pipeline on chains of three or four slots, some of them empty.          *)
(***************************************************************************)
EXTENDS Pipeline, TLC

CONSTANTS t1, t2, t3

MCTxSlot == t1 :> 1 @@ t2 :> 2 @@ t3 :> 3
MCGapTxSlot == t1 :> 1 @@ t3 :> 3
MCTailTxSlot == t1 :> 1 @@ t3 :> 4

\* A behaviour has a restart or a disconnect, not both.
MCNext == Next /\ restarts' + disconnects' <= 1
MCSpec == Init /\ [][MCNext]_pipelineVars /\ Fairness
=============================================================================
