----------------------------- MODULE MCShutdown -----------------------------
(***************************************************************************)
(* Shutdown with a pipeline that indexes a few slots.                      *)
(***************************************************************************)
EXTENDS Shutdown
=============================================================================
