----------------------------- MODULE MCWsStream -----------------------------
(***************************************************************************)
(* WsStream with three signatures, one of them notified in two slots.      *)
(***************************************************************************)
EXTENDS WsStream

CONSTANTS s1, s2, s3, n1, n2, n3, n4

MCSigOf == n1 :> s1 @@ n2 :> s2 @@ n3 :> s3 @@ n4 :> s1
MCSlotOf == n1 :> 2 @@ n2 :> 1 @@ n3 :> 2 @@ n4 :> 3
=============================================================================
