----------------------------- MODULE MCRegistry -----------------------------
(***************************************************************************)
(* Registry with two IDLs of the same name, hence one schema.              *)
(***************************************************************************)
EXTENDS Registry, TLC

CONSTANTS i1, i2, r1, r2, r3

MCSchemaOf == i1 :> "s" @@ i2 :> "s"
MCSymmetry == Permutations(Req)
=============================================================================
