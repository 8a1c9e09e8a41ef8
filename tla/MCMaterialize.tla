--------------------------- MODULE MCMaterialize ----------------------------
(* Two concepts: one over the sealed item, and one over none whose formula  *)
(* raises.                                                                  *)
EXTENDS Materialize, TLC

CONSTANTS c1, c2

MCScope == (c1 :> Items) @@ (c2 :> {})
=============================================================================
