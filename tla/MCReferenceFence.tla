--------------------------- MODULE MCReferenceFence ---------------------------
(***************************************************************************)
(* TLC instance of ReferenceFence: two gateways, which are alike.           *)
(***************************************************************************)
EXTENDS ReferenceFence, TLC

GatewaySymmetry == Permutations(Gateways)
=============================================================================
