----------------------- MODULE MCMembershipCoordinator -----------------------
(***************************************************************************)
(* Instances of MembershipCoordinator for TLC: a mesh that one node founded *)
(* and the others may join, be activated in and be drained from, once each. *)
(***************************************************************************)
EXTENDS MembershipCoordinator

ThreeNodes == 1..3

FourNodes == 1..4
=============================================================================
