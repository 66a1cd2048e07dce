---------------------------- MODULE MCRepairWork ----------------------------
(***************************************************************************)
(* TLC instance of RepairWork: one damaged shard and another of its         *)
(* stripe, two workers.                                                     *)
(***************************************************************************)
EXTENDS RepairWork
=============================================================================
