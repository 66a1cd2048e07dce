----------------------------- MODULE MCTargetStore -----------------------------
(***************************************************************************)
(* TLC instances of TargetStore: a shard written by a foreground write and  *)
(* by a repair and removed under a permit, and another shard that opens     *)
(* the second pack.                                                         *)
(***************************************************************************)
EXTENDS TargetStore, TLC

CONSTANTS a, b, write, repair, other, permit

MCShardOf == [o \in Operations |-> IF o = other THEN b ELSE a]
MCMaximum == [o \in Puts |-> IF o = write THEN 2 ELSE 1]
MCLength == [s \in Shards |-> 1]
=============================================================================
