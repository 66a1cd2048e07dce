--------------------------- MODULE MCVersionCleanup ---------------------------
(***************************************************************************)
(* TLC instance of VersionCleanup: one shard, two workers, three permits.   *)
(***************************************************************************)
EXTENDS VersionCleanup
=============================================================================
