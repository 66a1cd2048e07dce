------------------------------ MODULE ShardStore ------------------------------
(***************************************************************************)
(* What a storage target promises its callers: a shard is absent, then      *)
(* readable, then removed, then its bytes are freed, and never moves back.  *)
(* It may be readable before any put of it is acknowledged.  A receipt is   *)
(* evidence: a put that has one is stored or was removed since, a removal   *)
(* that has one is final; only acknowledged shards are removed, and bytes   *)
(* are freed only after a removal is acknowledged.                          *)
(*                                                                         *)
(* Source: the StorageProvider contract, crates/meshspan-contracts/src/     *)
(* storage.rs, as crates/meshspan-storage/src/provider.rs implements it.    *)
(***************************************************************************)
CONSTANTS
  Shards,      \* shard identities, each naming one exact content
  Puts,        \* operation identities of writes
  Removals,    \* removal permits
  ShardOf      \* the shard a write or a removal is about

VARIABLES
  content,     \* what a reader finds
  receipts     \* operations with a durable receipt

vars == <<content, receipts>>

Init ==
  /\ content = [s \in Shards |-> "Absent"]
  /\ receipts = {}

\* The bytes of some put become readable.
Write(s) ==
  /\ content[s] = "Absent"
  /\ content' = [content EXCEPT ![s] = "Stored"]
  /\ UNCHANGED receipts

\* A put is acknowledged while its shard is readable.
Acknowledge(o) ==
  /\ o \notin receipts
  /\ content[ShardOf[o]] = "Stored"
  /\ receipts' = receipts \cup {o}
  /\ UNCHANGED content

\* An acknowledged shard stops being readable.
Remove(s) ==
  /\ content[s] = "Stored"
  /\ \E o \in receipts \cap Puts : ShardOf[o] = s
  /\ content' = [content EXCEPT ![s] = "Removed"]
  /\ UNCHANGED receipts

\* One removal is acknowledged per shard, after it took effect.
Confirm(r) ==
  /\ content[ShardOf[r]] = "Removed"
  /\ \A other \in receipts \cap Removals : ShardOf[other] # ShardOf[r]
  /\ receipts' = receipts \cup {r}
  /\ UNCHANGED content

\* Bytes go only after the removal is acknowledged.
Free(s) ==
  /\ content[s] = "Removed"
  /\ \E r \in receipts \cap Removals : ShardOf[r] = s
  /\ content' = [content EXCEPT ![s] = "Freed"]
  /\ UNCHANGED receipts

Next ==
  \/ \E o \in Puts : Acknowledge(o)
  \/ \E s \in Shards : Write(s) \/ Remove(s) \/ Free(s)
  \/ \E r \in Removals : Confirm(r)

Spec == Init /\ [][Next]_vars
=============================================================================
