----------------------------- MODULE TargetStore -----------------------------
(***************************************************************************)
(* One storage target: the journal database, which decides, and the pack    *)
(* databases, which hold the bytes.  No transaction spans two of them, so   *)
(* every call that touches both is a sequence of durable steps that a crash *)
(* or an error may cut anywhere.  A mutex admits one call at a time.        *)
(*                                                                         *)
(* Source: crates/meshspan-storage/src: provider.rs and provider/*.rs (the  *)
(* calls), journal.rs and journal/*.rs, pack.rs and pack/*.rs,              *)
(* folder/compaction.rs.                                                    *)
(*                                                                         *)
(* A shard identity holds the digest of its manifest, so all requests for a *)
(* shard agree on its content; requests that do not are refused and change  *)
(* nothing, like all other refusals of a first transaction, which are left  *)
(* out.  A pack file that does not exist is the same as an empty one:       *)
(* PackStore::open creates it.  The limit of a pack is in records.          *)
(***************************************************************************)
EXTENDS Integers, FiniteSets, FiniteSetsExt

CONSTANTS
  Shards,         \* shard identities
  Puts,           \* operation identities of writes
  RepairPuts,     \* the ones of class Repair or Relocation
  Removals,       \* operation identities of removal permits
  ShardOf,        \* the shard each operation is about
  Maximum,        \* the bytes each write reserves
  Length,         \* the bytes of each shard
  Backups,        \* backup objects sharing the target, one byte each
  Ceiling,        \* usage_ceiling of the configured limit
  Disk,           \* bytes the filesystem has in all
  RepairReserve,  \* repair_reserve_bytes
  PackRecords,    \* records a pack takes
  MaxPacks,       \* bound on pack sequences
  None

Packs == 1..MaxPacks
Operations == Puts \cup Removals

\* The steps of a call after its first transaction.
Calls ==
  [op : Operations \cup Packs,
   step : {"PutPack", "CommitPut", "TombstonePack", "CommitTombstone", "CommitUnlink",
           "RetireFiles", "CompleteRetirement"}]

ASSUME OperationsAssumption ==
  /\ RepairPuts \subseteq Puts /\ Puts \cap Removals = {}
  /\ ShardOf \in [Operations -> Shards]
  /\ IsFiniteSet(Puts) /\ IsFiniteSet(Shards) /\ IsFiniteSet(Backups)
  /\ None \notin Operations \cup Packs \cup Calls
ASSUME BytesAssumption ==
  /\ Length \in [Shards -> Nat \ {0}] /\ Maximum \in [Puts -> Nat]
  /\ \A o \in Puts : Length[ShardOf[o]] <= Maximum[o]
ASSUME BoundsAssumption ==
  /\ {Ceiling, Disk, RepairReserve} \subseteq Nat
  /\ {PackRecords, MaxPacks} \subseteq Nat \ {0}

VARIABLES
  reservation,   \* reservations, by operation
  operation,     \* provider_operations
  inventory,     \* inventory, by shard
  tombstone,     \* tombstones: the removal that committed, by shard
  route,         \* pack_routes, by shard
  segment,       \* pack_segments, by sequence
  reserved,      \* target_state.reserved_bytes
  committed,     \* target_state.committed_bytes
  backup,        \* backup_capacity
  file,          \* the shards table of each pack database
  receipts,      \* the pack_operations of all packs still present
  call,          \* what the holder of the mutex does next
  late           \* operations whose deadline has passed

journal == <<reservation, operation, inventory, tombstone, route, segment, reserved, committed, backup>>
packs == <<file, receipts>>
vars == <<journal, packs, call, late>>

Unlocked == call = None
Doing(o, step) == call = [op |-> o, step |-> step]
Next1(o, step) == call' = [op |-> o, step |-> step]

Stored(o) == file[route[ShardOf[o]]][ShardOf[o]]

SumOf(f, S) == MapThenSumSet(LAMBDA x : f[x], S)
-----------------------------------------------------------------------------
(* Capacity.                                                                *)

\* What the filesystem reports as available: all but the payload of packs and
\* the published backups.
Available ==
  Disk - SumOf(Length, {s \in Shards : \E p \in Packs : file[p][s] \in {"Active", "Tombstoned"}})
       - Cardinality({b \in Backups : backup[b] = "Stored"})

\* admit_capacity, with `held` bytes already reserved.
CapacityAdmits(bytes, held, headroom) ==
  /\ bytes <= Ceiling - (committed + held)
  /\ bytes <= Available - held - headroom

Headroom(o) == IF o \in RepairPuts THEN 0 ELSE RepairReserve

\* Mutant: the reservation of a prepared write expires as well.
Due_Prepared == {o \in Puts : reservation[o] \in {"Active", "InProgress"} /\ o \in late}

\* expire_active_reservations: a reservation attached to a prepared write is
\* in progress and does not expire.
Due == {o \in Puts : reservation[o] = "Active" /\ o \in late}

Unexpired == reserved - SumOf(Maximum, Due)

Expired == [o \in Puts |-> IF o \in Due THEN "Expired" ELSE reservation[o]]

\* TargetJournal::reserve of a new operation.
Reserve(o) ==
  /\ Unlocked
  /\ reservation[o] = "None" /\ o \notin late
  /\ CapacityAdmits(Maximum[o], Unexpired, Headroom(o))
  /\ reservation' = [Expired EXCEPT ![o] = "Active"]
  /\ reserved' = Unexpired + Maximum[o]
  /\ UNCHANGED <<operation, inventory, tombstone, route, segment, committed, backup, packs, call, late>>
-----------------------------------------------------------------------------
(* Pack routing.                                                            *)

Newest == Max({p \in Packs : segment[p] # "None"})

Routed(p) == {s \in Shards : route[s] = p}

\* choose_segment: the newest one while it has room.
Choice == IF Cardinality(Routed(Newest)) < PackRecords THEN Newest ELSE Newest + 1

\* assign_pack: a shard keeps its pack; one whose pack is retired is refused.
CanAssign(s) ==
  \/ route[s] # None /\ segment[route[s]] = "Available"
  \/ route[s] = None /\ Choice \in Packs

Assigned(s) == IF route[s] = None THEN Choice ELSE route[s]

\* insert_prepared_put.
InsertPrepared(o) ==
  LET s == ShardOf[o]
  IN  /\ CanAssign(s)
      /\ operation' = [operation EXCEPT ![o] = "Prepared"]
      /\ route' = [route EXCEPT ![s] = Assigned(s)]
      /\ segment' = [segment EXCEPT ![Assigned(s)] = IF @ = "None" THEN "Available" ELSE @]
-----------------------------------------------------------------------------
(* Writes.                                                                  *)

\* put_exact up to the end of prepare_put.
BeginPut(o) ==
  /\ Unlocked
  /\ o \notin late
  /\ \/ /\ operation[o] = "None" /\ reservation[o] = "Active"
        /\ InsertPrepared(o)
        /\ reservation' = [reservation EXCEPT ![o] = "InProgress"]
     \/ /\ operation[o] = "Prepared"
        /\ UNCHANGED <<operation, route, segment, reservation>>
  /\ Next1(o, "PutPack")
  /\ UNCHANGED <<inventory, tombstone, reserved, committed, backup, packs, late>>

Evidence(o) == o \in receipts /\ Stored(o) = "Active"

\* Mutant: an expired repair is prepared again without admitting its bytes.
RepairReservation_Uncharged(o) ==
  /\ reservation' = [Expired EXCEPT ![o] = "InProgress"]
  /\ reserved' = IF reservation[o] = "None" THEN Unexpired + Maximum[o] ELSE Unexpired

\* original_reservation and attach_reservation: what is left of the first
\* admission is kept, an expired or absent one is admitted.
RepairReservation(o) ==
  /\ reservation' = [Expired EXCEPT ![o] = "InProgress"]
  /\ IF Expired[o] = "Active" THEN reserved' = Unexpired
     ELSE /\ CapacityAdmits(Maximum[o], Unexpired, 0)
          /\ reserved' = Unexpired + Maximum[o]

\* prepare_repair_put: one transaction, and then resolve_put, which commits
\* the bytes an earlier attempt made durable.
PrepareRepairPut(o) ==
  /\ Unlocked
  /\ o \in RepairPuts
  /\ \/ operation[o] = "None" /\ InsertPrepared(o) /\ RepairReservation(o)
     \/ /\ operation[o] = "Prepared"
        /\ reservation' = Expired /\ reserved' = Unexpired
        /\ UNCHANGED <<operation, route, segment>>
  /\ IF operation[o] = "Prepared" /\ Evidence(o) THEN Next1(o, "CommitPut") ELSE UNCHANGED call
  /\ UNCHANGED <<inventory, tombstone, committed, backup, packs, late>>

\* Mutant: the bytes an earlier attempt made durable are not committed.
FinishRepairPut_NoReplay(o) ==
  /\ Unlocked
  /\ o \in RepairPuts /\ operation[o] = "Prepared"
  /\ o \notin receipts /\ Next1(o, "PutPack")
  /\ UNCHANGED <<journal, packs, late>>

\* finish_repair_put under fresh authority: resolve_put, then the bytes.
FinishRepairPut(o) ==
  /\ Unlocked
  /\ o \in RepairPuts /\ operation[o] = "Prepared"
  /\ \/ Evidence(o) /\ Next1(o, "CommitPut")
     \/ o \notin receipts /\ Next1(o, "PutPack")
  /\ UNCHANGED <<journal, packs, late>>

\* resolve_put, and recover_pending for one operation: bytes that are durable
\* are committed, whatever the deadline.  The target offers both for any write;
\* only repairs have a caller that is sure to come back.
ResolvePut(o) ==
  /\ Unlocked
  /\ operation[o] = "Prepared" /\ Evidence(o)
  /\ Next1(o, "CommitPut")
  /\ UNCHANGED <<journal, packs, late>>

\* Mutant: bytes are written over a tombstone.
CanInstall_Again(o) == TRUE

\* install_or_reuse_shard, or the replay of a stored receipt.
CanInstall(o) == Stored(o) = "Active" \/ (Stored(o) = "None" /\ o \notin receipts)

\* PackStore::put_exact.
PutPack(o) ==
  /\ Doing(o, "PutPack")
  /\ CanInstall(o)
  /\ file' = [file EXCEPT ![route[ShardOf[o]]][ShardOf[o]] = "Active"]
  /\ receipts' = receipts \cup {o}
  /\ Next1(o, "CommitPut")
  /\ UNCHANGED <<journal, late>>

\* Mutant: a second write of the same shard is charged again.
CommittedBytes_Twice(o) == committed + Length[ShardOf[o]]

\* consume_reservation: only the first write of a shard is charged.
CommittedBytes(o) == committed + (IF inventory[ShardOf[o]] = "None" THEN Length[ShardOf[o]] ELSE 0)

\* commit_put: upsert_inventory, complete_operation, consume_reservation.
CommitPut(o) ==
  /\ Doing(o, "CommitPut")
  /\ inventory[ShardOf[o]] \in {"None", "Committed"}
  /\ inventory' = [inventory EXCEPT ![ShardOf[o]] = "Committed"]
  /\ operation' = [operation EXCEPT ![o] = "Committed"]
  /\ reservation' = [reservation EXCEPT ![o] = "Consumed"]
  /\ reserved' = reserved - Maximum[o]
  /\ committed' = CommittedBytes(o)
  /\ call' = None
  /\ UNCHANGED <<tombstone, route, segment, backup, packs, late>>
-----------------------------------------------------------------------------
(* Removals.                                                                *)

\* tombstone up to the end of prepare_tombstone: a new removal needs live
\* inventory, a prepared one goes on.  Committed ones are answered at once.
BeginTombstone(r) ==
  /\ Unlocked
  /\ r \notin late
  /\ \/ /\ operation[r] = "None"
        /\ inventory[ShardOf[r]] = "Committed"
        /\ operation' = [operation EXCEPT ![r] = "Prepared"]
     \/ operation[r] = "Prepared" /\ UNCHANGED operation
  /\ Next1(r, "TombstonePack")
  /\ UNCHANGED <<reservation, inventory, tombstone, route, segment, reserved, committed, backup, packs, late>>

\* PackStore::tombstone_exact.
TombstonePack(r) ==
  /\ Doing(r, "TombstonePack")
  /\ IF r \in receipts THEN UNCHANGED file
     ELSE /\ Stored(r) = "Active"
          /\ file' = [file EXCEPT ![route[ShardOf[r]]][ShardOf[r]] = "Tombstoned"]
  /\ receipts' = receipts \cup {r}
  /\ Next1(r, "CommitTombstone")
  /\ UNCHANGED <<journal, late>>

\* recover_pending_tombstones for one removal: no deadline.
RecoverTombstone(r) ==
  /\ Unlocked
  /\ operation[r] = "Prepared" /\ r \in receipts
  /\ Next1(r, "CommitTombstone")
  /\ UNCHANGED <<journal, packs, late>>

\* commit_tombstone: install_tombstone, complete_operation.
CommitTombstone(r) ==
  /\ Doing(r, "CommitTombstone")
  /\ inventory[ShardOf[r]] = "Committed"
  /\ inventory' = [inventory EXCEPT ![ShardOf[r]] = "Tombstoned"]
  /\ tombstone' = [tombstone EXCEPT ![ShardOf[r]] = r]
  /\ operation' = [operation EXCEPT ![r] = "Committed"]
  /\ call' = None
  /\ UNCHANGED <<reservation, route, segment, reserved, committed, backup, packs, late>>

\* verify_committed_tombstone, once committed_reclamation found nothing.
CanUnlink(r) == tombstone[ShardOf[r]] = r /\ inventory[ShardOf[r]] = "Tombstoned"

\* unlink_tombstoned in the pack.
BeginUnlink(r) ==
  /\ Unlocked
  /\ CanUnlink(r)
  /\ r \in receipts /\ Stored(r) \in {"Tombstoned", "Unlinked"}
  /\ file' = [file EXCEPT ![route[ShardOf[r]]][ShardOf[r]] = "Unlinked"]
  /\ Next1(r, "CommitUnlink")
  /\ UNCHANGED <<journal, receipts, late>>

\* commit_unlink.
CommitUnlink(r) ==
  /\ Doing(r, "CommitUnlink")
  /\ inventory' = [inventory EXCEPT ![ShardOf[r]] = "Unlinked"]
  /\ committed' = committed - Length[ShardOf[r]]
  /\ call' = None
  /\ UNCHANGED <<reservation, operation, tombstone, route, segment, reserved, backup, packs, late>>
-----------------------------------------------------------------------------
(* Pack retirement: compact_next_pack.  Compaction itself publishes a copy   *)
(* of the same rows by a rename and changes nothing here.                   *)

Idle(s) == \A o \in Operations : ShardOf[o] = s => operation[o] # "Prepared"

\* Mutant: incomplete operations do not pin the pack.
Reclaimed_Unpinned(p) == \A s \in Routed(p) : inventory[s] = "Unlinked"

\* pack_routes_reclaimed.
Reclaimed(p) == \A s \in Routed(p) : inventory[s] = "Unlinked" /\ Idle(s)

\* Mutant: a retirement that was cut is not taken up again.
BeginRetirement_Once(p) ==
  /\ Unlocked
  /\ segment[p] = "Available" /\ p < Newest
  /\ Routed(p) # {} /\ Reclaimed(p)
  /\ segment' = [segment EXCEPT ![p] = "Retiring"]
  /\ Next1(p, "RetireFiles")
  /\ UNCHANGED <<reservation, operation, inventory, tombstone, route, reserved, committed, backup, packs, late>>

\* prepare_pack_retirement, or the pack of an earlier one.
BeginRetirement(p) ==
  /\ Unlocked
  /\ \/ /\ segment[p] = "Available" /\ p < Newest
        /\ Routed(p) # {} /\ Reclaimed(p)
        /\ segment' = [segment EXCEPT ![p] = "Retiring"]
     \/ segment[p] = "Retiring" /\ UNCHANGED segment
  /\ Next1(p, "RetireFiles")
  /\ UNCHANGED <<reservation, operation, inventory, tombstone, route, reserved, committed, backup, packs, late>>

\* verify_reclaimed and retire_pack_files.
RetireFiles(p) ==
  /\ Doing(p, "RetireFiles")
  /\ \A s \in Shards : file[p][s] \in {"None", "Unlinked"}
  /\ file' = [file EXCEPT ![p] = [s \in Shards |-> "None"]]
  /\ receipts' = {o \in receipts : route[ShardOf[o]] # p}
  /\ Next1(p, "CompleteRetirement")
  /\ UNCHANGED <<journal, late>>

\* complete_pack_retirement.
CompleteRetirement(p) ==
  /\ Doing(p, "CompleteRetirement")
  /\ segment' = [segment EXCEPT ![p] = "Retired"]
  /\ call' = None
  /\ UNCHANGED <<reservation, operation, inventory, tombstone, route, reserved, committed, backup, packs, late>>
-----------------------------------------------------------------------------
(* Backups in the same quota: journal/backup_capacity.rs, one transaction    *)
(* each.                                                                    *)

ChargeBackup(b, from, to, held, used) ==
  /\ Unlocked
  /\ backup[b] = from
  /\ backup' = [backup EXCEPT ![b] = to]
  /\ reserved' = reserved + held
  /\ committed' = committed + used
  /\ UNCHANGED <<reservation, operation, inventory, tombstone, route, segment, packs, call, late>>

\* reserve_backup_capacity and cancel_unpublished_backup.
ReserveBackup(b) == CapacityAdmits(1, reserved, RepairReserve) /\ ChargeBackup(b, "None", "Held", 1, 0)

CancelBackup(b) == ChargeBackup(b, "Held", "None", -1, 0)

\* commit_backup_capacity, and reconcile_backup_capacity of a held object.
CommitBackup(b) == ChargeBackup(b, "Held", "Stored", -1, 1)

\* reconcile_backup_capacity of an object the journal never saw.
ReconcileBackup(b) == ChargeBackup(b, "None", "Stored", 0, 1)

\* release_backup_capacity.
ReleaseBackup(b) ==
  \/ ChargeBackup(b, "Held", "Released", -1, 0)
  \/ ChargeBackup(b, "Stored", "Released", 0, -1)
  \/ ChargeBackup(b, "None", "Released", 0, 0)
-----------------------------------------------------------------------------
Init ==
  /\ reservation = [o \in Puts |-> "None"]
  /\ operation = [o \in Operations |-> "None"]
  /\ inventory = [s \in Shards |-> "None"]
  /\ tombstone = [s \in Shards |-> None]
  /\ route = [s \in Shards |-> None]
  /\ segment = [p \in Packs |-> IF p = 1 THEN "Available" ELSE "None"]
  /\ reserved = 0
  /\ committed = 0
  /\ backup = [b \in Backups |-> "None"]
  /\ file = [p \in Packs |-> [s \in Shards |-> "None"]]
  /\ receipts = {}
  /\ call = None
  /\ late = {}

\* The step is refused and the call returns its error: a shard that is no
\* longer active, inventory that another removal has taken.
Refused ==
  \/ \E o \in Puts : \/ Doing(o, "PutPack") /\ ~CanInstall(o)
                     \/ Doing(o, "CommitPut") /\ inventory[ShardOf[o]] \notin {"None", "Committed"}
  \/ \E r \in Removals :
       \/ Doing(r, "TombstonePack") /\ r \notin receipts /\ Stored(r) # "Active"
       \/ Doing(r, "CommitTombstone") /\ inventory[ShardOf[r]] # "Committed"

Refuse ==
  /\ Refused
  /\ call' = None
  /\ UNCHANGED <<journal, packs, late>>

\* The process dies, or the step fails: the durable state stays as it is.
Crash ==
  /\ ~Unlocked
  /\ call' = None
  /\ UNCHANGED <<journal, packs, late>>

\* Time passes the deadline of a write or the expiry of a permit.  An operation
\* that lapses before the target hears of it is one that never comes.
Lapse(o) ==
  /\ o \notin late
  /\ IF o \in Puts THEN reservation[o] \in {"Active", "InProgress"} ELSE operation[o] = "Prepared"
  /\ late' = late \cup {o}
  /\ UNCHANGED <<journal, packs, call>>

PutStep(o) ==
  \/ Reserve(o) \/ BeginPut(o) \/ PrepareRepairPut(o) \/ FinishRepairPut(o) \/ ResolvePut(o)
  \/ PutPack(o) \/ CommitPut(o)

RemovalStep(r) ==
  \/ BeginTombstone(r) \/ TombstonePack(r) \/ RecoverTombstone(r) \/ CommitTombstone(r)
  \/ BeginUnlink(r) \/ CommitUnlink(r)

RetirementStep(p) == BeginRetirement(p) \/ RetireFiles(p) \/ CompleteRetirement(p)

BackupStep(b) ==
  ReserveBackup(b) \/ CancelBackup(b) \/ CommitBackup(b) \/ ReconcileBackup(b) \/ ReleaseBackup(b)

Next ==
  \/ \E o \in Puts : PutStep(o)
  \/ \E r \in Removals : RemovalStep(r)
  \/ \E p \in Packs : RetirementStep(p)
  \/ \E b \in Backups : BackupStep(b)
  \/ \E o \in Operations : Lapse(o)
  \/ Refuse
  \/ Crash

Spec == Init /\ [][Next]_vars

\* Fairness.  Crashes stop; the holder of the mutex then runs on; the owner of a
\* repair repeats the exact write, and maintenance visits every pack in turn,
\* for as long as they are not done.  Nothing is assumed of new writes, removals
\* or backups, nor of foreground writes: no production caller resolves one that
\* was cut, and put_exact refuses it once its deadline has passed.
Continue ==
  \/ \E o \in Puts : PutPack(o) \/ CommitPut(o)
  \/ \E r \in Removals : TombstonePack(r) \/ CommitTombstone(r) \/ CommitUnlink(r)
  \/ \E p \in Packs : RetireFiles(p) \/ CompleteRetirement(p)
  \/ Refuse

Fairness ==
  /\ <>[][call # None /\ call' = None => Continue]_vars
  /\ WF_vars(Continue)
  /\ \A o \in RepairPuts : SF_vars(FinishRepairPut(o))
  /\ \A p \in Packs : SF_vars(BeginRetirement(p))

FairSpec == Spec /\ Fairness
-----------------------------------------------------------------------------
(* What the target promises.                                                *)

\* Rows and files are in the states the schemas allow, and the counters are
\* never negative.
TypeOK ==
  /\ reservation \in [Puts -> {"None", "Active", "InProgress", "Consumed", "Expired"}]
  /\ operation \in [Operations -> {"None", "Prepared", "Committed"}]
  /\ inventory \in [Shards -> {"None", "Committed", "Tombstoned", "Unlinked"}]
  /\ tombstone \in [Shards -> Removals \cup {None}]
  /\ route \in [Shards -> Packs \cup {None}]
  /\ segment \in [Packs -> {"None", "Available", "Retiring", "Retired"}]
  /\ {reserved, committed} \subseteq Nat
  /\ backup \in [Backups -> {"None", "Held", "Stored", "Released"}]
  /\ file \in [Packs -> [Shards -> {"None", "Active", "Tombstoned", "Unlinked"}]]
  /\ receipts \subseteq Operations
  /\ late \subseteq Operations

\* What the pack a shard is routed to holds of it (read_pack).
Place(s) == IF route[s] = None THEN "None" ELSE file[route[s]][s]

\* What a reader finds: get_exact asks the route and the row of the pack, and
\* not the inventory, so bytes are readable from the moment they are installed.
\* The inventory only tells a shard that never was from one that is gone.
Content(s) ==
  CASE Place(s) = "Active"     -> "Stored"
    [] Place(s) = "Tombstoned" -> "Removed"
    [] Place(s) = "Unlinked"   -> "Freed"
    [] Place(s) = "None"       -> IF inventory[s] = "None" THEN "Absent" ELSE "Freed"

Abstract ==
  INSTANCE ShardStore WITH
    content  <- [s \in Shards |-> Content(s)],
    receipts <- {o \in Operations : operation[o] = "Committed"}

\* Whatever is interrupted and repeated, the two databases together behave as
\* one store: a shard that was acknowledged stays readable until it is removed,
\* only such a shard is removed, a removed one never returns, also through a
\* late retry of its write or a retired pack, and bytes go only after an
\* acknowledged removal (put_exact, resolve_put, tombstone, unlink_tombstoned,
\* compact_next_pack).
ImplementsShardStore == Abstract!Spec

\* Between calls and in the middle of them the counters say exactly what the
\* rows hold: reservations that may still be used, stored shards until their
\* bytes are freed, and backups (admit_capacity, expire_active_reservations,
\* consume_reservation, commit_unlink, backup_capacity.rs).
CapacityBalanced ==
  /\ reserved = SumOf(Maximum, {o \in Puts : reservation[o] \in {"Active", "InProgress"}})
                + Cardinality({b \in Backups : backup[b] = "Held"})
  /\ committed = SumOf(Length, {s \in Shards : inventory[s] \in {"Committed", "Tombstoned"}})
                 + Cardinality({b \in Backups : backup[b] = "Stored"})

\* The payload on disk, written before it is accounted for or not yet erased,
\* is covered by what the counters hold (persist_prepared_put, commit_unlink).
PayloadIsCharged ==
  SumOf(Length, {s \in Shards : \E p \in Packs : file[p][s] \in {"Active", "Tombstoned"}})
    + Cardinality({b \in Backups : backup[b] = "Stored"}) <= committed + reserved

\* Once a pack is being retired no operation is pending on its shards, so its
\* receipts and bytes are never needed again (prepare_pack_retirement).
RetiredPacksAreIdle ==
  \A s \in Shards :
    route[s] # None /\ segment[route[s]] \in {"Retiring", "Retired"} =>
      Idle(s) /\ inventory[s] = "Unlinked"

\* A repair is acknowledged from its preparation on after enough exact retries,
\* whatever is cut and however late, also when another write stored the shard
\* first, unless the shard is removed meanwhile (resolve_put, finish_repair_put).
PreparedRepairsFinish ==
  \A o \in RepairPuts :
    operation[o] = "Prepared" ~>
      (operation[o] = "Committed" \/ Content(ShardOf[o]) \in {"Removed", "Freed"})

\* A pack whose shards are all reclaimed is retired in the end, also when it is
\* cut between the journal and the files, unless an unfinished operation pins
\* it (compact_next_pack, retire_pack).
ReclaimedPacksRetire ==
  \A p \in Packs :
    (Routed(p) # {} /\ p < Newest /\ Reclaimed(p)) ~>
      (segment[p] = "Retired" \/ \E s \in Routed(p) : ~Idle(s))
=============================================================================
