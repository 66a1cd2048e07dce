---------------------------- MODULE VersionCleanup ----------------------------
(***************************************************************************)
(* The deletion of the shards of a manifest once it is authorised: the      *)
(* sealed inventory, the short-lived permits and the completions the        *)
(* metadata authority keeps, the workers that run them, and the storage     *)
(* target (TargetStore) that holds the shards.                              *)
(*                                                                         *)
(* Source: crates/meshspan-metadata/src/repository: cleanup_inventory.rs,   *)
(* cleanup_permit.rs, cleanup_completion.rs, cleanup_reclamation.rs (each   *)
(* command one transaction); crates/meshspan-cluster/src/cleanup_worker.rs  *)
(* and cleanup.rs.                                                          *)
(*                                                                         *)
(* A permit is the item and the number of the attempt: every attempt has    *)
(* its own provider operation.  The expiry of permits is the target's       *)
(* `late`.  Only the last of the attempts that are followed never expires,  *)
(* so nothing is stuck for want of another.  recover_pending_tombstones has *)
(* no caller outside tests and is no action here.                           *)
(***************************************************************************)
EXTENDS Naturals, FiniteSets

CONSTANTS
  Items,        \* the shards of the manifest on the target
  Workers,      \* cleanup workers
  MaxAttempts,  \* bound on the permits of an item
  MaxEpochs,    \* bound on authority epochs
  None

Permits == Items \X (1..MaxAttempts)

VARIABLES
  listed,       \* version_cleanup_items
  sealed,       \* version_cleanup_inventories.state
  epoch,        \* the authority epoch of the present leader
  issued,       \* the epochs of the permits of an item, by attempt
  completed,    \* version_cleanup_item_completions: the permit, by item
  reclaimed,    \* items with a version_cleanup_item_reclamation
  task,         \* what each worker does next
  \* and those of the target:
  reservation, operation, inventory, tombstone, route, segment, reserved, committed, backup,
  file, receipts, call, late

authority == <<listed, sealed, epoch, issued, completed, reclaimed>>
store == <<reservation, operation, inventory, tombstone, route, segment, reserved, committed,
           backup, file, receipts, call, late>>
vars == <<authority, task, store>>

Target ==
  INSTANCE TargetStore WITH
    Shards <- Items, Puts <- {}, RepairPuts <- {}, Removals <- Permits, Backups <- {},
    ShardOf <- [r \in Permits |-> r[1]],
    Maximum <- [o \in {} |-> 1],
    Length <- [i \in Items |-> 1],
    Ceiling <- Cardinality(Items), Disk <- Cardinality(Items), RepairReserve <- 0,
    PackRecords <- Cardinality(Items), MaxPacks <- 1

Attempts(i) == Cardinality({n \in 1..MaxAttempts : issued[<<i, n>>] # 0})

Latest(i) == <<i, Attempts(i)>>

AtStep(w, step) == task[w] # None /\ task[w].step = step
Permit(w) == task[w].permit
Item(w) == task[w].permit[1]
Goto(w, step) == task' = [task EXCEPT ![w].step = step]
Idle(w) == task' = [task EXCEPT ![w] = None]
-----------------------------------------------------------------------------
(* The authority.                                                           *)

\* append, in pages, and seal of the exact count.
List(i) ==
  /\ ~sealed /\ i \notin listed
  /\ listed' = listed \cup {i}
  /\ UNCHANGED <<sealed, epoch, issued, completed, reclaimed, task, store>>

Seal ==
  /\ ~sealed /\ listed = Items
  /\ sealed' = TRUE
  /\ UNCHANGED <<listed, epoch, issued, completed, reclaimed, task, store>>

\* Another leader.
Elect ==
  /\ epoch < MaxEpochs
  /\ epoch' = epoch + 1
  /\ UNCHANGED <<listed, sealed, issued, completed, reclaimed, task, store>>

\* validate_authority: the attempt follows the one the worker read, which is over
\* or of an earlier epoch; and require_incomplete.
CanIssue(w) ==
  LET last == Latest(Item(w))
  IN  /\ completed[Item(w)] = None
      /\ Permit(w)[2] = Attempts(Item(w)) + 1 /\ Permit(w) \in Permits
      /\ Attempts(Item(w)) > 0 => last \in late \/ issued[last] < epoch

\* issue.
Issue(w) ==
  /\ AtStep(w, "Acquire") /\ CanIssue(w)
  /\ issued' = [issued EXCEPT ![Permit(w)] = epoch]
  /\ Idle(w)
  /\ UNCHANGED <<listed, sealed, epoch, completed, reclaimed, store>>

\* complete: once per item, on the receipt of any committed attempt.
CanComplete(w) == completed[Item(w)] = None

Complete(w) ==
  /\ AtStep(w, "Complete") /\ CanComplete(w)
  /\ completed' = [completed EXCEPT ![Item(w)] = Permit(w)]
  /\ Idle(w)
  /\ UNCHANGED <<listed, sealed, epoch, issued, reclaimed, store>>

\* confirm: once per item.
CanConfirm(w) == Item(w) \notin reclaimed

Confirm(w) ==
  /\ AtStep(w, "Confirm") /\ CanConfirm(w)
  /\ reclaimed' = reclaimed \cup {Item(w)}
  /\ Idle(w)
  /\ UNCHANGED <<listed, sealed, epoch, issued, completed, store>>
-----------------------------------------------------------------------------
(* A worker.                                                                *)

\* work_action: what the metadata ask for next.
WorkAction(i) ==
  CASE completed[i] # None -> [step |-> "Reclaim", permit |-> completed[i]]
    [] completed[i] = None /\ Attempts(i) > 0 /\ Latest(i) \notin late ->
         [step |-> "Tombstone", permit |-> Latest(i)]
    [] completed[i] = None /\ (Attempts(i) = 0 \/ Latest(i) \in late) ->
         [step |-> "Acquire", permit |-> <<i, Attempts(i) + 1>>]

\* cleanup_work_page and execute_cleanup_work.
Take(w, i) ==
  /\ task[w] = None /\ sealed /\ i \notin reclaimed
  /\ task' = [task EXCEPT ![w] = WorkAction(i)]
  /\ UNCHANGED <<authority, store>>

\* dispatch.tombstone, which may find the exact receipt.
Tombstone(w) ==
  /\ AtStep(w, "Tombstone")
  /\ Permit(w) \notin late
  /\ \/ Target!BeginTombstone(Permit(w)) /\ Goto(w, "TombstoneReply")
     \/ /\ call = None /\ operation[Permit(w)] = "Committed"
        /\ Goto(w, "Complete")
        /\ UNCHANGED store
  /\ UNCHANGED authority

\* dispatch.reclaim, which may find the exact receipt.
Reclaim(w) ==
  /\ AtStep(w, "Reclaim")
  /\ \/ Target!BeginUnlink(Permit(w)) /\ Goto(w, "ReclaimReply")
     \/ /\ call = None /\ inventory[Item(w)] = "Unlinked"
        /\ Goto(w, "Confirm")
        /\ UNCHANGED store
  /\ UNCHANGED authority

\* The target answers.
Reply(w) ==
  /\ call = None
  /\ \/ AtStep(w, "TombstoneReply") /\ operation[Permit(w)] = "Committed" /\ Goto(w, "Complete")
     \/ AtStep(w, "ReclaimReply") /\ inventory[Item(w)] = "Unlinked" /\ Goto(w, "Confirm")
  /\ UNCHANGED <<authority, store>>

\* The command is refused, or the target refuses: an expired permit, or a shard
\* that is no longer live under a removal the target has not seen.
Refused(w) ==
  \/ AtStep(w, "Acquire") /\ ~CanIssue(w)
  \/ AtStep(w, "Complete") /\ ~CanComplete(w)
  \/ AtStep(w, "Confirm") /\ ~CanConfirm(w)
  \/ AtStep(w, "Tombstone") /\ Permit(w) \in late
  \/ /\ AtStep(w, "Tombstone") /\ call = None
     /\ operation[Permit(w)] = "None" /\ inventory[Item(w)] # "Committed"
  \/ AtStep(w, "TombstoneReply") /\ call = None /\ operation[Permit(w)] # "Committed"
  \/ AtStep(w, "ReclaimReply") /\ call = None /\ inventory[Item(w)] # "Unlinked"

Fail(w) ==
  /\ Refused(w)
  /\ Idle(w)
  /\ UNCHANGED <<authority, store>>

\* The worker stops, or loses a reply.
Abandon(w) ==
  /\ task[w] # None
  /\ Idle(w)
  /\ UNCHANGED <<authority, store>>
-----------------------------------------------------------------------------
(* Time and the target.                                                     *)

Expire(r) ==
  /\ issued[r] # 0 /\ r \notin late /\ r[2] < MaxAttempts
  /\ late' = late \cup {r}
  /\ UNCHANGED <<authority, task, reservation, operation, inventory, tombstone, route, segment,
                 reserved, committed, backup, file, receipts, call>>

StoreStep ==
  /\ \/ \E r \in Permits :
          Target!TombstonePack(r) \/ Target!CommitTombstone(r) \/ Target!CommitUnlink(r)
     \/ Target!Refuse
  /\ UNCHANGED <<authority, task>>

StoreCrash == Target!Crash /\ UNCHANGED <<authority, task>>
-----------------------------------------------------------------------------
\* The deletion is authorised and the target holds the shards.
Init ==
  /\ listed = {}
  /\ sealed = FALSE
  /\ epoch = 1
  /\ issued = [r \in Permits |-> 0]
  /\ completed = [i \in Items |-> None]
  /\ reclaimed = {}
  /\ task = [w \in Workers |-> None]
  /\ reservation = [o \in {} |-> "None"]
  /\ operation = [r \in Permits |-> "None"]
  /\ inventory = [i \in Items |-> "Committed"]
  /\ tombstone = [i \in Items |-> None]
  /\ route = [i \in Items |-> 1]
  /\ segment = <<"Available">>
  /\ reserved = 0
  /\ committed = Cardinality(Items)
  /\ backup = [b \in {} |-> "None"]
  /\ file = <<[i \in Items |-> "Active"]>>
  /\ receipts = {}
  /\ call = None
  /\ late = {}

Proceed(w) ==
  Issue(w) \/ Tombstone(w) \/ Reply(w) \/ Complete(w) \/ Reclaim(w) \/ Confirm(w) \/ Fail(w)

Next ==
  \/ \E i \in Items : List(i)
  \/ Seal
  \/ Elect
  \/ \E w \in Workers : (\E i \in Items : Take(w, i)) \/ Proceed(w) \/ Abandon(w)
  \/ \E r \in Permits : Expire(r)
  \/ StoreStep
  \/ StoreCrash

Spec == Init /\ [][Next]_vars

\* Fairness.  The inventory is written; workers go through the pages for as
\* long as there are items; workers stop failing and the target stops crashing.
Calm ==
  /\ \A w \in Workers :
       task[w] # None /\ task'[w] = None => Refused(w) \/ authority' # authority
  /\ call # None /\ call' = None => Target!Refused \/ inventory' # inventory

Fairness ==
  /\ <>[][Calm]_vars
  /\ \A i \in Items : WF_vars(List(i))
  /\ WF_vars(Seal)
  /\ WF_vars(StoreStep)
  /\ \A w \in Workers : SF_vars(Proceed(w))
  /\ \A i \in Items : SF_vars(\E w \in Workers : Take(w, i))

FairSpec == Spec /\ Fairness
-----------------------------------------------------------------------------
\* Metadata and target go through a deletion one behind the other, whatever
\* replies are lost, permits expire, leaders change and calls are cut: no bytes
\* of the inventory are touched before it is sealed and a permit of the item
\* issued; a completion names the removal that took the shard at the target;
\* bytes are freed only for an item that is completed; and an item is recorded
\* as reclaimed only when its bytes are gone (issue, complete, confirm).
DeletionIsStaged ==
  \A i \in Items :
     /\ file[1][i] # "Active" => sealed /\ \E n \in 1..MaxAttempts : issued[<<i, n>>] # 0
     /\ completed[i] # None => tombstone[i] = completed[i]
     /\ file[1][i] = "Unlinked" => completed[i] # None
     /\ i \in reclaimed => inventory[i] = "Unlinked" /\ file[1][i] = "Unlinked"

\* Every shard of the inventory is deleted, its bytes are freed and the metadata
\* come to know of it, whatever replies were lost on the way (execute_cleanup_work).
\* design/protocol.md:880 says "Restart or a lost reply re-reads metadata and
\* replays the provider's immutable receipt".  After the permit of a committed
\* tombstone has expired, the next one names another provider operation
\* (validate_authority), which the target refuses for a shard that is not live
\* (require_live_inventory).
SealedItemsAreReclaimed == \A i \in Items : <>(i \in reclaimed)
=============================================================================
