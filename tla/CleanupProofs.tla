---------------------------- MODULE CleanupProofs ----------------------------
(***************************************************************************)
(* Proofs about the deletion of the shards of a manifest, for any set of    *)
(* items and workers and any number of permits and leaders.                 *)
(*                                                                         *)
(* CleanupInv is inductive.  It follows an item from the permit through the *)
(* journal and the pack of the target to the completion and the             *)
(* reclamation, and says what a worker knows at each step: its reply may be *)
(* older than the present leader, but what it has seen cannot be undone.    *)
(***************************************************************************)
EXTENDS VersionCleanup, FiniteSetTheorems, TLAPS

Steps == {"Acquire", "Tombstone", "TombstoneReply", "Complete", "Reclaim", "ReclaimReply", "Confirm"}

\* Permits are numbered, and None is no call of the target.
ConstantsAreSound == MaxAttempts \in Nat /\ None \notin Target!Calls

\* What the authority and the workers keep.
CleanupTypes ==
  /\ sealed \in BOOLEAN /\ epoch \in Nat \ {0}
  /\ issued \in [Permits -> Nat]
  /\ completed \in [Items -> Permits \cup {None}]
  /\ reclaimed \subseteq Items
  /\ task \in [Workers -> [step : Steps, permit : Items \X Nat] \cup {None}]

\* What the target keeps: one pack, in which every item is at first.
StoreTypes ==
  /\ operation \in [Permits -> {"None", "Prepared", "Committed"}]
  /\ inventory \in [Items -> {"Committed", "Tombstoned", "Unlinked"}]
  /\ tombstone \in [Items -> Permits \cup {None}]
  /\ route = [i \in Items |-> 1]
  /\ file \in [{1} -> [Items -> {"Active", "Tombstoned", "Unlinked"}]]
  /\ receipts \subseteq Permits

\* The inventory is sealed and the item has a permit.
Allowed(i) == sealed /\ \E n \in 1..MaxAttempts : issued[<<i, n>>] # 0

\* The shard is taken, by the removal that will always be the one.
TakenBy(i, r) == tombstone[i] = r /\ inventory[i] # "Committed"

\* What the target does under a permit was allowed, and one removal takes the
\* shard.
RemovalIsGrounded(r) ==
  /\ operation[r] # "None" => Allowed(r[1])
  /\ r \in receipts => operation[r] # "None"
  /\ Target!Doing(r, "TombstonePack") => operation[r] # "None"
  /\ Target!Doing(r, "CommitTombstone") => operation[r] # "None"
  /\ Target!Doing(r, "CommitUnlink") => file[1][r[1]] = "Unlinked"
  /\ operation[r] = "Committed" => TakenBy(r[1], r)

RemovalsAreGrounded == \A r \in Permits : RemovalIsGrounded(r)

\* A completion is about its own item, whose shard its removal has taken.
CompletionsAreGrounded ==
  \A i \in Items : completed[i] # None => completed[i][1] = i /\ TakenBy(i, completed[i])

\* What a worker has been told.
WorkerIsGrounded(w) ==
  /\ task[w].step # "Acquire" => Permit(w) \in Permits
  /\ task[w].step = "Tombstone" => Allowed(Item(w))
  /\ task[w].step = "Complete" => operation[Permit(w)] = "Committed"
  /\ task[w].step \in {"Reclaim", "ReclaimReply"} => completed[Item(w)] # None
  /\ task[w].step = "Confirm" => inventory[Item(w)] = "Unlinked"

WorkersAreGrounded == \A w \in Workers : task[w] # None => WorkerIsGrounded(w)

\* The bytes of an item go one step behind the metadata, and what the metadata
\* record of them is one step behind again.
BytesAreGrounded(i) ==
  /\ file[1][i] # "Active" => Allowed(i)
  /\ file[1][i] = "Unlinked" => completed[i] # None
  /\ inventory[i] = "Unlinked" => file[1][i] = "Unlinked"
  /\ i \in reclaimed => inventory[i] = "Unlinked"

ItemsAreGrounded == \A i \in Items : BytesAreGrounded(i)

CleanupInv ==
  /\ ConstantsAreSound /\ CleanupTypes /\ StoreTypes
  /\ RemovalsAreGrounded /\ CompletionsAreGrounded /\ WorkersAreGrounded /\ ItemsAreGrounded

\* What no step takes back.
Progress ==
  /\ \A i \in Items : Allowed(i) => Allowed(i)'
  /\ \A r \in Permits : operation[r] = "Committed" => operation'[r] = "Committed"
  /\ \A i \in Items : completed[i] # None => completed'[i] = completed[i]
  /\ \A i \in Items : inventory[i] = "Unlinked" => inventory'[i] = "Unlinked"
-----------------------------------------------------------------------------
(* The target and the tasks.                                                *)

\* The target has one pack, and a removal is of the item it names.
LEMMA TargetConstants ==
  \A r \in Permits : r[1] \in Items /\ [p \in Permits |-> p[1]][r] = r[1]
BY DEF Permits

\* A call is over when the target is unlocked (Unlocked).
LEMMA UnlockedCalls ==
  ASSUME ConstantsAreSound, NEW r \in Permits,
         NEW step \in {"TombstonePack", "CommitTombstone", "CommitUnlink"}
  PROVE  [op |-> r, step |-> step] # None
<1>1. r \in Target!Operations
  BY DEF Target!Operations
<1>2. [op |-> r, step |-> step] \in Target!Calls
  BY <1>1 DEF Target!Calls
<1>. QED BY <1>2 DEF ConstantsAreSound

\* An item that has permits has a latest one (Attempts).
LEMMA AttemptsCount ==
  ASSUME ConstantsAreSound, CleanupTypes, NEW i \in Items
  PROVE  /\ Attempts(i) \in Nat
         /\ Attempts(i) > 0 => Latest(i) \in Permits /\ \E n \in 1..MaxAttempts : issued[<<i, n>>] # 0
<1> DEFINE S == {n \in 1..MaxAttempts : issued[<<i, n>>] # 0}
<1>1. IsFiniteSet(1..MaxAttempts) /\ Cardinality(1..MaxAttempts) = MaxAttempts
  <2>1. 1 \in Int /\ MaxAttempts \in Int /\ MaxAttempts \in Nat
    BY DEF ConstantsAreSound
  <2>2. /\ IsFiniteSet(1..MaxAttempts)
        /\ Cardinality(1..MaxAttempts) = IF 1 > MaxAttempts THEN 0 ELSE MaxAttempts - 1 + 1
    BY <2>1, FS_Interval
  <2>. QED BY <2>1, <2>2
<1>2. /\ IsFiniteSet(S) /\ Cardinality(S) <= MaxAttempts
  BY <1>1, FS_Subset
<1>3. Cardinality(S) \in Nat
  BY <1>2, FS_CardinalityType
<1>4. S = {} => Cardinality(S) = 0
  BY FS_EmptySet
<1>5. Attempts(i) = Cardinality(S)
  BY DEF Attempts
<1>6. ASSUME Attempts(i) > 0 PROVE Latest(i) \in Permits
  BY <1>2, <1>3, <1>5, <1>6 DEF ConstantsAreSound, Latest, Permits
<1>. QED BY <1>3, <1>4, <1>5, <1>6

\* The fields of a task.
LEMMA TaskFields ==
  ASSUME CleanupTypes, NEW w \in Workers, task[w] # None
  PROVE  /\ task[w].step \in Steps
         /\ Permit(w) \in Items \X Nat
         /\ Item(w) \in Items
BY DEF CleanupTypes, Permit, Item

\* A worker that goes on keeps its permit.
LEMMA GotoFields ==
  ASSUME CleanupTypes, NEW w \in Workers, task[w] # None, NEW step \in Steps, Goto(w, step)
  PROVE  /\ task' \in [Workers -> [step : Steps, permit : Items \X Nat] \cup {None}]
         /\ task'[w].step = step
         /\ Permit(w)' = Permit(w) /\ Item(w)' = Item(w)
         /\ \A v \in Workers : v # w => task'[v] = task[v]
<1>1. task[w] \in [step : Steps, permit : Items \X Nat]
  BY DEF CleanupTypes
<1>2. task' = [task EXCEPT ![w].step = step]
  BY DEF Goto
<1>3. task'[w] = [task[w] EXCEPT !.step = step] /\ \A v \in Workers : v # w => task'[v] = task[v]
  BY <1>2 DEF CleanupTypes
<1>4. task'[w] \in [step : Steps, permit : Items \X Nat] /\ task'[w].step = step
      /\ task'[w].permit = task[w].permit
  BY <1>1, <1>3
<1>5. task' \in [Workers -> [step : Steps, permit : Items \X Nat] \cup {None}]
  BY <1>2, <1>3, <1>4 DEF CleanupTypes
<1>. QED BY <1>3, <1>4, <1>5 DEF Permit, Item

\* A worker that stops has no task.
LEMMA IdleFields ==
  ASSUME CleanupTypes, NEW w \in Workers, Idle(w)
  PROVE  /\ task' \in [Workers -> [step : Steps, permit : Items \X Nat] \cup {None}]
         /\ task'[w] = None
         /\ \A v \in Workers : v # w => task'[v] = task[v]
BY DEF CleanupTypes, Idle

\* What a worker has been told stays true.
LEMMA WorkerIsKept ==
  ASSUME CleanupInv, Progress, NEW v \in Workers, task[v] # None, task'[v] = task[v]
  PROVE  WorkerIsGrounded(v)'
<1>1. WorkerIsGrounded(v) /\ task[v].step \in Steps /\ Item(v) \in Items
  BY TaskFields DEF CleanupInv, WorkersAreGrounded
<1>2. Permit(v)' = Permit(v) /\ Item(v)' = Item(v)
  BY DEF Permit, Item
<1>3. task[v].step = "Complete" => Permit(v) \in Permits
  BY <1>1 DEF WorkerIsGrounded
<1>. QED BY <1>1, <1>2, <1>3 DEF WorkerIsGrounded, Progress

\* Steps of the authority and of the workers that leave the target alone.
LEMMA StoreIsLeft ==
  ASSUME CleanupInv, \A i \in Items : Allowed(i) => Allowed(i)',
         UNCHANGED <<operation, inventory, tombstone, route, file, receipts, call>>
  PROVE  StoreTypes' /\ RemovalsAreGrounded'
<1>1. StoreTypes'
  BY DEF CleanupInv, StoreTypes
<1>2. ASSUME NEW r \in Permits PROVE RemovalIsGrounded(r)'
  BY TargetConstants
  DEF CleanupInv, RemovalsAreGrounded, RemovalIsGrounded, TakenBy, Target!Doing
<1>. QED BY <1>1, <1>2 DEF RemovalsAreGrounded

\* The parts that say nothing of tasks.
Grounds == StoreTypes /\ RemovalsAreGrounded /\ CompletionsAreGrounded /\ ItemsAreGrounded

\* One worker takes a step.
LEMMA WorkerStep ==
  ASSUME CleanupInv, Progress, CleanupTypes', Grounds', NEW w \in Workers,
         \A v \in Workers : v # w => task'[v] = task[v],
         task'[w] # None => WorkerIsGrounded(w)'
  PROVE  CleanupInv'
<1>1. ASSUME NEW v \in Workers, task'[v] # None PROVE WorkerIsGrounded(v)'
  <2>1. CASE v = w
    BY <1>1, <2>1
  <2>2. CASE v # w
    BY <1>1, <2>2, WorkerIsKept
  <2>. QED BY <2>1, <2>2
<1>. QED BY <1>1 DEF CleanupInv, ConstantsAreSound, Grounds, WorkersAreGrounded

\* No worker takes a step.
LEMMA OtherStep ==
  ASSUME CleanupInv, Progress, CleanupTypes', Grounds', UNCHANGED task
  PROVE  CleanupInv'
<1>1. ASSUME NEW v \in Workers, task'[v] # None PROVE WorkerIsGrounded(v)'
  BY <1>1, WorkerIsKept
<1>. QED BY <1>1 DEF CleanupInv, ConstantsAreSound, Grounds, WorkersAreGrounded

\* A worker learns something; the authority and the target stay as they are.
LEMMA QuietStep ==
  ASSUME CleanupInv, UNCHANGED <<authority, store>>
  PROVE  Progress /\ Grounds'
         /\ (task' \in [Workers -> [step : Steps, permit : Items \X Nat] \cup {None}] => CleanupTypes')
<1>1. UNCHANGED <<sealed, epoch, issued, completed, reclaimed>>
  BY DEF authority
<1>2. UNCHANGED <<operation, inventory, tombstone, route, file, receipts, call>>
  BY DEF store
<1>3. Progress
  BY <1>1, <1>2 DEF Progress, Allowed
<1>4. StoreTypes' /\ RemovalsAreGrounded'
  BY <1>2, <1>3, StoreIsLeft DEF Progress
<1>5. CompletionsAreGrounded' /\ ItemsAreGrounded'
  BY <1>1, <1>2
  DEF CleanupInv, CompletionsAreGrounded, TakenBy, ItemsAreGrounded, BytesAreGrounded, Allowed
<1>6. task' \in [Workers -> [step : Steps, permit : Items \X Nat] \cup {None}] => CleanupTypes'
  BY <1>1 DEF CleanupInv, CleanupTypes
<1>. QED BY <1>3, <1>4, <1>5, <1>6 DEF Grounds

\* A worker stops, or is refused.
LEMMA IdleKeeps ==
  ASSUME CleanupInv, NEW w \in Workers, Idle(w), UNCHANGED <<authority, store>>
  PROVE  CleanupInv'
<1>1. CleanupTypes /\ Progress /\ Grounds' /\ CleanupTypes'
  BY QuietStep, IdleFields DEF CleanupInv
<1>. QED BY <1>1, IdleFields, WorkerStep

\* work_action reads what the metadata say.
LEMMA TakeKeeps ==
  ASSUME CleanupInv, NEW w \in Workers, NEW i \in Items, Take(w, i)
  PROVE  CleanupInv'
<1> DEFINE next == WorkAction(i)
<1>1. /\ ConstantsAreSound /\ CleanupTypes /\ sealed /\ UNCHANGED <<authority, store>>
      /\ task' = [task EXCEPT ![w] = next]
  BY DEF Take, CleanupInv
<1>2. task'[w] = next /\ \A v \in Workers : v # w => task'[v] = task[v]
  BY <1>1 DEF CleanupTypes
<1>3. /\ next.step # "Acquire" => next.permit \in Permits
      /\ next.step = "Tombstone" => Allowed(next.permit[1])
      /\ next.step \in {"Acquire", "Tombstone", "Reclaim"}
      /\ next.step = "Reclaim" => completed[next.permit[1]] # None
      /\ next \in [step : Steps, permit : Items \X Nat]
  <2>1. CASE completed[i] # None
    <3>1. next = [step |-> "Reclaim", permit |-> completed[i]]
      BY <2>1 DEF WorkAction
    <3>2. completed[i] \in Permits /\ completed[i][1] = i
      BY <1>1, <2>1 DEF CleanupTypes, CleanupInv, CompletionsAreGrounded
    <3>3. completed[i] \in Items \X Nat
      BY <3>2 DEF Permits
    <3>. QED BY <2>1, <3>1, <3>2, <3>3 DEF Steps
  <2>2. CASE completed[i] = None /\ Attempts(i) > 0 /\ Latest(i) \notin late
    <3>1. next = [step |-> "Tombstone", permit |-> Latest(i)]
      BY <2>2 DEF WorkAction
    <3>2. Latest(i) \in Permits /\ \E n \in 1..MaxAttempts : issued[<<i, n>>] # 0
      BY <1>1, <2>2, AttemptsCount
    <3>3. Latest(i) \in Items \X Nat /\ Latest(i)[1] = i
      BY <3>2 DEF Permits, Latest
    <3>. QED BY <1>1, <3>1, <3>2, <3>3 DEF Steps, Allowed
  <2>3. CASE completed[i] = None /\ (Attempts(i) = 0 \/ Latest(i) \in late)
    <3>1. Attempts(i) \in Nat
      BY <1>1, AttemptsCount
    <3>2. next = [step |-> "Acquire", permit |-> <<i, Attempts(i) + 1>>]
      BY <2>3, <3>1 DEF WorkAction
    <3>. QED BY <3>1, <3>2 DEF Steps
  <2>. QED BY <1>1, <2>1, <2>2, <2>3, AttemptsCount
<1>4. CleanupTypes' /\ Progress /\ Grounds'
  <2> HIDE DEF next
  <2>1. task' \in [Workers -> [step : Steps, permit : Items \X Nat] \cup {None}]
    BY <1>1, <1>3 DEF CleanupTypes
  <2>. QED BY <1>1, <2>1, QuietStep
<1>5. WorkerIsGrounded(w)'
  <2> HIDE DEF next
  <2>1. UNCHANGED <<sealed, issued, completed>>
    BY <1>1 DEF authority
  <2>2. Permit(w)' = next.permit /\ Item(w)' = next.permit[1]
    BY <1>2 DEF Permit, Item
  <2>. QED BY <1>2, <1>3, <2>1, <2>2 DEF WorkerIsGrounded, Allowed
<1>. QED BY <1>2, <1>4, <1>5, WorkerStep

\* An answer, or a receipt found at once, moves the worker on.
LEMMA ReplyKeeps ==
  ASSUME CleanupInv, NEW w \in Workers, UNCHANGED <<authority, store>>,
         \/ /\ AtStep(w, "Tombstone") \/ AtStep(w, "TombstoneReply")
            /\ operation[Permit(w)] = "Committed" /\ Goto(w, "Complete")
         \/ /\ AtStep(w, "Reclaim") \/ AtStep(w, "ReclaimReply")
            /\ inventory[Item(w)] = "Unlinked" /\ Goto(w, "Confirm")
  PROVE  CleanupInv'
<1>1. PICK step \in {"Complete", "Confirm"} :
        /\ Goto(w, step)
        /\ step = "Complete" => operation[Permit(w)] = "Committed"
        /\ step = "Confirm" => inventory[Item(w)] = "Unlinked"
  OBVIOUS
<1>2. CleanupTypes /\ task[w] # None /\ task[w].step # "Acquire" /\ step \in Steps
  BY DEF CleanupInv, AtStep, Steps
<1>3. /\ task' \in [Workers -> [step : Steps, permit : Items \X Nat] \cup {None}]
      /\ task'[w].step = step
      /\ Permit(w)' = Permit(w) /\ Item(w)' = Item(w)
      /\ \A v \in Workers : v # w => task'[v] = task[v]
  BY <1>1, <1>2, GotoFields
<1>4. CleanupTypes' /\ Progress /\ Grounds'
  BY <1>3, QuietStep
<1>5. WorkerIsGrounded(w)'
  <2>1. UNCHANGED <<operation, inventory>>
    BY DEF store
  <2>2. Permit(w) \in Permits
    BY <1>2 DEF CleanupInv, WorkersAreGrounded, WorkerIsGrounded
  <2>. QED BY <1>1, <1>3, <2>1, <2>2 DEF WorkerIsGrounded
<1>. QED BY <1>3, <1>4, <1>5, WorkerStep
-----------------------------------------------------------------------------
(* The authority.                                                           *)

\* What was allowed stays so when permits are added or the inventory is sealed.
LEMMA AuthorityStep ==
  ASSUME CleanupInv, UNCHANGED store, UNCHANGED <<completed, reclaimed>>,
         \A i \in Items : Allowed(i) => Allowed(i)'
  PROVE  Progress /\ Grounds'
<1>1. UNCHANGED <<operation, inventory, tombstone, route, file, receipts, call>>
  BY DEF store
<1>2. Progress
  BY <1>1 DEF Progress
<1>3. StoreTypes' /\ RemovalsAreGrounded'
  BY <1>1, StoreIsLeft
<1>4. CompletionsAreGrounded'
  BY <1>1 DEF CleanupInv, CompletionsAreGrounded, TakenBy
<1>5. ItemsAreGrounded'
  BY <1>1 DEF CleanupInv, ItemsAreGrounded, BytesAreGrounded
<1>. QED BY <1>2, <1>3, <1>4, <1>5 DEF Grounds

\* append, seal and an election.
LEMMA ListKeeps ==
  ASSUME CleanupInv, (\E i \in Items : List(i)) \/ Seal \/ Elect
  PROVE  CleanupInv'
<1>1. /\ UNCHANGED <<issued, completed, reclaimed, task, store>>
      /\ sealed' \in BOOLEAN /\ (sealed => sealed')
      /\ epoch' \in Nat \ {0}
  <2>1. sealed \in BOOLEAN /\ epoch \in Nat \ {0}
    BY DEF CleanupInv, CleanupTypes
  <2>2. CASE \E i \in Items : List(i)
    BY <2>1, <2>2 DEF List
  <2>3. CASE Seal
    BY <2>1, <2>3 DEF Seal
  <2>4. CASE Elect
    <3>1. epoch' = epoch + 1 /\ UNCHANGED <<sealed, issued, completed, reclaimed, task, store>>
      BY <2>4 DEF Elect
    <3>2. epoch' \in Nat \ {0}
      BY <2>1, <3>1
    <3>. QED BY <2>1, <3>1, <3>2
  <2>. QED BY <2>2, <2>3, <2>4
<1>2. \A i \in Items : Allowed(i) => Allowed(i)'
  BY <1>1 DEF Allowed
<1>3. CleanupTypes'
  BY <1>1 DEF CleanupInv, CleanupTypes
<1>. QED BY <1>1, <1>2, <1>3, AuthorityStep, OtherStep

\* issue.
LEMMA IssueKeeps ==
  ASSUME CleanupInv, NEW w \in Workers, Issue(w)
  PROVE  CleanupInv'
<1>1. /\ CleanupTypes /\ Permit(w) \in Permits /\ epoch \in Nat \ {0}
      /\ issued' = [issued EXCEPT ![Permit(w)] = epoch]
      /\ UNCHANGED <<sealed, epoch, completed, reclaimed, store>>
      /\ Idle(w)
  BY DEF Issue, CanIssue, CleanupInv, CleanupTypes
<1>2. issued' \in [Permits -> Nat] /\ \A r \in Permits : issued[r] # 0 => issued'[r] # 0
  BY <1>1 DEF CleanupTypes
<1>3. ASSUME NEW i \in Items, Allowed(i) PROVE Allowed(i)'
  <2>1. PICK n \in 1..MaxAttempts : issued[<<i, n>>] # 0
    BY <1>3 DEF Allowed
  <2>2. <<i, n>> \in Permits
    BY DEF Permits
  <2>. QED BY <1>1, <1>2, <1>3, <2>1, <2>2 DEF Allowed
<1>4. CleanupTypes'
  BY <1>1, <1>2, IdleFields DEF CleanupTypes
<1>5. Progress /\ Grounds'
  BY <1>1, <1>3, AuthorityStep
<1>. QED BY <1>1, <1>4, <1>5, IdleFields, WorkerStep

\* complete: the permit is of a committed removal, which has taken the shard.
LEMMA CompleteKeeps ==
  ASSUME CleanupInv, NEW w \in Workers, Complete(w)
  PROVE  CleanupInv'
<1> DEFINE k == Item(w)
           p == Permit(w)
<1>1. /\ CleanupTypes /\ task[w] # None /\ task[w].step = "Complete"
      /\ completed[k] = None
      /\ completed' = [completed EXCEPT ![k] = p]
      /\ UNCHANGED <<sealed, epoch, issued, reclaimed, store>>
      /\ Idle(w)
  BY DEF Complete, CanComplete, AtStep, CleanupInv
<1>2. k \in Items /\ p \in Permits /\ operation[p] = "Committed" /\ p[1] = k
  BY <1>1, TaskFields DEF CleanupInv, WorkersAreGrounded, WorkerIsGrounded, Permit, Item
<1>3. TakenBy(k, p)
  BY <1>2 DEF CleanupInv, RemovalsAreGrounded, RemovalIsGrounded
<1> HIDE DEF k, p
<1>4. UNCHANGED <<operation, inventory, tombstone, route, file, receipts, call>>
  BY <1>1 DEF store
<1>5. \A i \in Items : completed'[i] = IF i = k THEN p ELSE completed[i]
  BY <1>1, <1>2 DEF CleanupTypes
<1>6. Progress
  BY <1>1, <1>4, <1>5 DEF Progress, Allowed
<1>7. StoreTypes' /\ RemovalsAreGrounded'
  BY <1>4, <1>6, StoreIsLeft DEF Progress
<1>8. CompletionsAreGrounded'
  BY <1>2, <1>3, <1>4, <1>5 DEF CleanupInv, CompletionsAreGrounded, TakenBy
<1>9. ItemsAreGrounded'
  BY <1>1, <1>4, <1>5, <1>6 DEF CleanupInv, ItemsAreGrounded, BytesAreGrounded, Progress
<1>10. CleanupTypes'
  BY <1>1, <1>2, IdleFields DEF CleanupTypes
<1>. QED BY <1>1, <1>6, <1>7, <1>8, <1>9, <1>10, IdleFields, WorkerStep DEF Grounds

\* confirm: the worker has seen that the bytes are gone.
LEMMA ConfirmKeeps ==
  ASSUME CleanupInv, NEW w \in Workers, Confirm(w)
  PROVE  CleanupInv'
<1>1. /\ CleanupTypes /\ task[w] # None /\ task[w].step = "Confirm"
      /\ reclaimed' = reclaimed \cup {Item(w)}
      /\ UNCHANGED <<sealed, epoch, issued, completed, store>>
      /\ Idle(w)
  BY DEF Confirm, AtStep, CleanupInv
<1>2. Item(w) \in Items /\ inventory[Item(w)] = "Unlinked"
  BY <1>1, TaskFields DEF CleanupInv, WorkersAreGrounded, WorkerIsGrounded
<1>3. UNCHANGED <<operation, inventory, tombstone, route, file, receipts, call>>
  BY <1>1 DEF store
<1>4. Progress
  BY <1>1, <1>3 DEF Progress, Allowed
<1>5. StoreTypes' /\ RemovalsAreGrounded'
  BY <1>3, <1>4, StoreIsLeft DEF Progress
<1>6. CompletionsAreGrounded'
  BY <1>1, <1>3 DEF CleanupInv, CompletionsAreGrounded, TakenBy
<1>7. ItemsAreGrounded'
  BY <1>1, <1>2, <1>3, <1>4 DEF CleanupInv, ItemsAreGrounded, BytesAreGrounded, Progress
<1>8. CleanupTypes'
  BY <1>1, <1>2, IdleFields DEF CleanupTypes
<1>. QED BY <1>1, <1>4, <1>5, <1>6, <1>7, <1>8, IdleFields, WorkerStep DEF Grounds

\* A permit expires.
LEMMA ExpireKeeps ==
  ASSUME CleanupInv, NEW r \in Permits, Expire(r)
  PROVE  CleanupInv'
<1>1. /\ UNCHANGED <<sealed, epoch, issued, completed, reclaimed, task>>
      /\ UNCHANGED <<operation, inventory, tombstone, route, file, receipts, call>>
  BY DEF Expire, authority
<1>2. Progress
  BY <1>1 DEF Progress, Allowed
<1>3. StoreTypes' /\ RemovalsAreGrounded'
  BY <1>1, <1>2, StoreIsLeft DEF Progress
<1>4. CompletionsAreGrounded' /\ ItemsAreGrounded'
  BY <1>1
  DEF CleanupInv, CompletionsAreGrounded, TakenBy, ItemsAreGrounded, BytesAreGrounded, Allowed
<1>5. CleanupTypes'
  BY <1>1 DEF CleanupInv, CleanupTypes
<1>. QED BY <1>1, <1>2, <1>3, <1>4, <1>5, OtherStep DEF Grounds
-----------------------------------------------------------------------------
(* The target.                                                              *)

\* What is allowed is decided by the authority.
LEMMA AllowedIsKept ==
  ASSUME UNCHANGED authority
  PROVE  /\ \A i \in Items : Allowed(i)' = Allowed(i)
         /\ UNCHANGED <<sealed, epoch, issued, completed, reclaimed>>
BY DEF authority, Allowed

\* prepare_tombstone of an allowed removal.
LEMMA BeginTombstoneKeeps ==
  ASSUME CleanupInv, NEW r \in Permits, Allowed(r[1]), Target!BeginTombstone(r), UNCHANGED authority
  PROVE  Progress /\ Grounds'
<1>1. /\ UNCHANGED <<inventory, tombstone, route, file, receipts>>
      /\ call' = [op |-> r, step |-> "TombstonePack"]
      /\ operation[r] \in {"None", "Prepared"}
      /\ \/ operation' = [operation EXCEPT ![r] = "Prepared"]
         \/ operation[r] = "Prepared" /\ operation' = operation
  BY DEF Target!BeginTombstone, Target!Next1, Target!packs
<1>2. /\ operation' \in [Permits -> {"None", "Prepared", "Committed"}]
      /\ \A p \in Permits : operation'[p] = IF p = r THEN "Prepared" ELSE operation[p]
  BY <1>1 DEF CleanupInv, StoreTypes
<1>3. ASSUME NEW p \in Permits
      PROVE  /\ Target!Doing(p, "TombstonePack")' => p = r
             /\ ~Target!Doing(p, "CommitTombstone")' /\ ~Target!Doing(p, "CommitUnlink")'
  BY <1>1 DEF Target!Doing
<1>4. Progress
  BY <1>1, <1>2, AllowedIsKept DEF Progress
<1>5. StoreTypes'
  BY <1>1, <1>2 DEF CleanupInv, StoreTypes
<1>6. RemovalsAreGrounded'
  <2>1. ASSUME NEW p \in Permits PROVE RemovalIsGrounded(p)'
    BY <1>1, <1>2, <1>3, AllowedIsKept, TargetConstants
    DEF CleanupInv, RemovalsAreGrounded, RemovalIsGrounded, TakenBy
  <2>. QED BY <2>1 DEF RemovalsAreGrounded
<1>7. CompletionsAreGrounded' /\ ItemsAreGrounded'
  BY <1>1, AllowedIsKept
  DEF CleanupInv, CompletionsAreGrounded, TakenBy, ItemsAreGrounded, BytesAreGrounded
<1>. QED BY <1>4, <1>5, <1>6, <1>7 DEF Grounds

\* PackStore::tombstone_exact: a prepared removal takes an active row.
LEMMA TombstonePackKeeps ==
  ASSUME CleanupInv, NEW r \in Permits, Target!TombstonePack(r), UNCHANGED authority
  PROVE  Progress /\ Grounds'
<1>1. /\ UNCHANGED <<operation, inventory, tombstone, route>>
      /\ call' = [op |-> r, step |-> "CommitTombstone"]
      /\ receipts' = receipts \cup {r}
      /\ Target!Doing(r, "TombstonePack")
  BY DEF Target!TombstonePack, Target!Next1, Target!journal
<1>2. operation[r] # "None" /\ Allowed(r[1]) /\ r[1] \in Items
  BY <1>1, TargetConstants DEF CleanupInv, RemovalsAreGrounded, RemovalIsGrounded
<1>3. /\ file' \in [{1} -> [Items -> {"Active", "Tombstoned", "Unlinked"}]]
      /\ \A i \in Items : \/ file'[1][i] = file[1][i]
                          \/ /\ i = r[1] /\ file[1][i] = "Active"
                             /\ file'[1][i] = "Tombstoned"
  <2>1. \/ file' = file
        \/ /\ file[1][r[1]] = "Active"
           /\ file' = [file EXCEPT ![1][r[1]] = "Tombstoned"]
    <3>1. Target!Stored(r) = file[1][r[1]] /\ route[[p \in Permits |-> p[1]][r]] = 1
      BY <1>2, TargetConstants DEF Target!Stored, CleanupInv, StoreTypes
    <3>. QED BY <3>1, TargetConstants DEF Target!TombstonePack
  <2>. QED BY <1>2, <2>1 DEF CleanupInv, StoreTypes
<1>4. ASSUME NEW p \in Permits
      PROVE  /\ Target!Doing(p, "CommitTombstone")' => p = r
             /\ ~Target!Doing(p, "TombstonePack")' /\ ~Target!Doing(p, "CommitUnlink")'
  BY <1>1 DEF Target!Doing
<1>5. Progress
  BY <1>1, AllowedIsKept DEF Progress
<1>6. StoreTypes'
  BY <1>1, <1>3 DEF CleanupInv, StoreTypes
<1>7. RemovalsAreGrounded'
  <2>1. ASSUME NEW p \in Permits PROVE RemovalIsGrounded(p)'
    BY <1>1, <1>2, <1>4, AllowedIsKept, TargetConstants
    DEF CleanupInv, RemovalsAreGrounded, RemovalIsGrounded, TakenBy
  <2>. QED BY <2>1 DEF RemovalsAreGrounded
<1>8. CompletionsAreGrounded'
  BY <1>1, AllowedIsKept DEF CleanupInv, CompletionsAreGrounded, TakenBy
<1>9. ItemsAreGrounded'
  <2>1. ASSUME NEW i \in Items PROVE BytesAreGrounded(i)'
    BY <1>1, <1>2, <1>3, AllowedIsKept DEF CleanupInv, ItemsAreGrounded, BytesAreGrounded
  <2>. QED BY <2>1 DEF ItemsAreGrounded
<1>. QED BY <1>5, <1>6, <1>7, <1>8, <1>9 DEF Grounds

\* commit_tombstone: one removal takes live inventory.
LEMMA CommitTombstoneKeeps ==
  ASSUME CleanupInv, NEW r \in Permits, Target!CommitTombstone(r), UNCHANGED authority
  PROVE  Progress /\ Grounds'
<1>1. r[1] \in Items /\ [p \in Permits |-> p[1]][r] = r[1]
  BY TargetConstants
<1>2. /\ UNCHANGED <<route, file, receipts>>
      /\ Target!Doing(r, "CommitTombstone")
      /\ inventory[r[1]] = "Committed"
      /\ inventory' = [inventory EXCEPT ![r[1]] = "Tombstoned"]
      /\ tombstone' = [tombstone EXCEPT ![r[1]] = r]
      /\ operation' = [operation EXCEPT ![r] = "Committed"]
      /\ call' = None
  BY <1>1 DEF Target!CommitTombstone, Target!packs
<1>3. /\ \A i \in Items : /\ inventory'[i] = IF i = r[1] THEN "Tombstoned" ELSE inventory[i]
                          /\ tombstone'[i] = IF i = r[1] THEN r ELSE tombstone[i]
      /\ \A p \in Permits : operation'[p] = IF p = r THEN "Committed" ELSE operation[p]
      /\ StoreTypes'
  BY <1>1, <1>2 DEF CleanupInv, StoreTypes
<1>4. operation[r] # "None" /\ Allowed(r[1])
  BY <1>2 DEF CleanupInv, RemovalsAreGrounded, RemovalIsGrounded
<1>5. ASSUME NEW p \in Permits
      PROVE  /\ ~Target!Doing(p, "CommitTombstone")'
             /\ ~Target!Doing(p, "TombstonePack")' /\ ~Target!Doing(p, "CommitUnlink")'
  BY <1>2, UnlockedCalls DEF CleanupInv, Target!Doing
<1>6. Progress
  BY <1>2, <1>3, AllowedIsKept DEF Progress
<1>7. RemovalsAreGrounded'
  <2>1. ASSUME NEW p \in Permits PROVE RemovalIsGrounded(p)'
    BY <1>1, <1>2, <1>3, <1>4, <1>5, AllowedIsKept, TargetConstants
    DEF CleanupInv, RemovalsAreGrounded, RemovalIsGrounded, TakenBy
  <2>. QED BY <2>1 DEF RemovalsAreGrounded
<1>8. CompletionsAreGrounded'
  BY <1>2, <1>3, AllowedIsKept DEF CleanupInv, CompletionsAreGrounded, TakenBy
<1>9. ItemsAreGrounded'
  BY <1>2, <1>3, AllowedIsKept DEF CleanupInv, ItemsAreGrounded, BytesAreGrounded
<1>. QED BY <1>3, <1>6, <1>7, <1>8, <1>9 DEF Grounds

\* unlink_tombstoned in the pack, for a completed item.
LEMMA BeginUnlinkKeeps ==
  ASSUME CleanupInv, NEW r \in Permits, completed[r[1]] # None,
         Target!BeginUnlink(r), UNCHANGED authority
  PROVE  Progress /\ Grounds'
<1>1. r[1] \in Items /\ [p \in Permits |-> p[1]][r] = r[1] /\ route[r[1]] = 1
  BY TargetConstants DEF CleanupInv, StoreTypes
<1>2. /\ UNCHANGED <<operation, inventory, tombstone, route, receipts>>
      /\ file[1][r[1]] \in {"Tombstoned", "Unlinked"}
      /\ file' = [file EXCEPT ![1][r[1]] = "Unlinked"]
      /\ call' = [op |-> r, step |-> "CommitUnlink"]
  BY <1>1 DEF Target!BeginUnlink, Target!Stored, Target!Next1, Target!journal
<1>3. /\ \A i \in Items : file'[1][i] = IF i = r[1] THEN "Unlinked" ELSE file[1][i]
      /\ StoreTypes'
  BY <1>1, <1>2 DEF CleanupInv, StoreTypes
<1>4. ASSUME NEW p \in Permits
      PROVE  /\ Target!Doing(p, "CommitUnlink")' => p = r
             /\ ~Target!Doing(p, "TombstonePack")' /\ ~Target!Doing(p, "CommitTombstone")'
  BY <1>2 DEF Target!Doing
<1>5. Progress
  BY <1>2, AllowedIsKept DEF Progress
<1>6. RemovalsAreGrounded'
  <2>1. ASSUME NEW p \in Permits PROVE RemovalIsGrounded(p)'
    BY <1>1, <1>2, <1>3, <1>4, AllowedIsKept, TargetConstants
    DEF CleanupInv, RemovalsAreGrounded, RemovalIsGrounded, TakenBy
  <2>. QED BY <2>1 DEF RemovalsAreGrounded
<1>7. CompletionsAreGrounded'
  BY <1>2, AllowedIsKept DEF CleanupInv, CompletionsAreGrounded, TakenBy
<1>8. ItemsAreGrounded'
  <2>1. ASSUME NEW i \in Items PROVE BytesAreGrounded(i)'
    BY <1>1, <1>2, <1>3, AllowedIsKept DEF CleanupInv, ItemsAreGrounded, BytesAreGrounded
  <2>. QED BY <2>1 DEF ItemsAreGrounded
<1>. QED BY <1>3, <1>5, <1>6, <1>7, <1>8 DEF Grounds

\* commit_unlink: the bytes are gone.
LEMMA CommitUnlinkKeeps ==
  ASSUME CleanupInv, NEW r \in Permits, Target!CommitUnlink(r), UNCHANGED authority
  PROVE  Progress /\ Grounds'
<1>1. r[1] \in Items /\ [p \in Permits |-> p[1]][r] = r[1]
  BY TargetConstants
<1>2. /\ UNCHANGED <<operation, tombstone, route, file, receipts>>
      /\ Target!Doing(r, "CommitUnlink")
      /\ inventory' = [inventory EXCEPT ![r[1]] = "Unlinked"]
      /\ call' = None
  BY <1>1 DEF Target!CommitUnlink, Target!packs
<1>3. /\ \A i \in Items : inventory'[i] = IF i = r[1] THEN "Unlinked" ELSE inventory[i]
      /\ StoreTypes'
  BY <1>1, <1>2 DEF CleanupInv, StoreTypes
<1>4. file[1][r[1]] = "Unlinked"
  BY <1>2 DEF CleanupInv, RemovalsAreGrounded, RemovalIsGrounded
<1>5. ASSUME NEW p \in Permits
      PROVE  /\ ~Target!Doing(p, "CommitTombstone")'
             /\ ~Target!Doing(p, "TombstonePack")' /\ ~Target!Doing(p, "CommitUnlink")'
  BY <1>2, UnlockedCalls DEF CleanupInv, Target!Doing
<1>6. Progress
  BY <1>2, <1>3, AllowedIsKept DEF Progress
<1>7. RemovalsAreGrounded'
  <2>1. ASSUME NEW p \in Permits PROVE RemovalIsGrounded(p)'
    BY <1>1, <1>2, <1>3, <1>5, AllowedIsKept, TargetConstants
    DEF CleanupInv, RemovalsAreGrounded, RemovalIsGrounded, TakenBy
  <2>. QED BY <2>1 DEF RemovalsAreGrounded
<1>8. CompletionsAreGrounded'
  BY <1>2, <1>3, AllowedIsKept DEF CleanupInv, CompletionsAreGrounded, TakenBy
<1>9. ItemsAreGrounded'
  BY <1>2, <1>3, <1>4, AllowedIsKept DEF CleanupInv, ItemsAreGrounded, BytesAreGrounded
<1>. QED BY <1>3, <1>6, <1>7, <1>8, <1>9 DEF Grounds

\* The call ends: a refusal or a crash.
LEMMA EndCallKeeps ==
  ASSUME CleanupInv, call' = None, UNCHANGED authority,
         UNCHANGED <<operation, inventory, tombstone, route, file, receipts>>
  PROVE  Progress /\ Grounds'
<1>1. ASSUME NEW p \in Permits
      PROVE  /\ ~Target!Doing(p, "CommitTombstone")'
             /\ ~Target!Doing(p, "TombstonePack")' /\ ~Target!Doing(p, "CommitUnlink")'
  BY UnlockedCalls DEF CleanupInv, Target!Doing
<1>2. Progress
  BY AllowedIsKept DEF Progress
<1>3. StoreTypes'
  BY DEF CleanupInv, StoreTypes
<1>4. RemovalsAreGrounded'
  <2>1. ASSUME NEW p \in Permits PROVE RemovalIsGrounded(p)'
    BY <1>1, AllowedIsKept, TargetConstants
    DEF CleanupInv, RemovalsAreGrounded, RemovalIsGrounded, TakenBy
  <2>. QED BY <2>1 DEF RemovalsAreGrounded
<1>5. CompletionsAreGrounded' /\ ItemsAreGrounded'
  BY AllowedIsKept
  DEF CleanupInv, CompletionsAreGrounded, TakenBy, ItemsAreGrounded, BytesAreGrounded
<1>. QED BY <1>2, <1>3, <1>4, <1>5 DEF Grounds

\* dispatch.tombstone.
LEMMA TombstoneKeeps ==
  ASSUME CleanupInv, NEW w \in Workers, Tombstone(w)
  PROVE  CleanupInv'
<1>1. /\ CleanupTypes /\ task[w] # None /\ task[w].step = "Tombstone" /\ UNCHANGED authority
  BY DEF Tombstone, AtStep, CleanupInv
<1>2. Permit(w) \in Permits /\ Allowed(Item(w)) /\ Item(w) = Permit(w)[1]
  BY <1>1 DEF CleanupInv, WorkersAreGrounded, WorkerIsGrounded, Item, Permit
<1>3. CASE Target!BeginTombstone(Permit(w)) /\ Goto(w, "TombstoneReply")
  <2>1. Progress /\ Grounds'
    BY <1>1, <1>2, <1>3, BeginTombstoneKeeps
  <2>2. "TombstoneReply" \in Steps
    BY DEF Steps
  <2>3. /\ task' \in [Workers -> [step : Steps, permit : Items \X Nat] \cup {None}]
        /\ task'[w].step = "TombstoneReply" /\ Permit(w)' = Permit(w)
        /\ \A v \in Workers : v # w => task'[v] = task[v]
    BY <1>1, <1>3, <2>2, GotoFields
  <2>4. CleanupTypes'
    BY <1>1, <2>3, AllowedIsKept DEF CleanupTypes
  <2>5. WorkerIsGrounded(w)'
    BY <1>2, <2>3 DEF WorkerIsGrounded
  <2>. QED BY <2>1, <2>3, <2>4, <2>5, WorkerStep
<1>4. CASE operation[Permit(w)] = "Committed" /\ Goto(w, "Complete") /\ UNCHANGED store
  BY <1>1, <1>4, ReplyKeeps DEF AtStep
<1>. QED BY <1>3, <1>4 DEF Tombstone

\* dispatch.reclaim.
LEMMA ReclaimKeeps ==
  ASSUME CleanupInv, NEW w \in Workers, Reclaim(w)
  PROVE  CleanupInv'
<1>1. /\ CleanupTypes /\ task[w] # None /\ task[w].step = "Reclaim" /\ UNCHANGED authority
  BY DEF Reclaim, AtStep, CleanupInv
<1>2. /\ Permit(w) \in Permits /\ completed[Item(w)] # None /\ Item(w) = Permit(w)[1]
      /\ Item(w) \in Items
  BY <1>1, TaskFields DEF CleanupInv, WorkersAreGrounded, WorkerIsGrounded, Item, Permit
<1>3. CASE Target!BeginUnlink(Permit(w)) /\ Goto(w, "ReclaimReply")
  <2>1. Progress /\ Grounds'
    BY <1>1, <1>2, <1>3, BeginUnlinkKeeps
  <2>2. "ReclaimReply" \in Steps
    BY DEF Steps
  <2>3. /\ task' \in [Workers -> [step : Steps, permit : Items \X Nat] \cup {None}]
        /\ task'[w].step = "ReclaimReply" /\ Permit(w)' = Permit(w) /\ Item(w)' = Item(w)
        /\ \A v \in Workers : v # w => task'[v] = task[v]
    BY <1>1, <1>3, <2>2, GotoFields
  <2>4. CleanupTypes'
    BY <1>1, <2>3, AllowedIsKept DEF CleanupTypes
  <2>5. WorkerIsGrounded(w)'
    BY <1>1, <1>2, <2>3, AllowedIsKept DEF WorkerIsGrounded
  <2>. QED BY <2>1, <2>3, <2>4, <2>5, WorkerStep
<1>4. CASE inventory[Item(w)] = "Unlinked" /\ Goto(w, "Confirm") /\ UNCHANGED store
  BY <1>1, <1>4, ReplyKeeps DEF AtStep
<1>. QED BY <1>3, <1>4 DEF Reclaim

\* The holder of the target's mutex goes on, is refused or dies.
LEMMA StoreKeeps ==
  ASSUME CleanupInv, StoreStep \/ StoreCrash
  PROVE  CleanupInv'
<1>1. UNCHANGED authority /\ UNCHANGED task
  BY DEF StoreStep, StoreCrash
<1>2. Progress /\ Grounds'
  <2>1. ASSUME NEW r \in Permits,
               Target!TombstonePack(r) \/ Target!CommitTombstone(r) \/ Target!CommitUnlink(r)
        PROVE  Progress /\ Grounds'
    BY <1>1, <2>1, TombstonePackKeeps, CommitTombstoneKeeps, CommitUnlinkKeeps
  <2>2. ASSUME Target!Refuse \/ Target!Crash PROVE Progress /\ Grounds'
    <3>1. call' = None /\ UNCHANGED <<operation, inventory, tombstone, route, file, receipts>>
      BY <2>2 DEF Target!Refuse, Target!Crash, Target!journal, Target!packs
    <3>. QED BY <1>1, <3>1, EndCallKeeps
  <2>. QED BY <2>1, <2>2 DEF StoreStep, StoreCrash
<1>3. CleanupTypes'
  BY <1>1, AllowedIsKept DEF CleanupInv, CleanupTypes
<1>. QED BY <1>1, <1>2, <1>3, OtherStep
-----------------------------------------------------------------------------
(* The theorem.                                                             *)

\* At first nothing is sealed, issued or removed.
LEMMA InitCleanup == ConstantsAreSound /\ Init => CleanupInv
<1> SUFFICES ASSUME ConstantsAreSound, Init PROVE CleanupInv
  OBVIOUS
<1>1. CleanupTypes
  <2>1. sealed \in BOOLEAN
    BY DEF Init
  <2>2. epoch \in Nat \ {0} /\ issued \in [Permits -> Nat]
    BY DEF Init
  <2>3. /\ completed \in [Items -> Permits \cup {None}] /\ reclaimed \subseteq Items
        /\ task \in [Workers -> [step : Steps, permit : Items \X Nat] \cup {None}]
    BY DEF Init
  <2>. QED BY <2>1, <2>2, <2>3 DEF CleanupTypes
<1>2. file = [p \in {1} |-> [i \in Items |-> "Active"]] /\ file[1] = [i \in Items |-> "Active"]
  BY DEF Init
<1>3. StoreTypes
  BY <1>2 DEF Init, StoreTypes
<1>4. RemovalsAreGrounded
  <2>1. ASSUME NEW p \in Permits
        PROVE  /\ ~Target!Doing(p, "CommitTombstone")
               /\ ~Target!Doing(p, "TombstonePack") /\ ~Target!Doing(p, "CommitUnlink")
    BY UnlockedCalls DEF Init, Target!Doing
  <2>. QED BY <2>1 DEF Init, RemovalsAreGrounded, RemovalIsGrounded
<1>5. CompletionsAreGrounded /\ WorkersAreGrounded
  BY DEF Init, CompletionsAreGrounded, WorkersAreGrounded
<1>6. ItemsAreGrounded
  BY <1>2 DEF Init, ItemsAreGrounded, BytesAreGrounded
<1>. QED BY <1>1, <1>3, <1>4, <1>5, <1>6 DEF CleanupInv

\* Every command, worker step and step of the target keeps CleanupInv.
LEMMA NextCleanup == CleanupInv /\ [Next]_vars => CleanupInv'
<1> SUFFICES ASSUME CleanupInv, [Next]_vars PROVE CleanupInv'
  OBVIOUS
<1>1. ASSUME NEW w \in Workers, Proceed(w) PROVE CleanupInv'
  <2>1. CASE Reply(w)
    BY <2>1, ReplyKeeps DEF Reply
  <2>2. CASE Fail(w)
    BY <2>2, IdleKeeps DEF Fail
  <2>. QED BY <1>1, <2>1, <2>2, IssueKeeps, TombstoneKeeps, CompleteKeeps, ReclaimKeeps, ConfirmKeeps
           DEF Proceed
<1>2. ASSUME NEW w \in Workers, Abandon(w) PROVE CleanupInv'
  BY <1>2, IdleKeeps DEF Abandon
<1>3. CASE UNCHANGED vars
  <2>1. UNCHANGED authority /\ UNCHANGED store /\ UNCHANGED task
    BY <1>3 DEF vars
  <2>2. task' \in [Workers -> [step : Steps, permit : Items \X Nat] \cup {None}]
    BY <2>1 DEF CleanupInv, CleanupTypes
  <2>. QED BY <2>1, <2>2, QuietStep, OtherStep
<1>. QED BY <1>1, <1>2, <1>3, ListKeeps, TakeKeeps, ExpireKeeps, StoreKeeps DEF Next

\* CleanupInv holds always.
LEMMA AlwaysCleanup ==
  ASSUME ConstantsAreSound PROVE Spec => []CleanupInv
<1>1. Init => CleanupInv
  BY InitCleanup
<1>. QED BY <1>1, NextCleanup, PTL DEF Spec

\* CleanupInv says that the deletion is staged.
LEMMA CleanupIsStaged ==
  ASSUME CleanupInv PROVE DeletionIsStaged
BY DEF CleanupInv, ItemsAreGrounded, BytesAreGrounded, CompletionsAreGrounded, TakenBy, Allowed,
       DeletionIsStaged

\* Metadata and target go through a deletion one behind the other, whatever
\* replies are lost, permits expire, leaders change and calls are cut (issue,
\* complete, confirm; prepare_tombstone, unlink_tombstoned).
THEOREM DeletionsAreStaged ==
  ASSUME ConstantsAreSound PROVE Spec => []DeletionIsStaged
BY AlwaysCleanup, CleanupIsStaged, PTL
=============================================================================
