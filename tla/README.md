# MeshSpan: a TLA+ verification project

MeshSpan turns a handful of machines into one storage mesh. Its authority is a
replicated metadata log per partition, decided by an owned consensus core whose
quorums are compiled from predicates rather than assumed to be majorities, and
whose membership changes by itself as nodes enrol, activate and drain. Beneath
it, storage targets keep shards in packs under a journal, workers repair what
is damaged and, once no gateway refers to a version any more, its shards are
deleted under short-lived permits. This project models that authority (the
core, the quorum compiler, the automatic membership coordinator) and the life
of a shard (the storage target, repair, the exclusion of references and the
deletion). It is checked with TLC on small instances and, where the prover
reaches, proved with TLAPS for every instance.

Paths below are relative to `src/`.

## 1. Inventory

| Component (crates) | State | Operations | Interacts with | Hard because |
|---|---|---|---|---|
| Consensus core (`meshspan-consensus/src/core`) | durable term, vote, log, applied index; volatile commit index, role, tally, matched/next per peer, outstanding probes, read barriers | `CoreInput`: election timeout, heartbeat, four messages, propose, confirm term, begin/cancel read barrier, applied-through, activate joint/stable plan, persisted | driver persists and sends; reactor issues inputs | lost, repeated, reordered messages; crashes; answers to a former process; reads across leader changes |
| Quorum compiler (`meshspan-consensus/src/quorum`) | none | validate and evaluate a predicate, compile families and cut sets, prove intersections, flat plan, joint transition | plans carried by every message | thresholds at the edge, one voter counted twice |
| Membership planning (`meshspan-consensus/src/membership*.rs`, `meshspan-cluster/src/membership.rs`) | the active stable or joint plan | admit learner, promote, remove, finalise; validate on apply | repository projection, core | derived from a projection that later commands edit |
| Metadata authority reactor (`meshspan-cluster/src/metadata_authority.rs`, `metadata_linearizable_read.rs`, `driver.rs`) | pending operation, queue, pending reads, deadlines | submit, admit next, receive peer, plan transition, apply, expire reads | core, repository, callers | preflight against state that is not yet applied; leader change between admission and application |
| Authoritative repository (`meshspan-metadata/src/repository`) | SQLite rows: nodes, `partition_voters`, plan history, consensus log, and every domain table | one transaction per committed command | reactor | rows written by several commands and read by the planner |
| Maintenance and repair (`repository/maintenance_work*`, `meshspan-daemon/src/appliance_repair*`, `shard_repair_worker.rs`) | work jobs, claims, retained repair plans, effects (routes); a catalogue per node | queue, claim, plan, commit effect, complete, defer, project | workers on every node, storage targets | lease expiry against late commands, takeover of a half-done write, concurrent repairs of a stripe, lost replies |
| Storage target (`meshspan-storage`) | journal database (reservations, operations, inventory, tombstones, routes, segments, counters), pack databases, backup holds | reserve, put, prepare/finish repair put, resolve, tombstone, unlink, retire pack, recover, backup reserve/commit/release | data plane, repair, cleanup, backup | two databases without a common transaction; crash between them; late retries |
| Reference fences (`meshspan-filesystem`: `cleanup_fence.rs`, `reachability.rs`, `content_reuse.rs`, `publication_convergence.rs`, `namespace_publication/`; `meshspan-daemon/src/native_gateway_sync`) | namespace heads and commits, handles, reuse reservations, restores, convergence jobs, fences, scans; the converged head and the snapshots | publish, adopt, converge, open, reserve, snapshot, restore; begin, seal, advance a scan | other gateways, metadata | a reference that arrives between the scan and the deletion |
| Version cleanup (`repository/version_cleanup.rs`, `cleanup_*.rs`, `meshspan-cluster/src/cleanup*.rs`) | intents, attestations, sealed inventory, permits, completions, reclamations | propose, attest, authorise, cancel, issue, complete, confirm | gateways, cleanup workers, storage targets | permits expire while a reply is on its way; another leader issues the next one |
| Filesystem uploads and leases (`meshspan-filesystem`) | uploads, handle leases, locks | upload, renew, close | metadata, storage | lease expiry, partial publication |
| Federation, ACME, backup (`meshspan-metadata/src/federation_*`, `meshspan-acme`, `meshspan-backup`) | quotas, orders, archives | reserve/commit/release, resume under fence, capture/restore | remote meshes and services | work taken up by another process |
| Daemon, data plane, transport, protocol, SMB, DNS, API | sessions and handlers | wiring, framing, encoding | all | I/O |
| Domain, contracts, placement, coding | none | pure functions | all | numeric ranges |

What makes the parts modelled here correct:

- **Core**: one leader per term; what was committed stays and every later
  leader has it; a leader counts as matched only what a peer holds; a read
  returns no less than was committed when it began; an undisturbed leader
  repairs every follower and answers every read that a quorum has confirmed.
- **Quorums**: a compiled family decides as its predicate does, safe plans
  intersect, no voter counts twice, cut sets are exact.
- **Membership**: neighbouring phases overlap, some surviving voter may lead,
  plan and projection agree, no accepted command ends the authority, staged
  nodes are admitted, retiring nodes removed and the target reached.
- **Storage target**: the two databases behave as one store; what was
  acknowledged is readable until its removal, what was removed never returns;
  the counters say exactly what is held; durable repair writes and reclaimed
  packs are finished after a crash.
- **Repair**: routes change one at a time and name bytes that are stored, no
  write is forgotten by a takeover, damage is repaired and its job closed.
- **Deletion**: nothing reachable is deleted, metadata and target go through a
  deletion one behind the other, and what may be deleted is reclaimed in the
  end. In the first and the last the code falls short (section 3).

## 2. Modules

| Module | Models | Extends |
|---|---|---|
| `ReplicatedLog` | operators on logs: positions, `log_delta`, batches | |
| `QuorumPlan` | set-level quorum compiler, flat plans, joint composition | |
| `QuorumPredicate` | predicate trees, their validation and `compile_plan` (TLC only: trees need recursion) | |
| `ConsensusCore` | one consensus core per member under one plan, and the network between them | `ReplicatedLog` |
| `LinearizableLog` | abstract specification: a log that only grows and reads that see what was decided before them | |
| `MembershipCoordinator` | planning, logging and applying membership transitions and the projection they depend on | `QuorumPlan` |
| `TargetStore` | one storage target: journal, packs, backups, crashes | |
| `ShardStore` | abstract specification: what the `StorageProvider` contract promises, one step per promise | |
| `RepairWork` | repair jobs, leases, plans and effects, the workers and the target they write to | instantiates `TargetStore` |
| `ReferenceFence` | namespace heads, convergence, fences and scans of the gateways, proposal to authorisation | |
| `VersionCleanup` | inventory, permits, completions, the cleanup workers and the target they delete from | instantiates `TargetStore` |
| `MCConsensusCore`, `MCMembershipCoordinator`, `MCQuorumPredicate`, `MCTargetStore`, `MCRepairWork`, `MCReferenceFence`, `MCVersionCleanup` | instances for TLC | the above |
| `ConsensusCoreProofs`, `LogProofs`, `ReadProofs` | theorems about the core (types, elections and durability; logs; reads), each module on top of the one before | `ConsensusCore` |
| `MembershipProofs` | theorems about plans and membership | `MembershipCoordinator` |
| `TargetStoreProofs`, `RepairWorkProofs` | theorems about the target and about repair | `TargetStore`, `RepairWork` |
| `FenceProofs`, `CleanupProofs` | theorems about the two halves of a deletion | `ReferenceFence`, `VersionCleanup` |

### ConsensusCore

Variables keep the fields' names (`current_term`, `voted_for`, `log`,
`applied_index`, `commit_index`, ...), one value per member; `leader[n]` is the
`LeaderState` of `core/state.rs`. Each action is one `CoreInput` with all its
calls. The driver persists a mutation and feeds `Persisted` back before any
other input, so a handler, its mutation and its continuation are one step: a
crash between persisting and sending is that step followed by the loss of its
messages and a `Restart`. `messages` only grows, and any message may be
delivered at any time, any number of times or never: loss, repetition and
reordering.

| Action | Code (`core/state.rs`) |
|---|---|
| `ElectionTimeout` | `start_election`, `finish_campaign`, `become_leader` |
| `HandleVoteRequest`, `HandleVoteResponse` | `vote_request`, `vote_response` |
| `StepDown` | `persist_step_down`, from both responses |
| `RejectStaleAppend`, `RejectAppend`, `AcceptAppend` | the three outcomes of `append_request` |
| `HandleReplicationResponse`, `HandleContactResponse` | `append_response` by the lane of the probe, `AppendProbes::receive` |
| `Heartbeat`, `Propose`, `ConfirmTerm` | `heartbeat`, `propose`, `finish_proposal`, `confirm_read_term` |
| `BeginReadBarrier`, `CancelReadBarrier` | `begin_read_barrier`, `expire_reads` |
| `AppliedThrough` | `applied_through` for each committed entry, in the reactor's turn |
| `Restart` | `restore` |

Abstractions, each stated where it is made: entry digests are the entries
themselves; the probes of one round share a number, since every peer has its
own table; a lane of 64 probes is never full in a run, and an evicted probe is
one whose answer is lost; replies their addressee discards in every state it can
still reach are not sent; a reply to a replication request of an older term
carries no probe number, because an election clears the leader's probes. The
last one leaves out that after a restart such a reply may be taken for a
conflict with a new probe, which only moves a frontier back and never below
what has matched. Byte budgets, plan activation and the committed-prefix
catch-up of a member on an older plan are not in this module.

`committed` and the `floor` of a barrier are history variables: the longest
prefix any member has committed, and its length when the read began. They map
the core to `LinearizableLog`.

### MembershipCoordinator

The log is the present leader's: what it has applied is folded into `plan` and
`db`, the rest is `tail`. Application is deterministic, so all replicas pass
through the same states. `spoken` says that the leader's log ends with an entry
of its own term, without which nothing commits; `pending` that the reactor
holds an undecided caller. `db` is the projection: a row of `partition_voters`
and a row of `nodes` per node, and the membership revision.
`PlanMembershipTransition` is `plan_next_transition` with its order (finalise,
remove, admit, promote); `AdmitNext` is `admit_next` with the preflight behind
unapplied entries; `Apply...` are the three kinds of committed entry; `Stop` is
every error that ends the reactor; `ChangeLeader` is a failover or a restart,
which may keep any prefix of the tail. Joins, activations and fences arrive in
every order; grants, certificates and storage evacuation are left out, and
incarnations are fixed at enrolment.

### QuorumPlan and QuorumPredicate

`QuorumPlan` works on sets of voters instead of bit masks: `reduce_minimal`,
`intersects_all`, `prove_intersections`, `flat_plan`, `compose_joint`,
`prove_joint_transition`. `QuorumPredicate` adds the trees (`Voter`, `AtLeast`,
`WeightedAtLeast`, `All`), their validation (depth, node count, thresholds,
disjoint children, weights, unknown voters) and `compile_family`. Digests, the
bounds on a plan's header and which error is returned are left out.

### TargetStore and ShardStore

Each variable is a table of the journal (`reservation`, `operation`,
`inventory`, `tombstone`, `route`, `segment`, the counters `reserved` and
`committed`, `backup`) or of the packs (`file`, `receipts`). A mutex admits one
call at a time (`shared_provider.rs`), so `call` says which call holds it and
which durable step comes next; every transaction is one action and `Crash`, a
dead process or an I/O error, may come before each. `late` holds the operations
whose deadline has passed.

| Action | Code (`meshspan-storage/src`) |
|---|---|
| `Reserve` | `journal.rs` `reserve`, with `expire_active_reservations` and `admit_capacity` |
| `BeginPut`, `PutPack`, `CommitPut` | `put_exact`: `prepare_put`, the pack's `put_exact`, `commit_put` |
| `PrepareRepairPut`, `FinishRepairPut` | `journal/repair_put.rs`, `provider/repair_put.rs` |
| `ResolvePut` | `resolve_put`, `recover_pending` |
| `BeginTombstone`, `TombstonePack`, `CommitTombstone`, `RecoverTombstone` | `tombstone`, `recover_pending_tombstones` |
| `BeginUnlink`, `CommitUnlink` | `unlink_tombstoned` |
| `BeginRetirement`, `RetireFiles`, `CompleteRetirement` | `compact_next_pack`, `retire_pack` |
| `ReserveBackup`, `CommitBackup`, `CancelBackup`, `ReconcileBackup`, `ReleaseBackup` | `journal/backup_capacity.rs` |

`ShardStore` has two variables: what a reader finds of a shard (absent, stored,
removed, freed) and which operations have a receipt. The mapping takes the
first from the route and the pack row (`Content`), which is all that `get_exact`
reads, and the second from the committed operations. The inventory only tells a
shard that never was from one whose pack is gone. Bytes are therefore readable
from `PutPack` on, before any receipt, and the abstract store says so: `Write`
and `Acknowledge` are two steps. That refinement is the point of the module:
whatever is cut between the databases, retried late or retired with its pack,
what was acknowledged stays readable until it is removed, only what was
acknowledged is removed, a removed shard never returns, and bytes go after an
acknowledged removal. Left out: requests whose identity and content
disagree (refused in the first transaction), byte limits of a pack (records
stand for them), compaction (the same rows), scrub cursors and read permits.

### RepairWork

The authority's tables are `state`, `holder` and `expired` (jobs and claims),
`intent` and `planned` (retained plans) and `layout` (effects in order of
revision, each the job that it closes: a shard and the layout generation it
starts from). A worker's `task` is the job and the step of
`execute_repair_assignment` it has reached; `known` is the generation in its
catalogue. The target is an instance of `TargetStore` in which all writes are
repairs, so takeovers meet half-written replacements. Claim generations and
fences tell attempts apart; since a worker runs one attempt at a time the
holder stands for them. The commands of an attempt carry the time of its plan
(`repair_plan.rs`, `validate_contexts`), so the authority notices an expired
lease only when another worker has claimed the job: `Live` says exactly that.
`CommitOther` is a repair of a shard that is not followed.

### ReferenceFence

A namespace commit is the set of commits it descends from and whether its tree
refers to the one manifest that is followed. Each gateway has a head, perhaps a
handle, a reuse reservation, a prepared restore or a convergence job; its fence
and its scan are rows of its own database, while `converged`, `snapshots` and
`cleanup` (the intent with its attestations) are rows of the metadata. The
retained roots of a volume are its converged head and its snapshots (`Roots`).
`MoveHead` is `volume_head::commit`, which compares the head with the expected
one: it is reached by a publication on the converged head
(`ConfirmPublication`), by a convergence job (`PrepareConvergence`,
`CommitConverged`, `FinishConvergence`, `DropConvergence`) and by a restore
(`CommitRestore`). `Snapshot` retains the converged head, and nothing else. A
scan is `Begin` (with the fence, in one transaction), `Seal` and `Advance`; the
pages of `Advance` are one step because trees are immutable. `Publish`,
`PrepareConvergence`, `ReserveReuse` and `PrepareRestore` ask the fence; `Adopt`
and `FinishConvergence` do not, as in `adopt_head`, nor does `MoveHead` look at
a cleanup. Convergence takes up one received head at a time, snapshots are not
deleted, and a root pinned for a backup, which was a converged head, is like a
snapshot. `Spec` is the code. `AdoptingSpec` is its executions in which no
fenced gateway gains a reference by adopting a head (`FencedAdoption`);
`CarefulSpec` are those in which the converged head is moved to no commit with a
reference once the deletion is authorised (`LateConvergence`) either. They say
which unchecked step endangers what.

### VersionCleanup

What follows authorisation: `List` and `Seal` the inventory, then per item
`Issue` a permit, `Tombstone`, `Complete`, `Reclaim`, `Confirm`, chosen by
`WorkAction` from the metadata as `work_action` does. A permit is the item and
its attempt number, and is the provider operation of an instance of
`TargetStore` that starts with the shards committed. `Elect` is another leader,
under whose epoch a permit may be replaced before it expires; `Expire` is time;
`Abandon` loses a worker or a reply.

## 3. Runs

All finish within five minutes with two workers. Every configuration turns
deadlock checking off: the bounds (`MaxTerm`, `MaxLog`, ...) stop the system
where the program would go on, the coordinator really stops, a compilation ends,
and a target or a worker with nothing to do waits.

| Run | Instance | Checks |
|---|---|---|
| `flat` | 3 voters, flat plan, 2 candidates, 2 terms, 1 entry | `OneLeaderPerTerm`, `LeaderCompleteness`, `StateMachineSafety` |
| `restart` | 2 voters, 2 terms, 2 entries, 2 heartbeats, one restart | `ElectionEvidence`, `MatchedIsHeld`, `StateMachineSafety`, `DurableContract` |
| `reads` | 2 voters, 2 terms, 2 entries, 1 read, fair | `TypeOK`, `ImplementsLinearizableLog`, `ConfirmedReadsAnswered` |
| `conflicts` | 2 voters from a diverged log, 3 terms, 2 entries, fair | `LogMatching`, `NoCommittedConflict`, `FollowersRepaired` |
| `membership` | 4 nodes, 2 leader changes, fair | `TypeOK`, `FirstLeaderRuns`, `SurvivorLeads`, `ProjectionAgrees`, `PhasesOverlap`, `StagedAreAdmitted`, `RetiringAreRemoved`, `TargetReached` |
| `compile` | 4 voters and a stranger, catalogue of predicates, every triple | `CompiledDecides`, `CompiledPlansAreSafe`, `NoDoubleCounting`, `CutSetsAreDual` |
| `target` | 2 shards, 3 writes (one a repair), 1 removal, 1 backup, 2 packs of one record, fair | `TypeOK`, `CapacityBalanced`, `PayloadIsCharged`, `RetiredPacksAreIdle`, `ImplementsShardStore`, `PreparedRepairsFinish`, `ReclaimedPacksRetire` |
| `repair` | 1 damaged shard and 1 other repair of its stripe, 2 workers, 2 attempts, fair | `TypeOK`, `LayoutsAreSerial`, `RoutesAreStored`, `WritesAreRetained`, `DamageIsRepaired`, `EffectsAreClosed` |
| `restart_read` | 2 voters after a read and a restart, 3 terms, one read per process | `ImplementsLinearizableLog`, **violated** |
| `joins` | 3 nodes, 1 leader change | `AuthorityRuns`, **violated** |
| `fence` | 2 gateways, 3 commits | `NothingReachableIsDeleted`, **violated** |
| `cleanup` | 1 shard, 2 workers, 3 permits, 2 epochs, fair | `SealedItemsAreReclaimed`, **violated** |

**Bounds.** Two terms let a leader be replaced; the third lets a diverged log
be replaced and the replacement be contested. Two entries with batches of one
give pipelining, overlap and a conflict that needs several steps back. Runs
with two voters use the plan whose three families are `{{Anchor}}`, one the
compiler accepts: the anchor decides alone and the other member may lead only
by its vote. It keeps every message exchange and halves the state space; the
flat plan of three is checked where the counting of a quorum matters. The
candidates of the flat run are interchangeable, so that run uses symmetry.
`conflicts` and `restart_read` start from reachable states a few steps into the
behaviour, which leaves TLC the steps that matter: `DivergedInit` (an election,
a proposal that is lost and the anchor's own election) and `LedInit` (an
election, a heartbeat, a read and a restart). Four nodes suffice for the
coordinator to grow to its voter target of three with a node to spare, drain one
and meet every pair of concurrent commands.

In `target` a foreground write and a repair race for one shard that a permit
removes, and a write of another shard opens the second pack, without which the
first is the newest and never retires. The writes and the backup ask for five
bytes together, one more than the ceiling, so an admission is refused until
something is released or expires. In `repair` the second worker
takes over from the first, the second attempt identity is what a worker would
choose wrongly, and the other repair makes a planned layout obsolete once;
`Layouts` is bounded because each shard is repaired once. In `cleanup` the last
of the three permits never expires, so nothing is stuck for want of another.

Three theorems have no run of their own. `DeletionIsStaged` TLC found to hold on
the instance of `cleanup` before it was proved (29,528 states, and 2.1 million
with two shards and two permits). On the instance of `fence` TLC finds no
violation of what `AdoptingDeletionsAreSafe` and `CarefulDeletionsAreSafe` say
in the first millions of states, without exhausting them, and it does find
`NothingRetainedIsDeleted` violated under `AdoptingSpec`: the second hypothesis
is needed. The gateways of that instance are interchangeable, so the run uses
symmetry.

**Fairness.** `conflicts` and `reads` assume weak fairness of the delivery of
replication appends and their answers, of application and of `ConfirmTerm`;
nothing is assumed of elections, restarts, proposals or new reads. While a peer
is behind, a heartbeat repeats the replication probe it has not answered under
its own number (`state.rs:390-394`), so its delivery fails for ever only between
members that never hear of each other again; the reactor applies what is
committed and confirms the term before it takes more work. The contacts of a
read barrier are sent once (`state.rs:767-770`) and a heartbeat's contacts carry
no barrier, so nothing is assumed of them: a read whose contact is lost may wait
for its deadline, and `ConfirmedReadsAnswered` speaks of reads that a quorum has
confirmed. It and `FollowersRepaired` speak of a leader of the last term, the one
nobody replaces. `membership` assumes weak fairness of planning, applying and of
the read that confirms a term, which the reactor does in the turn that makes
them possible; a promotion is planned for any learner that has caught up, but
only active ones are assumed to catch up (`FairPlanning`). Nothing is assumed of
clients' commands or of leader changes.

`target` assumes that crashes end (`<>[][...]`), that the holder of the mutex
then runs on, that the owner of a repair repeats its exact write until it is
answered, and that maintenance visits every pack in turn (`maintain_packs` moves
a cursor). The last two are strong fairness, because other calls hold the mutex
now and then. Nothing is assumed of new writes, removals or backups, nor of
foreground writes: `recover_pending` and `resolve_upload` have no production
caller and `put_exact` is refused after its deadline. A foreground write that was
prepared and whose bytes never arrived thus keeps its reservation for good. The
model has that state, and no property excludes it: the counters agree with the
rows. `repair` assumes that workers stop failing, that
the target stops crashing, that a destination is found, that leases come to
outlast an attempt, that scrubs are periodic and that the dispatcher's cursor
reaches every ready job (strong fairness per job: another worker may hold it).
`cleanup` assumes the same of its workers and its target, which is what makes
its counterexample one: nothing fails any more, and nothing progresses.

### Four disagreements between the code and its documents

*A stale read after a restart* (`restart_read`). Probe numbers and read
identities start over at 1 in a new process (`core/state.rs:139`,
`metadata_authority.rs:395`), incarnations do not change, and a follower
answers a request of an older term in its current term with the request's
numbers. TLC finds: v1 leads term 1 and begins a barrier; it restarts and is
re-elected in term 2; v2 answers the old contact in term 2; v2 elects itself in
term 3 and commits; v1, which does not know, begins a barrier with the same
numbers, and the old answer confirms it. `design/consensus.md:143-144` says the
read intersection "prevents a stale leader from completing a linearizable read
barrier after another election can complete", and lines 175-176 that unknown
probes "supply no replication or read evidence". Within one process the
refinement holds (`reads`, and `ReadsAreLinearizable` for every plan and bound).

*Two joins stop the authority* (`joins`). A new leader, or a restarted one,
holds an unapplied join with no pending caller, so `admit_next` accepts another
behind it. Both are applied before anything is planned; the plan that admits
the first node alone cannot be finalised, because
`synchronise_membership_projection` (`repository/quorum_plan.rs:151`) wants the
stored members to equal the plan's. The error ends the reactor, again after
every restart. Under one leader this cannot happen (`FirstLeaderRuns`). The planner
itself is written for several candidates (`meshspan-consensus/src/membership.rs:141`
and `:206`).

*A late head brings back a reference* (`fence`). g publishes a commit that
refers to the manifest and then one that does not. Both gateways scan behind
their fences and find nothing. h now adopts the first of the two commits, which
was on its way, then attests on its scan, and the authority authorises the
deletion of what h's head refers to. `adopt_head`
(`meshspan-filesystem/src/namespace_publication/history_import.rs:142`) is the
one way for a gateway to gain a reference without asking the fence, and
`authorise` compares retained roots, not heads. `design/copy-on-write.md:210-211`
says that a stale collector "cannot delete newly reachable data",
`design/protocol.md:818-820` that the fence "prevents later local publication or
reconciliation from invalidating an earlier attestation". Without such an
adoption no gateway reaches what is deleted, in this instance or any other
(`AdoptingDeletionsAreSafe`). That does not make the check in `adopt_head` the
only one that is missing: a convergence job selected earlier may move the
converged head, which is itself a retained root and may be snapshotted, to the
first of the two commits after the authorisation (`volume_head.rs:36-77` looks
at no cleanup), and `NothingRetainedIsDeleted` fails. With neither step both
properties hold (`CarefulDeletionsAreSafe`).

*A lost tombstone reply outlives its permit* (`cleanup`). The target commits a
tombstone, the reply is lost, the permit expires. The expired permit is refused
before its receipt is looked up (`provider.rs:820`), and its successor names
another provider operation, for which the shard is no longer live
(`journal/removal.rs:154`). Every further permit meets the same refusal, so the
item is never completed and its bytes never unlinked. `design/protocol.md:880-881`
says that a lost reply "re-reads metadata and replays the provider's immutable
receipt". The run finds it with one shard and two permits; if a permit does not
expire once the target has used it, the property holds.

## 4. Theorems

| Theorem | For every | Says |
|---|---|---|
| `TypeCorrect` | plan, number of members, bound | `Spec => []TypeOK`; `TypeOK` includes that applied ≤ commit ≤ log length and that matched and next indices and probes lie within the leader's log |
| `ElectionsAreEvident` | same | `Spec => []ElectionEvidence` |
| `ElectionUniqueness` | same | `Spec => []OneLeaderPerTerm` |
| `DurableContractHolds` | same | `Spec => DurableContract`: no step takes back a term, a vote or an applied entry |
| `LogsAreSafe` | same | `Spec => []LogInv`, the inductive invariant of the five theorems below |
| `LogsMatch` | same | `Spec => []LogMatching` |
| `MatchesAreHeld` | same | `Spec => []MatchedIsHeld` |
| `LeadersAreComplete` | same | `Spec => []LeaderCompleteness` |
| `StateMachinesAgree` | same | `Spec => []StateMachineSafety` |
| `CommitsAreNeverReplaced` | same | `Spec => []NoCommittedConflict`: the refusal in `log_delta` is unreachable |
| `ReadsAreLinearizable` | same, when no member that serves reads restarts | `Spec => ImplementsLinearizableLog`: the refinement |
| `PhaseOverlapHolds` | finite set of nodes | `Spec => PhasesOverlap` |
| `MembershipTypes` | same | `Spec => []TypeOK` |
| `ProjectionIsKept` | same | `Spec => []ProjectionAgrees` |
| `SurvivorExists` | same | `Spec => []SurvivorLeads` |
| `FirstLeaderStays` | same | `Spec => []FirstLeaderRuns` |
| `TargetTypes` | finite sets of shards, writes and backups; any removals, packs and sizes | `Spec => []TypeOK`: the counters never become negative |
| `CapacityIsBalanced` | same | `Spec => []CapacityBalanced` |
| `PayloadIsCovered` | same | `Spec => []PayloadIsCharged` |
| `RetirementIsSafe` | same | `Spec => []RetiredPacksAreIdle` |
| `StoreIsImplemented` | same | `Spec => ImplementsShardStore`: the refinement |
| `WorkTypesHold` | finite set of damaged shards; any workers, attempts | `Spec => []TypeOK` |
| `RepairsAreSerial` | same | `Spec => []LayoutsAreSerial` |
| `IntentsAreRetained` | same | `Spec => []WritesAreRetained` |
| `RepairsAreStored` | same | `Spec => []RoutesAreStored` |
| `TargetIsRespected` | same | `Spec => Target!Spec`: repair implements its target |
| `DeletionsAreStaged` | set of items and workers, number of permits and epochs | `Spec => []DeletionIsStaged`: bytes are touched only under a permit of a sealed inventory, a completion names the removal that took the shard, bytes are freed after it and a reclamation recorded after that |
| `AdoptingDeletionsAreSafe` | set of gateways, number of commits | `AdoptingSpec => []NothingReachableIsDeleted`, wherever the converged head moves |
| `CarefulDeletionsAreSafe` | same | `CarefulSpec => [](NothingReachableIsDeleted /\ NothingRetainedIsDeleted)` |
| `ReductionDecidesTheSame` | finite family | minimal sets decide as the family does |
| `FlatPlanCompiles` | finite nonempty voter set | flat families pass `prove_intersections` |
| `CompiledPlansAreJoinable` | two compiled plans | `prove_joint_transition` succeeds |
| `JointFamilyIsBothPlans` | two finite families | the composed family is satisfied exactly when both are |

*Assumptions.* `PlanAssumption`: quorums are sets of voters, election quorums
intersect one another, commit and read quorums (what `compile_plan` proves
before a plan exists). `ValueAssumption`: bounds are natural numbers, `None` is
no member or number. `NodesAssumption`: node identities are finitely many
naturals. `OperationsAssumption`, `BytesAssumption`, `BoundsAssumption`: a
write names one shard, whose length its reservation covers; a target has
finitely many rows, and sizes are natural numbers. `WorkAssumption`: a stripe
has finitely many shards. In each of them `None` is none of the values it is
told apart from. TLC evaluates all of them; `ConstantsAreSound`, the same for
`VersionCleanup`, is a hypothesis of `DeletionsAreStaged`. Three theorems have a
hypothesis about executions beside them: `NoReaderRestarts` (no restarts at all,
or none of a member that begins read barriers; other members restart as they
like), without which `restart_read` is a counterexample, and the absence of
`FencedAdoption` in `AdoptingSpec`, without which `fence` is one, and of
`LateConvergence` too in `CarefulSpec`.

*Elections.* `OneLeaderPerTerm` is not inductive: it says nothing of candidates
or of the votes behind them. `ElectionEvidence` adds that a vote visible in a
message or in durable state is the only one of its voter in its term
(`VotesAreFinal`), that tallies consist of such votes and a leader has a quorum
of them (`BallotsAreReal`), and that every append request ever sent stands on
one (`AppendsAreElected`). With `TypeOK` it is inductive. Two leaders of a term
would share a voter with two final votes.

*Durability.* A vote is only replaced in a higher term, which follows from the
guards and from `ElectionEvidence` for requests that repeat; an applied entry
lies at or below the commit index, where `log_delta` truncates nothing.

*Logs* (`LogProofs`). Log matching is false for a log and a delayed append
unless the append is known to be a part of a log that was matched; so the
invariant speaks of *pieces*: every log, the committed history, and every
append ever sent, which starts at its previous position. It has three layers.

1. `ReplicationInv`. All pieces agree below a common position (`PiecesAgree`)
   and have terms that do not decrease; every entry and every append comes from
   a member that was elected in its term (`Origin`, from `ElectionEvidence`),
   and the leader of a term holds every entry of that term. Appends of a leader
   are slices of its log under probe numbers it has taken, an outstanding probe
   has its request, requests with one number ask for the same proof, and an
   accepted answer has one too. What a peer acknowledged it holds as long as it
   stays in the term (`AcksAreHeld`), and a leader counts only that
   (`MatchesAreAcked`). This is where repeated and reordered answers are dealt
   with, and `LogMatching` and `MatchedIsHeld` follow.
2. `WhatMayBeChosenIsSafe`. Leader completeness is usually proved by an
   induction over terms. It is replaced by an invariant about the future: when
   every member of a commit quorum either has acknowledged an entry of the
   leader's term or has not left that term yet, the entries up to it are
   already `Chosen`. That says: who leaves the term holds them, a candidate
   with a vote of the quorum has a log that is not older, a log that is not
   older holds them, no append of the term or a later one replaces them, and
   every later leader holds them. Each step of another member either keeps the
   condition or removes a member from the quorums that can still choose.
3. `CommitsAreBacked` and `CommitsAgree`. Whatever is committed, or said to be
   by an append, lies below an entry that was chosen, no newer than the term of
   who says so; and every member's committed part is a prefix of the one
   history.

Every action is first shown to be of one of five kinds, stated point by point
(a member rests, campaigns, wins, leads on, or follows an append), so that the
invariant is proved from five cases rather than from every handler; a crash is
a rest. The restarts that `restart` explores are included, and so is the lost
commit index: `committed` keeps what a member has forgotten that it committed.

*Reads* (`ReadProofs`). A read is answered too early when something was
committed before it began that its leader does not know of. `ReadInv` excludes
that beside `LogInv`. `NumbersAreTaken`: every number on the network to or from a
reader is one it has taken, so nothing answers a barrier that has just begun;
this is what a restart breaks. `BarriersAreSafe` follows a pending barrier:
either the leader holds everything that was committed when it began and will
wait for no less (`Ahead`), or a newer term had committed, and then an election
quorum had left the leader's term without an answer to this barrier (`Fenced`);
it meets every read quorum and will not answer in that term any more, so the
barrier is never ready. `CommitsAreOwn`: a leader of the term of the last
committed entry has committed it, which decides between the two when the barrier
begins. Every handler is reduced to what it does
to numbers, terms, answers and commit indices, and the refinement then maps a
commit, a beginning, an answer and a loss of barriers each to one abstract step.

*Phases.* The invariant `PlansCompile` says that both plans of the active phase
are flat plans of nonempty voter sets of this mesh, whose families intersect
(`FlatPlanCompiles`). A step to a new phase keeps one compiled plan in common
with the phase before, and a set that decides a phase decides both its plans.

*Membership.* `MemberInv` adds to `ProjectionAgrees` that rows are backed by
nodes that may have them and that the projection's voters are voters of both
plans (`VotersStay`). It says nothing of the log: every entry is validated
against plan and projection when it is applied, so an entry planned by a leader
that has gone cannot do harm, only stop the authority (the `joins` finding).
That the first leader is not stopped needs the log: `FirstInv` says that it has
one entry in flight, that the entry will be accepted, and that the projection
is at most one member away from the plan.

*Target.* `RowsInv` says how far journal and packs can be apart when a call is
cut: a shard's bytes are in the pack it is routed to, the two states are at
most one step apart (`RowsAgree`), what the mutex holder is about to do is
still prepared (`CallsAreGrounded`), receipts say what was done, a removal is
final and the newest pack is never retired. The refinement follows with one
abstract step or none for each step: a write and a removal take effect where the
pack commits them, and the acknowledgement of each is a step of its own, in the
journal. That an acknowledged shard is still readable then, and that only such a
one is removed, rests on `Acknowledged`: a shard in the inventory has a put with
a receipt. `CapacityBalanced` is inductive beside it: each action moves
one row between the sums. Facts about sums over a finite set are proved by
`SubsetInduction`, an induction over subsets in which the property is a set
instead of an operator.

*Repair.* `WorkInv` follows one replacement from the retained intent through
the target to the layout: an intent is a write of its job's shard, a worker past
its plan has one, past the receipt a committed one, and so has every effect; and
a job is about a shard no layout before its own has replaced (`JobsAreNew`),
which is what makes layouts serial. The steps of the target are reduced to what
they do to the rows that repair reads, so the two invariants stay apart;
`TargetIsRespected` shows that nothing of the target's is changed otherwise.

*Deletion.* `CleanupInv` follows an item from its permit through the journal and
the pack of the target to the completion and the reclamation. What the target
does under a permit was allowed when it was prepared (`RemovalsAreGrounded`), one
removal takes a shard and remains the one (`TakenBy`), and what a worker was told
before it lost its reply, its permit or its leader cannot be undone
(`WorkersAreGrounded`, `Progress`). `Spec => Target!Spec` does not hold here as
it does for repair: a permit may expire before the target hears of it, which
`TargetStore` leaves out.

*Fences.* `FenceInv` says that a scan is behind a fence from its beginning until
its proposal is cancelled (`ScansAreFenced`), that behind a fence there is no
reservation and that what a scan has excluded stays excluded (`FencesHold`), and
that an authorised deletion has such a scan of every gateway
(`AttestationsStand`, `AuthorisedByAll`). It holds wherever the converged head
moves, because a gateway meets that head only by adopting it. The retained roots
are those every scan walked when the deletion is authorised; after that a
snapshot can add only the converged head (`NextRetained`). The comparison of local roots in `advance` is what makes the
result of a scan true when it is recorded.

Only model-checked:

- every liveness property (`ConfirmedReadsAnswered`, `FollowersRepaired`,
  `StagedAreAdmitted`, `RetiringAreRemoved`, `TargetReached`,
  `PreparedRepairsFinish`, `ReclaimedPacksRetire`, `DamageIsRepaired`,
  `EffectsAreClosed`), because fairness is outside the prover's reach;
- `CompiledDecides`, `CompiledPlansAreSafe`, `NoDoubleCounting` and
  `CutSetsAreDual`: `QuorumPredicate` needs recursion over trees, which the
  prover does not follow;
- `AuthorityRuns` and `SealedItemsAreReclaimed`, which the code violates, and
  without the hypotheses above `ImplementsLinearizableLog`,
  `NothingReachableIsDeleted` and `NothingRetainedIsDeleted`.

## 5. Not modelled, and the plan

Not modelled: wire formats, cryptography, HTTP and SMB front ends, DNS,
placement and erasure coding arithmetic, backup archives, packaging and the web
client, because they are I/O, encodings or computations with tests of their
own.

In the order in which they are to be added:

1. `ConsensusMembership`: plan activation per replica, the old plan's messages
   and the committed-prefix catch-up, composed from `ConsensusCore` and
   `MembershipCoordinator`. `PhasesOverlap` is what it needs of the latter.
2. The other maintenance jobs over the leases of `RepairWork`: scrub passes,
   rebalancing, reconciliation of absent targets and the evacuation of a drain.
3. `NodeEnrolment`: join grants, enrolment and activation with lost replies, and
   with it a gateway that is admitted while a cleanup runs.
4. Reactor queue: deduplication of submissions, deadlines and what a caller is
   told when leadership is lost.
5. Uploads and handle leases, federated quota, the ACME order machine.

The repository has about 385 000 lines of implementation, most of them schemas,
encodings, handlers, configuration and services around the parts above; the
model follows the state machines whose interleavings decide correctness and
does not aim at the rest.

Proofs to add: none is left of a safety property that holds, outside
`QuorumPredicate`. With `ConsensusMembership` the logs and reads of `LogProofs`
and `ReadProofs` are to be carried over a change of plan, for which
`PhasesOverlap` replaces the intersections of one plan.
