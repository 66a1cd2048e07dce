---------------------------- MODULE ReferenceFence ----------------------------
(***************************************************************************)
(* How the references to one superseded manifest are excluded before its    *)
(* shards are deleted.  Every gateway scans its namespace for references    *)
(* behind a durable fence and attests that there are none; the metadata     *)
(* authority then authorises the deletion.  Meanwhile gateways publish and  *)
(* exchange namespace commits, move the converged head of the volume, open  *)
(* files, reuse content and restore snapshots.                              *)
(*                                                                         *)
(* Source: crates/meshspan-filesystem/src: cleanup_fence.rs,                *)
(* reachability.rs, cleanup_cancellation.rs, content_reuse.rs,              *)
(* publication.rs, publication_convergence.rs, handles.rs and               *)
(* namespace_publication/; crates/meshspan-daemon/src/native_gateway_sync/; *)
(* crates/meshspan-metadata/src/repository: volume_head.rs,                 *)
(* user_snapshot.rs, version_cleanup.rs and cleanup_attestation.rs;         *)
(* crates/meshspan-cluster/src/cleanup.rs.                                  *)
(*                                                                         *)
(* A commit is what matters of it here: the commits it descends from, and   *)
(* whether its tree refers to the manifest.  Trees are immutable, so the    *)
(* pages of a scan find what its roots held when it was sealed: they are    *)
(* one step.  The retained roots are the converged head and the snapshots,  *)
(* which are only added; a root pinned for a backup was one of them, and is *)
(* like a snapshot.  Convergence takes up one received head at a time.  The *)
(* gateways, their incarnations and their keys do not change.               *)
(***************************************************************************)
EXTENDS Naturals, Sequences

CONSTANTS
  Gateways,     \* the admitted gateway nodes
  MaxCommits,   \* bound on namespace commits
  None

VARIABLES
  history,      \* namespace_commits: [past, refers], by identity
  head,         \* branch_namespace_heads of each gateway
  handle,       \* gateways with an open handle on a version with the manifest
  reuse,        \* gateways with an active content_reuse_reservation of it
  restore,      \* the restore a gateway has prepared and not activated
  job,          \* the convergence job of each gateway: [expected, selected]
  fence,        \* version_cleanup_reference_fences and retired_manifest_roots
  scan,         \* version_reachability_scans: [roots, local, state]
  offered,      \* namespace_delivery_journal: heads other gateways receive
  converged,    \* the latest of volume_head_transitions
  snapshots,    \* the commits of volume_snapshots
  cleanup       \* version_cleanup_intents: [roots, attested, state]

local == <<head, handle, reuse, restore>>
exchange == <<job, offered>>
retained == <<converged, snapshots>>
vars == <<history, local, exchange, fence, scan, retained, cleanup>>

\* The retained roots, which cleanup compares by the digest of their list.
Roots == [converged |-> converged, snapshots |-> snapshots]
RootCommits(r) == {r.converged} \cup r.snapshots

Refers(c) == history[c].refers
Descends(c, d) == d \in history[c].past

\* The next commit, on top of others.
Commit(parents, refers) ==
  /\ Len(history) < MaxCommits
  /\ history' = Append(history,
       [past |-> (UNION {history[p].past : p \in parents}) \cup {Len(history) + 1},
        refers |-> refers])

NewCommit == Len(history) + 1

\* reject_manifest_identity and reject_version_reference.
Fenced(g) == fence[g] \in {"Active", "Retired"}
-----------------------------------------------------------------------------
(* The namespace of a gateway.                                              *)

\* persist_version and the other publications: a commit that gains a reference
\* is checked.  attach consumes a reservation.
Publish(g, refers) ==
  /\ refers /\ ~Refers(head[g]) => ~Fenced(g)
  /\ Commit({head[g]}, refers)
  /\ head' = [head EXCEPT ![g] = NewCommit]
  /\ offered' = offered \cup {NewCommit}
  /\ reuse' = IF refers THEN reuse \ {g} ELSE reuse
  /\ UNCHANGED <<handle, restore, job, fence, scan, retained, cleanup>>

\* adopt_head: a head that descends from the local one replaces it.
AdoptHead(g, c) ==
  head' = [head EXCEPT ![g] = IF Descends(c, head[g]) THEN c ELSE @]

\* A received head.  The gateway that published it may have moved on since.  The
\* restores in its lineage are committed: it was offered after them.
Adopt(g, c) ==
  /\ c \in offered
  /\ c # head[g] /\ Descends(c, head[g])
  /\ AdoptHead(g, c)
  /\ UNCHANGED <<history, handle, reuse, restore, exchange, fence, scan, retained, cleanup>>

\* A handle pins the version it opened.
Open(g) ==
  /\ Refers(head[g])
  /\ handle' = handle \cup {g}
  /\ UNCHANGED <<history, head, reuse, restore, exchange, fence, scan, retained, cleanup>>

Close(g) ==
  /\ g \in handle
  /\ handle' = handle \ {g}
  /\ UNCHANGED <<history, head, reuse, restore, exchange, fence, scan, retained, cleanup>>

\* reserve_content_reuse and cancel_content_reuse.
ReserveReuse(g) ==
  /\ ~Fenced(g) /\ g \notin reuse
  /\ reuse' = reuse \cup {g}
  /\ UNCHANGED <<history, head, handle, restore, exchange, fence, scan, retained, cleanup>>

CancelReuse(g) ==
  /\ g \in reuse
  /\ reuse' = reuse \ {g}
  /\ UNCHANGED <<history, head, handle, restore, exchange, fence, scan, retained, cleanup>>

\* snapshot_restore::prepare: refused while the volume has any fence.
PrepareRestore(g, c) ==
  /\ c \in snapshots /\ restore[g] = None
  /\ ~Fenced(g)
  /\ Commit({head[g]}, Refers(c))
  /\ restore' = [restore EXCEPT ![g] = [commit |-> NewCommit, on |-> head[g]]]
  /\ UNCHANGED <<head, handle, reuse, exchange, fence, scan, retained, cleanup>>

\* snapshot_restore::activate, on the head it was prepared for, once the
\* converged head has been moved to it.
ActivateRestore(g) ==
  /\ restore[g] # None /\ head[g] = restore[g].on
  /\ Descends(converged, restore[g].commit)
  /\ head' = [head EXCEPT ![g] = restore[g].commit]
  /\ offered' = offered \cup {restore[g].commit}
  /\ restore' = [restore EXCEPT ![g] = None]
  /\ UNCHANGED <<history, handle, reuse, job, fence, scan, retained, cleanup>>
-----------------------------------------------------------------------------
(* The converged head and the snapshots.  Every command that moves the head  *)
(* compares it with the one expected, and none looks at fences or cleanups.  *)

MoveHead(expected, c) ==
  /\ converged = expected
  /\ converged' = c
  /\ UNCHANGED <<history, local, exchange, fence, scan, snapshots, cleanup>>

\* confirm_or_commit_publication: a publication on the converged head.
ConfirmPublication(c) ==
  /\ c \in offered /\ c # converged
  /\ history[c].past = history[converged].past \cup {c}
  /\ MoveHead(converged, c)

\* RestoreVolumeSnapshot of a restore that was prepared.
CommitRestore(g) ==
  /\ restore[g] # None
  /\ MoveHead(restore[g].on, restore[g].commit)

\* prepare_namespace_convergence and apply_namespace_convergence: a head that
\* descends from the converged one is selected as it is; another one is merged
\* into it, and every file version it brings is checked.
PrepareConvergence(g, c, refers) ==
  /\ job[g] = None
  /\ c \in offered /\ ~Descends(converged, c)
  /\ \/ /\ Descends(c, converged) /\ refers = Refers(c)
        /\ job' = [job EXCEPT ![g] = [expected |-> converged, selected |-> c]]
        /\ UNCHANGED history
     \/ /\ ~Descends(c, converged) /\ refers \in {Refers(converged), Refers(c)}
        /\ refers /\ ~Refers(converged) => ~Fenced(g)
        /\ Commit({converged, c}, refers)
        /\ job' = [job EXCEPT ![g] = [expected |-> converged, selected |-> NewCommit]]
  /\ UNCHANGED <<local, offered, fence, scan, retained, cleanup>>

\* publish: CommitConvergedVolumeHead.
CommitConverged(g) ==
  /\ job[g] # None
  /\ MoveHead(job[g].expected, job[g].selected)

\* complete, once the head was moved: it is offered to the others and adopted,
\* unless the local head is not among its ancestors.
FinishConvergence(g) ==
  /\ job[g] # None /\ Descends(converged, job[g].selected)
  /\ offered' = offered \cup {job[g].selected}
  /\ AdoptHead(g, job[g].selected)
  /\ job' = [job EXCEPT ![g] = None]
  /\ UNCHANGED <<history, handle, reuse, restore, fence, scan, retained, cleanup>>

\* run_one drops a job when the converged head is neither of its heads.
DropConvergence(g) ==
  /\ job[g] # None /\ converged \notin {job[g].expected, job[g].selected}
  /\ job' = [job EXCEPT ![g] = None]
  /\ UNCHANGED <<history, local, offered, fence, scan, retained, cleanup>>

\* create: a snapshot of the converged head.
Snapshot ==
  /\ converged \notin snapshots
  /\ snapshots' = snapshots \cup {converged}
  /\ UNCHANGED <<history, local, exchange, fence, scan, converged, cleanup>>
-----------------------------------------------------------------------------
(* Scans.                                                                   *)

\* current_local_roots_digest.
LocalRoots(g) == [head |-> head[g], restore |-> restore[g], reuse |-> g \in reuse]

\* candidate_is_directly_pinned: current files and open handles.
Pinned(g) == Refers(head[g]) \/ g \in handle

\* What process_work finds from the roots that seal enqueued.
Reaches(s) ==
  \/ \E c \in RootCommits(s.roots) : Refers(c)
  \/ Refers(s.local.head)
  \/ s.local.restore # None /\ Refers(s.local.restore.commit)

\* begin, with the install of the fence in the same transaction.
Begin(g) ==
  /\ ~Fenced(g) /\ g \notin reuse
  /\ fence' = [fence EXCEPT ![g] = "Active"]
  /\ scan' = [scan EXCEPT ![g] = [roots |-> Roots, local |-> None, state |-> "Collecting"]]
  /\ UNCHANGED <<history, local, exchange, retained, cleanup>>

\* complete_scan: a reachable result releases the fence.
CompleteScan(g, roots, state) ==
  /\ scan' = [scan EXCEPT ![g].local = roots, ![g].state = state]
  /\ fence' = [fence EXCEPT ![g] = IF state = "Reachable" THEN "Released" ELSE @]

\* append_roots and seal.
Seal(g) ==
  /\ scan[g].state = "Collecting"
  /\ CompleteScan(g, LocalRoots(g), IF Pinned(g) THEN "Reachable" ELSE "Scanning")
  /\ UNCHANGED <<history, local, exchange, retained, cleanup>>

\* advance: with other local roots than the sealed ones it is refused.
Advance(g) ==
  /\ scan[g].state = "Scanning"
  /\ scan[g].local = LocalRoots(g)
  /\ CompleteScan(g, LocalRoots(g),
       IF Pinned(g) \/ Reaches(scan[g]) THEN "Reachable" ELSE "Unreachable")
  /\ UNCHANGED <<history, local, exchange, retained, cleanup>>
-----------------------------------------------------------------------------
(* The cleanup.                                                             *)

\* version_cleanup_proposal and propose: one proposal per version, on a proof.
Propose(g) ==
  /\ cleanup.state = "None"
  /\ scan[g].state = "Unreachable" /\ scan[g].roots = Roots
  /\ cleanup' = [roots |-> Roots, attested |-> {}, state |-> "Pending"]
  /\ UNCHANGED <<history, local, exchange, fence, scan, retained>>

\* version_cleanup_attestation and attest: the proof of a participant.
Attest(g) ==
  /\ cleanup.state = "Pending" /\ g \notin cleanup.attested
  /\ scan[g].state = "Unreachable" /\ scan[g].roots = cleanup.roots
  /\ cleanup' = [cleanup EXCEPT !.attested = @ \cup {g}]
  /\ UNCHANGED <<history, local, exchange, fence, scan, retained>>

\* authorise: the retained roots are the same and every gateway has attested.
Authorise ==
  /\ cleanup.state = "Pending"
  /\ cleanup.roots = Roots
  /\ cleanup.attested = Gateways
  /\ cleanup' = [cleanup EXCEPT !.state = "Authorised"]
  /\ UNCHANGED <<history, local, exchange, fence, scan, retained>>

\* cancel, and release of the fences of its scans.
Cancel ==
  /\ cleanup.state = "Pending"
  /\ cleanup' = [cleanup EXCEPT !.state = "Cancelled"]
  /\ UNCHANGED <<history, local, exchange, fence, scan, retained>>

Release(g) ==
  /\ cleanup.state = "Cancelled"
  /\ fence[g] = "Active" /\ scan[g].roots = cleanup.roots
  /\ fence' = [fence EXCEPT ![g] = "Released"]
  /\ UNCHANGED <<history, local, exchange, scan, retained, cleanup>>

\* retire_completed_inner, after all shards are deleted.
Retire(g) ==
  /\ cleanup.state = "Authorised" /\ fence[g] = "Active"
  /\ fence' = [fence EXCEPT ![g] = "Retired"]
  /\ UNCHANGED <<history, local, exchange, scan, retained, cleanup>>
-----------------------------------------------------------------------------
\* The version is superseded: no head refers to its manifest.
Init ==
  /\ history = <<[past |-> {1}, refers |-> FALSE]>>
  /\ head = [g \in Gateways |-> 1]
  /\ handle = {}
  /\ reuse = {}
  /\ restore = [g \in Gateways |-> None]
  /\ job = [g \in Gateways |-> None]
  /\ offered = {1}
  /\ fence = [g \in Gateways |-> "None"]
  /\ converged = 1
  /\ snapshots = {}
  /\ scan = [g \in Gateways |-> [roots |-> Roots, local |-> None, state |-> "None"]]
  /\ cleanup = [roots |-> Roots, attested |-> {}, state |-> "None"]

Commits == 1..Len(history)

Serve(g) ==
  \/ \E refers \in BOOLEAN : Publish(g, refers)
  \/ \E c \in Commits : Adopt(g, c) \/ PrepareRestore(g, c)
  \/ Open(g) \/ Close(g) \/ ReserveReuse(g) \/ CancelReuse(g) \/ ActivateRestore(g)

Converge(g) ==
  \/ \E c \in Commits, refers \in BOOLEAN : PrepareConvergence(g, c, refers)
  \/ CommitConverged(g) \/ FinishConvergence(g) \/ DropConvergence(g) \/ CommitRestore(g)

Collect(g) ==
  Begin(g) \/ Seal(g) \/ Advance(g) \/ Propose(g) \/ Attest(g) \/ Release(g) \/ Retire(g)

Next ==
  \/ \E g \in Gateways : Serve(g) \/ Converge(g) \/ Collect(g)
  \/ \E c \in Commits : ConfirmPublication(c)
  \/ Snapshot
  \/ Authorise
  \/ Cancel

Spec == Init /\ [][Next]_vars

\* The two steps that no check guards: a fenced gateway gains a reference with a
\* head it adopts, received or its own convergence's; and the converged head
\* moves to a commit with a reference once the deletion is authorised.
FencedAdoption ==
  \E g \in Gateways :
    /\ (\E c \in Commits : Adopt(g, c)) \/ FinishConvergence(g)
    /\ Fenced(g) /\ ~Refers(head[g]) /\ Refers(head'[g])

LateConvergence ==
  cleanup.state = "Authorised" /\ converged' # converged /\ Refers(converged')

AdoptingSpec == Init /\ [][Next /\ ~FencedAdoption]_vars

CarefulSpec == Init /\ [][Next /\ ~FencedAdoption /\ ~LateConvergence]_vars
-----------------------------------------------------------------------------
\* What a reader or a user can still reach of the manifest.
Reachable(g) ==
  \/ Pinned(g)
  \/ g \in reuse
  \/ restore[g] # None /\ Refers(restore[g].commit)

\* Once the deletion is authorised, which cannot be undone, no gateway can reach
\* the manifest: not by its head, a handle, a reservation or a restore, whatever
\* was published or exchanged between the scans (reject_manifest_identity,
\* authorise).  design/copy-on-write.md:210 says "A stale collector can waste
\* scanning work but cannot delete newly reachable data."  A head adopted from
\* another gateway is not checked (adopt_head).
NothingReachableIsDeleted ==
  cleanup.state = "Authorised" => \A g \in Gateways : ~Reachable(g)

\* Nor does a retained root refer to it: neither the converged head nor a
\* snapshot.  CommitConvergedVolumeHead is not checked against the cleanup.
NothingRetainedIsDeleted ==
  cleanup.state = "Authorised" => \A c \in RootCommits(Roots) : ~Refers(c)
=============================================================================
