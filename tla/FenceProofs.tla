----------------------------- MODULE FenceProofs -----------------------------
(***************************************************************************)
(* Proofs about reference fences, for any set of gateways and any number of *)
(* commits.  Two steps have no check: adopt_head under a fence, and         *)
(* CommitConvergedVolumeHead after the deletion is authorised.  In every    *)
(* execution without the first no gateway can reach what is deleted, where- *)
(* ever the converged head moves; without both no retained root does.       *)
(*                                                                         *)
(* FenceInv is inductive without the first.  A fence is in place from the   *)
(* start of a scan until its proposal is cancelled, nothing behind a fence  *)
(* gains a reference, and a scan that finds none therefore stays true.      *)
(***************************************************************************)
EXTENDS ReferenceFence, SequenceTheorems, TLAPS

NamespaceCommits == [past : SUBSET Nat, refers : BOOLEAN]
Restores == [commit : Nat, on : Nat]
Locals == [head : Nat, restore : Restores \cup {None}, reuse : BOOLEAN]

Jobs == [expected : Nat, selected : Nat]
RootLists == [converged : Nat, snapshots : SUBSET Nat]

ScanStates == {"None", "Collecting", "Scanning", "Reachable", "Unreachable"}
Scans == [roots : RootLists, local : Locals \cup {None}, state : ScanStates]

FenceTypes ==
  /\ history \in Seq(NamespaceCommits)
  /\ head \in [Gateways -> Nat]
  /\ handle \subseteq Gateways /\ reuse \subseteq Gateways
  /\ restore \in [Gateways -> Restores \cup {None}]
  /\ fence \in [Gateways -> {"None", "Active", "Released", "Retired"}]
  /\ scan \in [Gateways -> Scans]
  /\ cleanup \in [roots : RootLists, attested : SUBSET Gateways,
                  state : {"None", "Pending", "Authorised", "Cancelled"}]

\* What is named is there.
CommitsExist ==
  /\ \A g \in Gateways : head[g] \in Commits /\ RootCommits(scan[g].roots) \subseteq Commits
  /\ \A g \in Gateways : restore[g] # None => restore[g].commit \in Commits
  /\ RootCommits(cleanup.roots) \subseteq Commits

SharedExist ==
  /\ converged \in Commits /\ snapshots \subseteq Commits /\ offered \subseteq Commits
  /\ job \in [Gateways -> Jobs \cup {None}]
  /\ \A g \in Gateways : job[g] # None => job[g].selected \in Commits

\* A scan is behind a fence until its proposal is cancelled.
ScansAreFenced ==
  \A g \in Gateways :
    cleanup.state # "Cancelled" /\ scan[g].state \in {"Collecting", "Scanning", "Unreachable"} =>
      Fenced(g)

NoReferences(r) == \A c \in RootCommits(r) : ~Refers(c)

\* Behind a fence there is no reservation, and what a scan excluded is not there.
FencesHold ==
  \A g \in Gateways : Fenced(g) =>
    /\ g \notin reuse
    /\ scan[g].state = "Unreachable" => ~Reachable(g) /\ NoReferences(scan[g].roots)

\* An attestation is a scan whose result stands.
AttestationsStand ==
  cleanup.state \in {"Pending", "Authorised"} =>
    /\ NoReferences(cleanup.roots)
    /\ \A g \in cleanup.attested : scan[g].state = "Unreachable"

\* The deletion is authorised by all.
AuthorisedByAll == cleanup.state = "Authorised" => cleanup.attested = Gateways

FenceInv ==
  /\ FenceTypes /\ CommitsExist /\ SharedExist
  /\ ScansAreFenced /\ FencesHold /\ AttestationsStand /\ AuthorisedByAll
-----------------------------------------------------------------------------
(* Commits.                                                                 *)

\* History only grows, and what a commit refers to does not change.
HistoryGrows ==
  /\ history' \in Seq(NamespaceCommits)
  /\ Commits \subseteq Commits'
  /\ \A c \in Commits : Refers(c)' <=> Refers(c)

\* A new commit refers to what it was made with.
LEMMA CommitFacts ==
  ASSUME FenceTypes, NEW parents \in SUBSET Commits, NEW refers \in BOOLEAN,
         Commit(parents, refers)
  PROVE  /\ HistoryGrows
         /\ NewCommit \in Nat /\ NewCommit \in Commits'
         /\ history'[NewCommit].refers <=> refers
<1> DEFINE new == [past |-> (UNION {history[p].past : p \in parents}) \cup {Len(history) + 1},
                   refers |-> refers]
<1>1. history' = Append(history, new) /\ history \in Seq(NamespaceCommits)
  BY DEF Commit, FenceTypes
<1>2. Len(history) \in Nat /\ \A c \in Commits : c \in Nat /\ history[c] \in NamespaceCommits
  BY <1>1, ElementOfSeq DEF Commits
<1>3. new \in NamespaceCommits
  <2>1. \A p \in parents : history[p].past \subseteq Nat
    BY <1>2 DEF NamespaceCommits
  <2>2. UNION {history[p].past : p \in parents} \subseteq Nat
    BY <2>1
  <2>3. (UNION {history[p].past : p \in parents}) \cup {Len(history) + 1} \in SUBSET Nat
    BY <1>2, <2>2
  <2>. QED BY <2>3, Zenon DEF NamespaceCommits
<1>4. new.refers = refers
  OBVIOUS
<1> HIDE DEF new
<1>5. /\ history' \in Seq(NamespaceCommits) /\ Len(history') = Len(history) + 1
      /\ \A c \in 1..Len(history) : history'[c] = history[c]
      /\ history'[Len(history) + 1] = new
  BY <1>1, <1>3, AppendProperties
<1>6. Commits \subseteq Commits' /\ \A c \in Commits : history'[c] = history[c]
  BY <1>2, <1>5 DEF Commits
<1>7. HistoryGrows
  BY <1>5, <1>6 DEF HistoryGrows, Refers
<1>8. NewCommit \in Nat /\ NewCommit \in Commits' /\ history'[NewCommit] = new
  BY <1>2, <1>5 DEF NewCommit, Commits
<1>. QED BY <1>4, <1>7, <1>8

\* Nothing is committed.
LEMMA HistoryStays ==
  ASSUME FenceTypes, UNCHANGED history
  PROVE  HistoryGrows /\ Commits' = Commits
BY DEF HistoryGrows, FenceTypes, Refers, Commits

\* Roots that exist keep what they refer to.
LEMMA RootsStay ==
  ASSUME HistoryGrows, NEW r, RootCommits(r) \subseteq Commits, NoReferences(r)
  PROVE  NoReferences(r)'
BY DEF HistoryGrows, NoReferences, RootCommits

\* The retained roots are commits.
LEMMA RootsExist ==
  ASSUME FenceInv
  PROVE  Roots \in RootLists /\ RootCommits(Roots) \subseteq Commits
<1>1. converged \in Commits /\ snapshots \subseteq Commits /\ Commits \subseteq Nat
  BY DEF FenceInv, SharedExist, Commits
<1>. QED BY <1>1 DEF Roots, RootLists, RootCommits

\* What is shared and stays is still there.
LEMMA SharedStays ==
  ASSUME SharedExist, HistoryGrows, UNCHANGED <<exchange, retained>>
  PROVE  SharedExist'
BY DEF SharedExist, HistoryGrows, exchange, retained
-----------------------------------------------------------------------------
(* The namespace.                                                           *)

\* What a gateway keeps itself, and what it may gain behind a fence.
OthersStay(g) ==
  \A h \in Gateways \ {g} :
    /\ head'[h] = head[h] /\ restore'[h] = restore[h]
    /\ h \in handle' <=> h \in handle
    /\ h \in reuse' <=> h \in reuse

GainsNothing(g) ==
  /\ g \in reuse' => g \in reuse
  /\ ~Reachable(g) => ~Reachable(g)'

\* A step of one gateway's namespace.
LEMMA LocalStep ==
  ASSUME FenceInv, HistoryGrows, FenceTypes', SharedExist', NEW g \in Gateways, OthersStay(g),
         head'[g] \in Commits', restore'[g] # None => restore'[g].commit \in Commits',
         Fenced(g) => GainsNothing(g),
         UNCHANGED <<fence, scan, cleanup>>
  PROVE  FenceInv'
<1>1. CommitsExist'
  <2>1. ASSUME NEW h \in Gateways
        PROVE  /\ head'[h] \in Commits' /\ RootCommits(scan[h].roots) \subseteq Commits'
               /\ restore'[h] # None => restore'[h].commit \in Commits'
    <3>1. CASE h = g
      BY <3>1 DEF FenceInv, CommitsExist, HistoryGrows
    <3>2. CASE h # g
      BY <3>2 DEF FenceInv, CommitsExist, HistoryGrows, OthersStay
    <3>. QED BY <3>1, <3>2
  <2>2. RootCommits(cleanup.roots) \subseteq Commits'
    BY DEF FenceInv, CommitsExist, HistoryGrows
  <2>. QED BY <2>1, <2>2 DEF CommitsExist
<1>2. ScansAreFenced'
  BY DEF FenceInv, ScansAreFenced, Fenced
<1>3. FencesHold'
  <2> SUFFICES ASSUME NEW h \in Gateways, Fenced(h)
               PROVE  /\ h \notin reuse'
                      /\ scan[h].state = "Unreachable" =>
                           ~Reachable(h)' /\ NoReferences(scan[h].roots)'
    BY DEF FencesHold, Fenced, NoReferences
  <2>1. /\ h \notin reuse
        /\ scan[h].state = "Unreachable" => ~Reachable(h) /\ NoReferences(scan[h].roots)
        /\ RootCommits(scan[h].roots) \subseteq Commits
    BY DEF FenceInv, FencesHold, CommitsExist
  <2>2. scan[h].state = "Unreachable" => NoReferences(scan[h].roots)'
    BY <2>1, RootsStay
  <2>3. CASE h = g
    BY <2>1, <2>2, <2>3 DEF GainsNothing
  <2>4. CASE h # g
    <3>1. head[h] \in Commits /\ (restore[h] # None => restore[h].commit \in Commits)
      BY DEF FenceInv, CommitsExist
    <3>2. /\ head'[h] = head[h] /\ restore'[h] = restore[h]
          /\ h \in handle' <=> h \in handle
          /\ h \in reuse' <=> h \in reuse
      BY <2>4 DEF OthersStay
    <3>3. /\ Refers(head[h])' <=> Refers(head[h])
          /\ restore[h] # None => (Refers(restore[h].commit)' <=> Refers(restore[h].commit))
      <4>1. Refers(head[h])' <=> Refers(head[h])
        BY <3>1, <3>2 DEF HistoryGrows, Refers
      <4>2. restore[h] # None => (Refers(restore[h].commit)' <=> Refers(restore[h].commit))
        BY <3>1, <3>2 DEF HistoryGrows, Refers
      <4>. QED BY <4>1, <4>2
    <3>4. Reachable(h)' <=> Reachable(h)
      BY <3>2, <3>3 DEF Reachable, Pinned
    <3>. QED BY <2>1, <2>2, <3>2, <3>4
  <2>. QED BY <2>3, <2>4
<1>4. AttestationsStand' /\ AuthorisedByAll'
  <2>1. NoReferences(cleanup.roots) => NoReferences(cleanup.roots)'
    BY RootsStay DEF FenceInv, CommitsExist
  <2>. QED BY <2>1 DEF FenceInv, AttestationsStand, AuthorisedByAll, NoReferences
<1>. QED BY <1>1, <1>2, <1>3, <1>4 DEF FenceInv

\* Publications: a head that gains a reference is checked.
LEMMA PublishKeeps ==
  ASSUME FenceInv, NEW g \in Gateways, NEW refers \in BOOLEAN, Publish(g, refers)
  PROVE  FenceInv'
<1>0. /\ refers /\ ~Refers(head[g]) => ~Fenced(g)
      /\ Commit({head[g]}, refers)
      /\ head' = [head EXCEPT ![g] = NewCommit]
      /\ offered' = offered \cup {NewCommit}
      /\ reuse' \in {reuse, reuse \ {g}}
      /\ UNCHANGED <<handle, restore, job, fence, scan, retained, cleanup>>
  BY DEF Publish
<1>a. {head[g]} \in SUBSET Commits
  BY DEF FenceInv, CommitsExist
<1>1. /\ FenceTypes /\ HistoryGrows
      /\ NewCommit \in Nat /\ NewCommit \in Commits'
      /\ history'[NewCommit].refers <=> refers
  BY <1>0, <1>a, CommitFacts DEF FenceInv
<1>2. FenceTypes' /\ SharedExist'
  <2>1. FenceTypes'
    BY <1>0, <1>1 DEF FenceTypes, HistoryGrows
  <2>2. SharedExist'
    BY <1>0, <1>1 DEF FenceInv, SharedExist, HistoryGrows, retained
  <2>. QED BY <2>1, <2>2
<1>3. head'[g] = NewCommit /\ OthersStay(g)
  BY <1>0, <1>1 DEF FenceTypes, OthersStay
<1>4. restore[g] # None =>
        /\ restore[g].commit \in Commits'
        /\ Refers(restore[g].commit)' <=> Refers(restore[g].commit)
  BY <1>0, <1>1 DEF FenceInv, CommitsExist, HistoryGrows, Refers
<1>5. ASSUME Fenced(g) PROVE GainsNothing(g)
  <2>1. Refers(head[g])' => Refers(head[g])
    BY <1>0, <1>1, <1>3, <1>5 DEF Refers
  <2>. QED BY <1>0, <1>4, <2>1 DEF GainsNothing, Reachable, Pinned
<1>. QED BY <1>0, <1>1, <1>2, <1>3, <1>4, <1>5, LocalStep

\* adopt_head, of a head that brings no reference behind a fence.
LEMMA AdoptHeadKeeps ==
  ASSUME FenceInv, NEW g \in Gateways, NEW c \in Commits, AdoptHead(g, c),
         Fenced(g) /\ Refers(head'[g]) => Refers(head[g]),
         SharedExist', UNCHANGED <<history, handle, reuse, restore, fence, scan, cleanup>>
  PROVE  FenceInv'
<1>1. /\ FenceTypes /\ head[g] \in Commits
      /\ head' = [head EXCEPT ![g] = IF Descends(c, head[g]) THEN c ELSE @]
  BY DEF FenceInv, CommitsExist, AdoptHead
<1>2. HistoryGrows /\ Commits' = Commits /\ c \in Nat
  BY <1>1, HistoryStays DEF Commits
<1>3. head'[g] \in {c, head[g]} /\ OthersStay(g)
  BY <1>1 DEF FenceTypes, OthersStay
<1>4. FenceTypes'
  BY <1>1, <1>2, <1>3 DEF FenceTypes
<1>5. restore'[g] # None => restore'[g].commit \in Commits'
  BY <1>1, <1>2 DEF FenceInv, CommitsExist
<1>6. ASSUME Fenced(g) PROVE GainsNothing(g)
  <2>1. Refers(head[g])' => Refers(head[g])
    BY <1>6 DEF Refers
  <2>2. Refers(restore[g].commit)' <=> Refers(restore[g].commit)
    BY <1>1 DEF Refers
  <2>. QED BY <1>1, <2>1, <2>2 DEF GainsNothing, Reachable, Pinned
<1>. QED BY <1>1, <1>2, <1>3, <1>4, <1>5, <1>6, LocalStep

\* A received head.
LEMMA AdoptKeeps ==
  ASSUME FenceInv, NEW g \in Gateways, NEW c \in Commits, Adopt(g, c), ~FencedAdoption
  PROVE  FenceInv'
<1>1. /\ FenceTypes /\ AdoptHead(g, c)
      /\ UNCHANGED <<history, handle, reuse, restore, fence, scan, cleanup>>
      /\ UNCHANGED <<exchange, retained>>
  BY DEF FenceInv, Adopt
<1>2. SharedExist'
  BY <1>1, HistoryStays, SharedStays DEF FenceInv
<1>3. Fenced(g) /\ Refers(head'[g]) => Refers(head[g])
  BY DEF FencedAdoption
<1>. QED BY <1>1, <1>2, <1>3, AdoptHeadKeeps

\* The head of a finished convergence.
LEMMA FinishConvergenceKeeps ==
  ASSUME FenceInv, NEW g \in Gateways, FinishConvergence(g), ~FencedAdoption
  PROVE  FenceInv'
<1> DEFINE c == job[g].selected
<1>1. /\ FenceTypes /\ AdoptHead(g, c) /\ c \in Commits
      /\ UNCHANGED <<history, handle, reuse, restore, fence, scan, cleanup>>
      /\ UNCHANGED retained
      /\ offered' = offered \cup {c} /\ job' = [job EXCEPT ![g] = None]
  BY DEF FenceInv, SharedExist, FinishConvergence
<1>2. SharedExist'
  BY <1>1, HistoryStays DEF FenceInv, SharedExist, retained
<1>3. Fenced(g) /\ Refers(head'[g]) => Refers(head[g])
  BY DEF FencedAdoption
<1> HIDE DEF c
<1>. QED BY <1>1, <1>2, <1>3, AdoptHeadKeeps

\* Handles and reservations.
LEMMA PinKeeps ==
  ASSUME FenceInv, NEW g \in Gateways, Open(g) \/ Close(g) \/ ReserveReuse(g) \/ CancelReuse(g)
  PROVE  FenceInv'
<1>1. /\ FenceTypes
      /\ UNCHANGED <<history, head, restore, fence, scan, cleanup>>
      /\ UNCHANGED <<exchange, retained>>
      /\ handle' \subseteq Gateways /\ reuse' \subseteq Gateways
      /\ OthersStay(g)
      /\ g \in handle' => g \in handle \/ Refers(head[g])
      /\ g \in reuse' => g \in reuse \/ ~Fenced(g)
  <2>1. FenceTypes
    BY DEF FenceInv
  <2>2. CASE Open(g)
    BY <2>1, <2>2 DEF Open, FenceTypes, OthersStay
  <2>3. CASE Close(g)
    BY <2>1, <2>3 DEF Close, FenceTypes, OthersStay
  <2>4. CASE ReserveReuse(g)
    BY <2>1, <2>4 DEF ReserveReuse, FenceTypes, OthersStay
  <2>5. CASE CancelReuse(g)
    BY <2>1, <2>5 DEF CancelReuse, FenceTypes, OthersStay
  <2>. QED BY <2>2, <2>3, <2>4, <2>5
<1>2. HistoryGrows /\ Commits' = Commits
  BY <1>1, HistoryStays
<1>3. FenceTypes' /\ SharedExist'
  BY <1>1, <1>2, SharedStays DEF FenceInv, FenceTypes
<1>4. head'[g] \in Commits' /\ (restore'[g] # None => restore'[g].commit \in Commits')
  BY <1>1, <1>2 DEF FenceInv, CommitsExist
<1>5. ASSUME Fenced(g) PROVE GainsNothing(g)
  <2>1. /\ Refers(head[g])' <=> Refers(head[g])
        /\ Refers(restore[g].commit)' <=> Refers(restore[g].commit)
    BY <1>1 DEF Refers
  <2>. QED BY <1>1, <1>5, <2>1 DEF GainsNothing, Reachable, Pinned
<1>. QED BY <1>1, <1>2, <1>3, <1>4, <1>5, LocalStep

\* snapshot_restore::prepare is refused behind a fence.
LEMMA PrepareRestoreKeeps ==
  ASSUME FenceInv, NEW g \in Gateways, NEW c \in Commits, PrepareRestore(g, c)
  PROVE  FenceInv'
<1>1. /\ FenceTypes /\ ~Fenced(g)
      /\ Commit({head[g]}, Refers(c))
      /\ restore' = [restore EXCEPT ![g] = [commit |-> NewCommit, on |-> head[g]]]
      /\ UNCHANGED <<head, handle, reuse, fence, scan, cleanup>>
      /\ UNCHANGED <<exchange, retained>>
  BY DEF FenceInv, PrepareRestore
<1>2. head[g] \in Nat /\ head[g] \in Commits /\ {head[g]} \in SUBSET Commits
  BY DEF FenceInv, FenceTypes, CommitsExist
<1>3. Refers(c) \in BOOLEAN
  <2>1. history[c] \in NamespaceCommits
    BY <1>1, ElementOfSeq DEF FenceTypes, Commits
  <2>. QED BY <2>1 DEF Refers, NamespaceCommits
<1>4. HistoryGrows /\ NewCommit \in Nat /\ NewCommit \in Commits'
  BY <1>1, <1>2, <1>3, CommitFacts
<1>5. FenceTypes'
  <2>1. [commit |-> NewCommit, on |-> head[g]] \in Restores
    BY <1>2, <1>4 DEF Restores
  <2>. QED BY <1>1, <1>4, <2>1 DEF FenceTypes, HistoryGrows
<1>6. OthersStay(g) /\ restore'[g].commit \in Commits'
  BY <1>1, <1>4 DEF FenceTypes, OthersStay
<1>7. head'[g] \in Commits' /\ SharedExist'
  BY <1>1, <1>2, <1>4, SharedStays DEF FenceInv, HistoryGrows
<1>. QED BY <1>1, <1>4, <1>5, <1>6, <1>7, LocalStep

\* snapshot_restore::activate moves the head to what was prepared.
LEMMA ActivateRestoreKeeps ==
  ASSUME FenceInv, NEW g \in Gateways, ActivateRestore(g)
  PROVE  FenceInv'
<1>1. /\ FenceTypes /\ restore[g] # None
      /\ head' = [head EXCEPT ![g] = restore[g].commit]
      /\ restore' = [restore EXCEPT ![g] = None]
      /\ UNCHANGED <<history, handle, reuse, job, fence, scan, retained, cleanup>>
      /\ offered' = offered \cup {restore[g].commit}
  BY DEF FenceInv, ActivateRestore
<1>2. HistoryGrows /\ Commits' = Commits /\ restore[g].commit \in Commits
  BY <1>1, HistoryStays DEF FenceInv, CommitsExist
<1>3. restore[g].commit \in Nat
  BY <1>2 DEF Commits
<1>4. FenceTypes' /\ SharedExist'
  <2>1. FenceTypes'
    BY <1>1, <1>3 DEF FenceTypes
  <2>2. SharedExist'
    BY <1>1, <1>2 DEF FenceInv, SharedExist, retained
  <2>. QED BY <2>1, <2>2
<1>5. head'[g] = restore[g].commit /\ restore'[g] = None /\ OthersStay(g)
  BY <1>1 DEF FenceTypes, OthersStay
<1>6. ASSUME Fenced(g) PROVE GainsNothing(g)
  <2>1. Refers(head[g])' <=> Refers(restore[g].commit)
    BY <1>1, <1>5 DEF Refers
  <2>. QED BY <1>1, <1>5, <2>1 DEF GainsNothing, Reachable, Pinned
<1>. QED BY <1>1, <1>2, <1>4, <1>5, <1>6, LocalStep
-----------------------------------------------------------------------------
(* The metadata, the scans and the cleanup.                                 *)

\* A step of a scan or of the cleanup leaves what the gateways hold.
LEMMA HeldStays ==
  ASSUME FenceInv, UNCHANGED <<history, local>>
  PROVE  /\ Commits' = Commits /\ UNCHANGED <<history, head, handle, reuse, restore>>
         /\ \A g \in Gateways : Reachable(g)' <=> Reachable(g)
         /\ \A r : NoReferences(r)' <=> NoReferences(r)
         /\ UNCHANGED <<exchange, retained>> => SharedExist'
<1>1. UNCHANGED <<history, head, handle, reuse, restore>>
  BY DEF local
<1>2. Commits' = Commits
  BY <1>1 DEF Commits
<1>3. ASSUME NEW g \in Gateways PROVE Reachable(g)' <=> Reachable(g)
  BY <1>1 DEF Reachable, Pinned, Refers
<1>4. ASSUME NEW r
      PROVE  (\A c \in RootCommits(r) : ~Refers(c)') <=> (\A c \in RootCommits(r) : ~Refers(c))
  BY <1>1 DEF Refers
<1>5. UNCHANGED <<exchange, retained>> => SharedExist'
  BY <1>1, HistoryStays, SharedStays DEF FenceInv
<1>. QED BY <1>1, <1>2, <1>3, <1>4, <1>5 DEF NoReferences, RootCommits

\* Wherever the converged head moves, and whatever is retained or selected, what
\* the gateways hold and what they attested stays.
LEMMA SharedStep ==
  ASSUME FenceInv, UNCHANGED <<history, local>>, UNCHANGED <<fence, scan, cleanup>>, SharedExist'
  PROVE  FenceInv'
<1>1. FenceTypes' /\ CommitsExist'
  BY HeldStays DEF FenceInv, FenceTypes, CommitsExist
<1>2. ScansAreFenced' /\ FencesHold'
  BY HeldStays DEF FenceInv, ScansAreFenced, FencesHold, Fenced
<1>3. AttestationsStand' /\ AuthorisedByAll'
  BY HeldStays DEF FenceInv, AttestationsStand, AuthorisedByAll
<1>. QED BY <1>1, <1>2, <1>3 DEF FenceInv

\* CommitConvergedVolumeHead and RestoreVolumeSnapshot, and create of a snapshot.
LEMMA MoveHeadKeeps ==
  ASSUME FenceInv,
         \/ Snapshot
         \/ \E c \in Commits : ConfirmPublication(c)
         \/ \E g \in Gateways : CommitConverged(g) \/ CommitRestore(g) \/ DropConvergence(g)
  PROVE  FenceInv'
<1>1. /\ UNCHANGED <<history, local>> /\ UNCHANGED <<fence, scan, cleanup>>
      /\ Commits' = Commits /\ SharedExist /\ CommitsExist
  <2>1. UNCHANGED <<history, local>> /\ UNCHANGED <<fence, scan, cleanup>>
    BY DEF Snapshot, ConfirmPublication, CommitConverged, CommitRestore, DropConvergence, MoveHead
  <2>. QED BY <2>1, HeldStays DEF FenceInv
<1>2. CASE Snapshot
  <2>1. SharedExist'
    BY <1>1, <1>2 DEF Snapshot, SharedExist, exchange
  <2>. QED BY <1>1, <2>1, SharedStep
<1>3. ASSUME NEW e, NEW c \in Commits, MoveHead(e, c) PROVE FenceInv'
  <2>1. SharedExist'
    BY <1>1, <1>3 DEF MoveHead, SharedExist, exchange
  <2>. QED BY <1>1, <2>1, SharedStep
<1>4. ASSUME NEW g \in Gateways, DropConvergence(g) PROVE FenceInv'
  <2>1. SharedExist'
    BY <1>1, <1>4 DEF DropConvergence, SharedExist, retained
  <2>. QED BY <1>1, <2>1, SharedStep
<1>5. ASSUME NEW c \in Commits, ConfirmPublication(c) PROVE FenceInv'
  BY <1>3, <1>5 DEF ConfirmPublication
<1>6. ASSUME NEW g \in Gateways, CommitConverged(g) PROVE FenceInv'
  BY <1>1, <1>3, <1>6 DEF CommitConverged, SharedExist
<1>7. ASSUME NEW g \in Gateways, CommitRestore(g) PROVE FenceInv'
  BY <1>1, <1>3, <1>7 DEF CommitRestore, CommitsExist
<1>. QED BY <1>2, <1>4, <1>5, <1>6, <1>7

\* A convergence selects a head or makes a merge, and no gateway holds it yet.
LEMMA PrepareConvergenceKeeps ==
  ASSUME FenceInv, NEW g \in Gateways, NEW c \in Commits, NEW refers \in BOOLEAN,
         PrepareConvergence(g, c, refers)
  PROVE  FenceInv'
<1>1. /\ FenceTypes /\ CommitsExist /\ SharedExist
      /\ UNCHANGED <<local, offered, fence, scan, retained, cleanup>>
  BY DEF FenceInv, PrepareConvergence
<1>2. {converged, c} \in SUBSET Commits
  BY <1>1 DEF SharedExist
<1>3. PICK s \in Nat :
        /\ HistoryGrows /\ s \in Commits'
        /\ job' = [job EXCEPT ![g] = [expected |-> converged, selected |-> s]]
  <2>1. \/ /\ UNCHANGED history
           /\ job' = [job EXCEPT ![g] = [expected |-> converged, selected |-> c]]
        \/ /\ Commit({converged, c}, refers)
           /\ job' = [job EXCEPT ![g] = [expected |-> converged, selected |-> NewCommit]]
    BY DEF PrepareConvergence
  <2>2. UNCHANGED history => HistoryGrows /\ Commits' = Commits /\ c \in Nat
    BY <1>1, HistoryStays DEF Commits
  <2>3. Commit({converged, c}, refers) =>
          HistoryGrows /\ NewCommit \in Nat /\ NewCommit \in Commits'
    BY <1>1, <1>2, CommitFacts
  <2>. QED BY <2>1, <2>2, <2>3
<1>4. SharedExist'
  <2>1. [expected |-> converged, selected |-> s] \in Jobs
    BY <1>1 DEF Jobs, SharedExist, Commits
  <2>. QED BY <1>1, <1>3, <2>1 DEF SharedExist, HistoryGrows, retained
<1>5. FenceTypes' /\ OthersStay(g) /\ head'[g] \in Commits' /\ (restore'[g] # None => restore'[g].commit \in Commits')
  BY <1>1, <1>3 DEF FenceTypes, OthersStay, CommitsExist, HistoryGrows, local
<1>6. GainsNothing(g)
  <2>1. /\ Refers(head[g])' <=> Refers(head[g])
        /\ restore[g] # None => (Refers(restore[g].commit)' <=> Refers(restore[g].commit))
    BY <1>1, <1>3 DEF CommitsExist, HistoryGrows, Refers, local
  <2>. QED BY <1>1, <2>1 DEF GainsNothing, Reachable, Pinned, local
<1>. QED BY <1>1, <1>3, <1>4, <1>5, <1>6, LocalStep

\* begin: the fence comes with the scan.
LEMMA BeginKeeps ==
  ASSUME FenceInv, NEW g \in Gateways, Begin(g)
  PROVE  FenceInv'
<1> DEFINE new == [roots |-> Roots, local |-> None, state |-> "Collecting"]
<1>1. /\ FenceTypes /\ UNCHANGED <<history, local>> /\ UNCHANGED <<exchange, retained>>
      /\ UNCHANGED cleanup
      /\ ~Fenced(g) /\ g \notin reuse
      /\ fence' = [fence EXCEPT ![g] = "Active"]
      /\ scan' = [scan EXCEPT ![g] = new]
  BY DEF FenceInv, Begin
<1>2. /\ new \in Scans /\ new.state = "Collecting"
      /\ RootCommits(new.roots) \subseteq Commits
  BY RootsExist DEF Scans, ScanStates
<1> HIDE DEF new
<1>3. /\ \A h \in Gateways : /\ scan'[h] = IF h = g THEN new ELSE scan[h]
                             /\ Fenced(h)' <=> h = g \/ Fenced(h)
      /\ FenceTypes'
  BY <1>1, <1>2, HeldStays DEF FenceTypes, Fenced
<1>4. CommitsExist' /\ SharedExist'
  BY <1>1, <1>2, <1>3, HeldStays DEF FenceInv, CommitsExist
<1>5. ScansAreFenced'
  BY <1>1, <1>3 DEF FenceInv, ScansAreFenced
<1>6. FencesHold'
  BY <1>1, <1>2, <1>3, HeldStays DEF FenceInv, FencesHold
<1>7. AttestationsStand'
  <2>1. ASSUME cleanup.state \in {"Pending", "Authorised"} PROVE g \notin cleanup.attested
    BY <1>1, <2>1 DEF FenceInv, AttestationsStand, ScansAreFenced
  <2>2. cleanup.attested \subseteq Gateways
    BY <1>1 DEF FenceTypes
  <2>. QED BY <1>1, <1>3, <2>1, <2>2, HeldStays DEF FenceInv, AttestationsStand
<1>8. AuthorisedByAll'
  BY <1>1, HeldStays DEF FenceInv, AuthorisedByAll
<1>. QED BY <1>3, <1>4, <1>5, <1>6, <1>7, <1>8 DEF FenceInv

\* complete_scan: a result that excludes the manifest is true when it is recorded.
LEMMA CompleteScanKeeps ==
  ASSUME FenceInv, NEW g \in Gateways, NEW state \in {"Scanning", "Reachable", "Unreachable"},
         scan[g].state \in {"Collecting", "Scanning"},
         state = "Unreachable" /\ g \notin reuse => ~Reachable(g) /\ NoReferences(scan[g].roots),
         CompleteScan(g, LocalRoots(g), state),
         UNCHANGED <<history, local, exchange, retained, cleanup>>
  PROVE  FenceInv'
<1>1. /\ FenceTypes /\ UNCHANGED <<history, local>> /\ UNCHANGED <<exchange, retained>>
      /\ UNCHANGED cleanup
      /\ scan' = [scan EXCEPT ![g].local = LocalRoots(g), ![g].state = state]
      /\ fence' = [fence EXCEPT ![g] = IF state = "Reachable" THEN "Released" ELSE @]
  BY DEF FenceInv, CompleteScan
<1>2. LocalRoots(g) \in Locals
  <2>1. head[g] \in Nat /\ restore[g] \in Restores \cup {None}
    BY <1>1 DEF FenceTypes
  <2>2. (g \in reuse) \in BOOLEAN
    OBVIOUS
  <2>. QED BY <2>1, <2>2, Zenon DEF LocalRoots, Locals
<1>3. /\ scan'[g].roots = scan[g].roots /\ scan'[g].state = state
      /\ \A h \in Gateways : h # g => scan'[h] = scan[h]
      /\ scan' \in [Gateways -> Scans]
  <2> DEFINE seen == LocalRoots(g)
  <2>1. seen \in Locals /\ scan' = [scan EXCEPT ![g].local = seen, ![g].state = state]
    BY <1>1, <1>2
  <2> HIDE DEF seen
  <2>2. scan \in [Gateways -> Scans] /\ scan[g] \in Scans
    BY <1>1 DEF FenceTypes
  <2>3. scan'[g] = [scan[g] EXCEPT !.local = seen, !.state = state]
        /\ \A h \in Gateways : h # g => scan'[h] = scan[h]
    BY <2>1, <2>2
  <2>4. scan'[g].roots = scan[g].roots /\ scan'[g].state = state /\ scan'[g] \in Scans
    BY <2>1, <2>2, <2>3 DEF Scans, ScanStates
  <2>. QED BY <2>1, <2>2, <2>3, <2>4
<1>4. /\ \A h \in Gateways : Fenced(h)' <=> Fenced(h) /\ ~(h = g /\ state = "Reachable")
      /\ fence' \in [Gateways -> {"None", "Active", "Released", "Retired"}]
  BY <1>1 DEF FenceTypes, Fenced
<1>5. FenceTypes'
  BY <1>1, <1>3, <1>4, HeldStays DEF FenceTypes
<1>6. CommitsExist' /\ SharedExist'
  <2>1. \A h \in Gateways : scan'[h].roots = scan[h].roots
    BY <1>3
  <2>. QED BY <1>1, <2>1, HeldStays DEF FenceInv, CommitsExist
<1>7. ScansAreFenced'
  BY <1>1, <1>3, <1>4 DEF FenceInv, ScansAreFenced
<1>8. FencesHold'
  BY <1>1, <1>3, <1>4, HeldStays DEF FenceInv, FencesHold
<1>9. AttestationsStand'
  <2>1. ASSUME cleanup.state \in {"Pending", "Authorised"} PROVE g \notin cleanup.attested
    BY <2>1 DEF FenceInv, AttestationsStand
  <2>2. cleanup.attested \subseteq Gateways
    BY <1>1 DEF FenceTypes
  <2>. QED BY <1>1, <1>3, <2>1, <2>2, HeldStays DEF FenceInv, AttestationsStand
<1>10. AuthorisedByAll'
  BY <1>1, HeldStays DEF FenceInv, AuthorisedByAll
<1>. QED BY <1>5, <1>6, <1>7, <1>8, <1>9, <1>10 DEF FenceInv

\* seal gives no result that excludes the manifest.
LEMMA SealKeeps ==
  ASSUME FenceInv, NEW g \in Gateways, Seal(g)
  PROVE  FenceInv'
<1>1. PICK state \in {"Scanning", "Reachable"} : CompleteScan(g, LocalRoots(g), state)
  BY DEF Seal
<1>. QED BY <1>1, CompleteScanKeeps DEF Seal

\* advance: the roots are the sealed ones, and none of them leads there.
LEMMA AdvanceKeeps ==
  ASSUME FenceInv, NEW g \in Gateways, Advance(g)
  PROVE  FenceInv'
<1>1. /\ scan[g].state = "Scanning" /\ scan[g].local = LocalRoots(g)
      /\ UNCHANGED <<history, local, exchange, retained, cleanup>>
  BY DEF Advance
<1>2. PICK state \in {"Reachable", "Unreachable"} :
        /\ CompleteScan(g, LocalRoots(g), state)
        /\ state = "Unreachable" => ~Pinned(g) /\ ~Reaches(scan[g])
  BY DEF Advance
<1>3. scan[g].local.restore = restore[g]
  BY <1>1 DEF LocalRoots
<1>4. ASSUME state = "Unreachable", g \notin reuse
      PROVE  ~Reachable(g) /\ NoReferences(scan[g].roots)
  BY <1>2, <1>3, <1>4 DEF Reachable, Reaches, NoReferences
<1>. QED BY <1>1, <1>2, <1>4, CompleteScanKeeps

\* propose, attest and authorise rest on scans that stand.
LEMMA ProposeKeeps ==
  ASSUME FenceInv, NEW g \in Gateways, Propose(g) \/ Attest(g)
  PROVE  FenceInv'
<1>1. /\ FenceTypes /\ UNCHANGED <<history, local>> /\ UNCHANGED <<fence, scan>>
      /\ UNCHANGED <<exchange, retained>>
      /\ scan[g].state = "Unreachable"
      /\ cleanup.state \in {"None", "Pending"}
  BY DEF FenceInv, Propose, Attest
<1>2. Fenced(g) /\ NoReferences(scan[g].roots)
  BY <1>1 DEF FenceInv, ScansAreFenced, FencesHold
<1>3. /\ cleanup'.state = "Pending" /\ cleanup'.roots = scan[g].roots
      /\ \A h \in cleanup'.attested : scan[h].state = "Unreachable"
      /\ FenceTypes'
  <2>1. CASE Propose(g)
    <3>1. cleanup' = [roots |-> Roots, attested |-> {}, state |-> "Pending"]
          /\ scan[g].roots = Roots
      BY <2>1 DEF Propose
    <3>. QED BY <1>1, <3>1, RootsExist, HeldStays DEF FenceTypes
  <2>2. CASE Attest(g)
    <3>1. cleanup' = [cleanup EXCEPT !.attested = @ \cup {g}]
          /\ cleanup.state = "Pending" /\ scan[g].roots = cleanup.roots
      BY <2>2 DEF Attest
    <3>2. \A h \in cleanup.attested : scan[h].state = "Unreachable"
      BY <3>1 DEF FenceInv, AttestationsStand
    <3>3. /\ cleanup'.state = "Pending" /\ cleanup'.roots = cleanup.roots
          /\ cleanup'.attested = cleanup.attested \cup {g}
          /\ cleanup' \in [roots : RootLists, attested : SUBSET Gateways,
                           state : {"None", "Pending", "Authorised", "Cancelled"}]
      BY <1>1, <3>1 DEF FenceTypes
    <3>. QED BY <1>1, <3>1, <3>2, <3>3, HeldStays DEF FenceTypes
  <2>. QED BY <2>1, <2>2
<1>4. CommitsExist' /\ SharedExist'
  BY <1>1, <1>3, HeldStays DEF FenceInv, CommitsExist
<1>5. ScansAreFenced' /\ FencesHold'
  BY <1>1, <1>3, HeldStays DEF FenceInv, ScansAreFenced, FencesHold, Fenced
<1>6. AttestationsStand' /\ AuthorisedByAll'
  BY <1>1, <1>2, <1>3, HeldStays DEF FenceInv, AttestationsStand, AuthorisedByAll
<1>. QED BY <1>3, <1>4, <1>5, <1>6 DEF FenceInv

\* authorise and cancel decide a pending cleanup.
LEMMA DecisionKeeps ==
  ASSUME FenceInv, Authorise \/ Cancel
  PROVE  FenceInv'
<1>1. /\ FenceTypes /\ UNCHANGED <<history, local>> /\ UNCHANGED <<fence, scan>>
      /\ UNCHANGED <<exchange, retained>>
      /\ cleanup.state = "Pending"
  BY DEF FenceInv, Authorise, Cancel
<1>2. PICK state \in {"Authorised", "Cancelled"} :
        /\ cleanup' = [cleanup EXCEPT !.state = state]
        /\ state = "Authorised" => cleanup.attested = Gateways
  BY DEF Authorise, Cancel
<1>3. /\ cleanup'.state = state /\ cleanup'.roots = cleanup.roots
      /\ cleanup'.attested = cleanup.attested /\ FenceTypes'
  BY <1>1, <1>2, HeldStays DEF FenceTypes
<1>4. CommitsExist' /\ SharedExist'
  BY <1>1, <1>3, HeldStays DEF FenceInv, CommitsExist
<1>5. ScansAreFenced' /\ FencesHold'
  BY <1>1, <1>3, HeldStays DEF FenceInv, ScansAreFenced, FencesHold, Fenced
<1>6. AttestationsStand' /\ AuthorisedByAll'
  BY <1>1, <1>2, <1>3, HeldStays DEF FenceInv, AttestationsStand, AuthorisedByAll
<1>. QED BY <1>3, <1>4, <1>5, <1>6 DEF FenceInv

\* A fence is released after a cancellation, or retired with the manifest.
LEMMA ReleaseKeeps ==
  ASSUME FenceInv, NEW g \in Gateways, Release(g) \/ Retire(g)
  PROVE  FenceInv'
<1>1. /\ FenceTypes /\ UNCHANGED <<history, local>> /\ UNCHANGED <<scan, cleanup>>
      /\ UNCHANGED <<exchange, retained>>
      /\ fence[g] = "Active"
  BY DEF FenceInv, Release, Retire
<1>2. PICK state \in {"Released", "Retired"} :
        /\ fence' = [fence EXCEPT ![g] = state]
        /\ state = "Released" => cleanup.state = "Cancelled"
  BY DEF Release, Retire
<1>3. /\ \A h \in Gateways : Fenced(h)' => Fenced(h)
      /\ cleanup.state # "Cancelled" => \A h \in Gateways : Fenced(h) => Fenced(h)'
      /\ FenceTypes'
  BY <1>1, <1>2, HeldStays DEF FenceTypes, Fenced
<1>4. CommitsExist' /\ SharedExist'
  BY <1>1, HeldStays DEF FenceInv, CommitsExist
<1>5. ScansAreFenced' /\ FencesHold'
  BY <1>1, <1>3, HeldStays DEF FenceInv, ScansAreFenced, FencesHold
<1>6. AttestationsStand' /\ AuthorisedByAll'
  BY <1>1, HeldStays DEF FenceInv, AttestationsStand, AuthorisedByAll
<1>. QED BY <1>3, <1>4, <1>5, <1>6 DEF FenceInv
-----------------------------------------------------------------------------
(* The theorem.                                                             *)

\* At first there is one commit without a reference, and no fence.
LEMMA InitFence == Init => FenceInv
<1> SUFFICES ASSUME Init PROVE FenceInv
  OBVIOUS
<1> DEFINE first == [past |-> {1}, refers |-> FALSE]
<1>1. history = <<first>> /\ first \in NamespaceCommits /\ ~first.refers
  <2>1. {1} \in SUBSET Nat /\ FALSE \in BOOLEAN
    OBVIOUS
  <2>2. first \in NamespaceCommits
    BY <2>1, Zenon DEF NamespaceCommits
  <2>. QED BY <2>2 DEF Init
<1> HIDE DEF first
<1>2. history \in Seq(NamespaceCommits) /\ Len(history) = 1 /\ history[1] = first
  BY <1>1
<1>3. Commits = {1} /\ ~Refers(1)
  BY <1>1, <1>2 DEF Commits, Refers
<1>4. FenceTypes
  <2>1. /\ head \in [Gateways -> Nat] /\ handle \subseteq Gateways /\ reuse \subseteq Gateways
        /\ restore \in [Gateways -> Restores \cup {None}]
        /\ fence \in [Gateways -> {"None", "Active", "Released", "Retired"}]
        /\ Roots \in RootLists
    BY DEF Init, Roots, RootLists
  <2>2. [roots |-> Roots, local |-> None, state |-> "None"] \in Scans
    BY <2>1 DEF Scans, ScanStates
  <2>3. scan \in [Gateways -> Scans]
    BY <2>2 DEF Init
  <2>4. cleanup \in [roots : RootLists, attested : SUBSET Gateways,
                     state : {"None", "Pending", "Authorised", "Cancelled"}]
    BY <2>1 DEF Init
  <2>. QED BY <1>2, <2>1, <2>3, <2>4 DEF FenceTypes
<1>5. CommitsExist /\ SharedExist
  <2>1. SharedExist
    BY <1>3 DEF Init, SharedExist
  <2>2. RootCommits(Roots) = {1}
    BY DEF Init, Roots, RootCommits
  <2>. QED BY <1>3, <2>1, <2>2 DEF Init, CommitsExist
<1>6. ScansAreFenced /\ FencesHold
  BY DEF Init, ScansAreFenced, FencesHold, Fenced
<1>7. AttestationsStand /\ AuthorisedByAll
  BY DEF Init, AttestationsStand, AuthorisedByAll
<1>. QED BY <1>4, <1>5, <1>6, <1>7 DEF FenceInv

\* Every step keeps FenceInv, save the adoption that is excluded.
LEMMA NextFence == FenceInv /\ [Next /\ ~FencedAdoption]_vars => FenceInv'
<1> SUFFICES ASSUME FenceInv, [Next /\ ~FencedAdoption]_vars PROVE FenceInv'
  OBVIOUS
<1>1. ASSUME NEW g \in Gateways, Serve(g), ~FencedAdoption PROVE FenceInv'
  BY <1>1, PublishKeeps, AdoptKeeps, PinKeeps, PrepareRestoreKeeps, ActivateRestoreKeeps DEF Serve
<1>2. ASSUME NEW g \in Gateways, Converge(g), ~FencedAdoption PROVE FenceInv'
  BY <1>2, PrepareConvergenceKeeps, FinishConvergenceKeeps, MoveHeadKeeps DEF Converge
<1>3. ASSUME NEW g \in Gateways, Collect(g) PROVE FenceInv'
  BY <1>3, BeginKeeps, SealKeeps, AdvanceKeeps, ProposeKeeps, ReleaseKeeps DEF Collect
<1>4. CASE UNCHANGED vars
  <2>1. UNCHANGED <<history, local>> /\ UNCHANGED <<fence, scan, cleanup>>
        /\ UNCHANGED <<exchange, retained>>
    BY <1>4 DEF vars
  <2>. QED BY <2>1, HeldStays, SharedStep
<1>. QED BY <1>1, <1>2, <1>3, <1>4, DecisionKeeps, MoveHeadKeeps DEF Next

\* FenceInv says that no gateway reaches what is deleted.
LEMMA FenceIsSafe ==
  ASSUME FenceInv PROVE NothingReachableIsDeleted
<1> SUFFICES ASSUME cleanup.state = "Authorised" PROVE \A g \in Gateways : ~Reachable(g)
  BY DEF NothingReachableIsDeleted
<1>1. \A g \in Gateways : scan[g].state = "Unreachable" /\ Fenced(g)
  BY DEF FenceInv, AuthorisedByAll, AttestationsStand, ScansAreFenced
<1>. QED BY <1>1 DEF FenceInv, FencesHold

\* No gateway can reach what is deleted in any execution in which no fenced
\* gateway gains a reference by adopting a head (reject_manifest_identity,
\* process_work, attest, authorise): whatever is published, merged, opened,
\* reserved or restored between the scans, whatever proposals are cancelled, and
\* wherever the converged head moves, even to a commit with a reference.
THEOREM AdoptingDeletionsAreSafe == AdoptingSpec => []NothingReachableIsDeleted
BY InitFence, NextFence, FenceIsSafe, PTL DEF AdoptingSpec
-----------------------------------------------------------------------------
(* The retained roots.                                                      *)

\* What a step may do to them and to the cleanup.
RetainsMore ==
  /\ HistoryGrows
  /\ converged' = converged \/ UNCHANGED history
  /\ snapshots' \subseteq snapshots \cup {converged}
  /\ cleanup'.state = "Authorised" => cleanup.state = "Authorised" \/ Authorise

\* Commits are added, the converged head moves to a commit that was there, a
\* snapshot is one of the converged head, and only authorise authorises.
LEMMA StepRetains ==
  ASSUME FenceInv, [Next]_vars
  PROVE  RetainsMore
<1>1. FenceTypes /\ CommitsExist /\ SharedExist
  BY DEF FenceInv
<1>2. ASSUME UNCHANGED history PROVE HistoryGrows
  BY <1>1, <1>2, HistoryStays
<1>3. ASSUME NEW g \in Gateways, Serve(g) PROVE RetainsMore
  <2>1. UNCHANGED <<retained, cleanup>>
    BY <1>3 DEF Serve, Publish, Adopt, PrepareRestore, Open, Close, ReserveReuse, CancelReuse,
                ActivateRestore
  <2>2. HistoryGrows
    <3>1. {head[g]} \in SUBSET Commits
      BY <1>1 DEF CommitsExist
    <3>2. ASSUME NEW refers \in BOOLEAN, Commit({head[g]}, refers) PROVE HistoryGrows
      BY <1>1, <3>1, <3>2, CommitFacts
    <3>3. \A c \in Commits : Refers(c) \in BOOLEAN
      <4>1. \A c \in Commits : history[c] \in NamespaceCommits
        BY <1>1, ElementOfSeq DEF FenceTypes, Commits
      <4>. QED BY <4>1 DEF Refers, NamespaceCommits
    <3>4. \/ UNCHANGED history
          \/ \E refers \in BOOLEAN : Commit({head[g]}, refers)
      BY <1>3, <3>3 DEF Serve, Publish, Adopt, PrepareRestore, Open, Close, ReserveReuse,
                        CancelReuse, ActivateRestore
    <3>. QED BY <1>2, <3>2, <3>4
  <2>. QED BY <2>1, <2>2 DEF RetainsMore, retained
<1>4. ASSUME NEW g \in Gateways, Converge(g) PROVE RetainsMore
  <2>1. UNCHANGED <<snapshots, cleanup>> /\ (converged' = converged \/ UNCHANGED history)
    BY <1>4 DEF Converge, PrepareConvergence, CommitConverged, FinishConvergence,
                DropConvergence, CommitRestore, MoveHead, retained
  <2>2. HistoryGrows
    <3>1. ASSUME NEW c \in Commits, NEW refers \in BOOLEAN, Commit({converged, c}, refers)
          PROVE  HistoryGrows
      <4>1. {converged, c} \in SUBSET Commits
        BY <1>1 DEF SharedExist
      <4>. QED BY <1>1, <3>1, <4>1, CommitFacts
    <3>2. \/ UNCHANGED history
          \/ \E c \in Commits, refers \in BOOLEAN : Commit({converged, c}, refers)
      BY <1>4 DEF Converge, PrepareConvergence, CommitConverged, FinishConvergence,
                  DropConvergence, CommitRestore, MoveHead
    <3>. QED BY <1>2, <3>1, <3>2
  <2>. QED BY <2>1, <2>2 DEF RetainsMore
<1>5. ASSUME NEW g \in Gateways, Collect(g) PROVE RetainsMore
  <2>1. UNCHANGED history /\ UNCHANGED snapshots
    BY <1>5 DEF Collect, Begin, Seal, Advance, Propose, Attest, Release, Retire, retained
  <2>2. cleanup'.state = "Authorised" => cleanup.state = "Authorised"
    <3>1. CASE Propose(g)
      BY <3>1 DEF Propose
    <3>2. CASE Attest(g)
      BY <1>1, <3>2 DEF Attest, FenceTypes
    <3>3. CASE Begin(g) \/ Seal(g) \/ Advance(g) \/ Release(g) \/ Retire(g)
      BY <3>3 DEF Begin, Seal, Advance, Release, Retire
    <3>. QED BY <1>5, <3>1, <3>2, <3>3 DEF Collect
  <2>. QED BY <1>2, <2>1, <2>2 DEF RetainsMore
<1>6. ASSUME NEW c \in Commits, ConfirmPublication(c) PROVE RetainsMore
  BY <1>2, <1>6 DEF RetainsMore, ConfirmPublication, MoveHead
<1>7. CASE Snapshot
  BY <1>2, <1>7 DEF RetainsMore, Snapshot
<1>8. CASE Authorise
  BY <1>2, <1>8 DEF RetainsMore, Authorise, retained
<1>9. CASE Cancel
  BY <1>1, <1>2, <1>9 DEF RetainsMore, Cancel, retained, FenceTypes
<1>10. CASE UNCHANGED vars
  BY <1>2, <1>10 DEF RetainsMore, vars, retained
<1>. QED BY <1>3, <1>4, <1>5, <1>6, <1>7, <1>8, <1>9, <1>10 DEF Next

\* The roots of an authorised deletion were the scanned ones; then only a
\* snapshot of the converged head is added.
LEMMA NextRetained ==
  FenceInv /\ NothingRetainedIsDeleted /\ [Next /\ ~LateConvergence]_vars
    => NothingRetainedIsDeleted'
<1> SUFFICES ASSUME FenceInv, NothingRetainedIsDeleted, [Next /\ ~LateConvergence]_vars,
                    cleanup'.state = "Authorised"
             PROVE  ~Refers(converged)' /\ \A c \in snapshots' : ~Refers(c)'
  BY DEF NothingRetainedIsDeleted, Roots, RootCommits
<1>1. RetainsMore
  BY StepRetains
<1>2. CASE Authorise
  <2>1. /\ cleanup.state = "Pending" /\ cleanup.roots = Roots
        /\ UNCHANGED <<history, converged, snapshots>>
    BY <1>2 DEF Authorise, retained
  <2>2. NoReferences(Roots)
    BY <2>1 DEF FenceInv, AttestationsStand
  <2>. QED BY <2>1, <2>2 DEF NoReferences, Roots, RootCommits, Refers
<1>3. CASE cleanup.state = "Authorised"
  <2>1. /\ converged \in Commits /\ ~Refers(converged)
        /\ \A c \in snapshots : c \in Commits /\ ~Refers(c)
    BY <1>3 DEF NothingRetainedIsDeleted, Roots, RootCommits, FenceInv, SharedExist
  <2>2. ~history'[converged].refers /\ \A c \in snapshots : ~history'[c].refers
    BY <1>1, <2>1 DEF RetainsMore, HistoryGrows, Refers
  <2>3. converged' = converged \/ ~Refers(converged)'
    BY <1>1, <1>3 DEF RetainsMore, LateConvergence, Refers, vars, retained
  <2>. QED BY <1>1, <2>2, <2>3 DEF RetainsMore, Refers
<1>. QED BY <1>1, <1>2, <1>3 DEF RetainsMore

\* When no fenced gateway adopts a reference, and the converged head is not moved
\* to one after the deletion is authorised, nothing that is retained is deleted
\* either: neither the converged head nor a snapshot refers to the manifest, for
\* the roots that authorise compares are those every scan walked.
THEOREM CarefulDeletionsAreSafe ==
  CarefulSpec => [](NothingReachableIsDeleted /\ NothingRetainedIsDeleted)
<1>1. Init => NothingRetainedIsDeleted
  BY DEF Init, NothingRetainedIsDeleted
<1>2. [Next /\ ~FencedAdoption /\ ~LateConvergence]_vars =>
        [Next /\ ~FencedAdoption]_vars /\ [Next /\ ~LateConvergence]_vars
  OBVIOUS
<1>. QED BY <1>1, <1>2, InitFence, NextFence, NextRetained, FenceIsSafe, PTL DEF CarefulSpec
=============================================================================
