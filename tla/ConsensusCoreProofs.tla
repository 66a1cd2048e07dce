------------------------ MODULE ConsensusCoreProofs ------------------------
(***************************************************************************)
(* Proofs about ConsensusCore for every plan whose quorum families have    *)
(* the intersections compile_plan demands, any number of members, terms,   *)
(* entries, reads and restarts: types, election safety and the durable     *)
(* contract.                                                               *)
(*                                                                         *)
(* OneLeaderPerTerm is not inductive: it says nothing of candidates, of    *)
(* tallies, nor of the votes behind them.  ElectionEvidence is.  The proof *)
(* splits every action into what it does to durable votes and messages     *)
(* (ElectionStep) and what it does to tallies (BallotsAreReal').           *)
(*                                                                         *)
(* It gives the durable contract as well: every mutation the core asks for *)
(* is one persist_consensus_mutation accepts.                              *)
(***************************************************************************)
EXTENDS ConsensusCore, WellFoundedInduction, TLAPS

-----------------------------------------------------------------------------
(* What the helpers on logs and messages return.                            *)

\* The position of an index inside a log is a LogPosition.
LEMMA PositionType ==
  ASSUME NEW s \in Seq(Entry), NEW i \in Nat, i <= Len(s)
  PROVE  /\ Position(s, i) \in LogPosition
         /\ Position(s, i).index = i
<1>1. i # 0 => s[i] \in Entry
  OBVIOUS
<1> QED
  BY <1>1 DEF Position, LogPosition, Entry

\* A prefix of a log is a log of that length.
LEMMA PrefixType ==
  ASSUME NEW s \in Seq(Entry), NEW i \in Nat, i <= Len(s)
  PROVE  /\ Prefix(s, i) \in Seq(Entry)
         /\ Len(Prefix(s, i)) = i
BY DEF Prefix

\* A batch is a run of entries that ends inside the log.
LEMMA BatchType ==
  ASSUME NEW s \in Seq(Entry), NEW i \in Nat \ {0}, i <= Len(s) + 1
  PROVE  /\ Batch(s, i, MaxAppendEntries) \in Seq(Entry)
         /\ i - 1 + Len(Batch(s, i, MaxAppendEntries)) <= Len(s)
<1> DEFINE last == Min2(Len(s), i + MaxAppendEntries - 1)
<1>1. MaxAppendEntries \in Nat \ {0}
  BY ValueAssumption
<1>2. Len(s) \in Nat /\ last \in Nat /\ last <= Len(s)
  BY <1>1 DEF Min2
<1>3. \A j \in i..last : j \in 1..Len(s)
  BY <1>2
<1>4. SubSeq(s, i, last) \in Seq(Entry)
  BY <1>2, <1>3
<1>5. Len(SubSeq(s, i, last)) = IF i <= last THEN last - i + 1 ELSE 0
  BY <1>2
<1> QED
  BY <1>2, <1>4, <1>5 DEF Batch

\* An acceptance proves a position: the end of the batch.
LEMMA ThroughType ==
  ASSUME NEW previous \in LogPosition, NEW entries \in Seq(Entry)
  PROVE  /\ Through(previous, entries) \in LogPosition
         /\ Through(previous, entries).index = previous.index + Len(entries)
<1>1. CASE entries = <<>>
  BY <1>1 DEF Through, LogPosition
<1>2. CASE entries # <<>>
  <2>1. Len(entries) \in Nat /\ Len(entries) > 0 /\ entries[Len(entries)] \in Entry
    BY <1>2
  <2> QED
    BY <1>2, <2>1 DEF Through, LogPosition, Entry
<1> QED
  BY <1>1, <1>2
-----------------------------------------------------------------------------
(* The requests a leader sends.                                             *)

\* A replication request of n in this term that stays inside a log of this length.
IsReplication(m, n, term, peers, length) ==
  /\ m \in Message
  /\ m.type = "AppendRequest"
  /\ m.from = n
  /\ m.to \in peers
  /\ m.term = term
  /\ m.probe_id \in Nat
  /\ m.previous \in LogPosition
  /\ m.entries \in Seq(Entry)
  /\ m.previous.index + Len(m.entries) <= length

\* An append request built from typed parts is a message.
LEMMA AppendRequestType ==
  ASSUME NEW n \in Members, NEW to \in Members, NEW term \in Nat,
         NEW kind \in {"Replication", "Contact"}, NEW id \in Nat \cup {None},
         NEW previous \in LogPosition, NEW entries \in Seq(Entry), NEW commit \in Nat,
         NEW barrier \in ReadBarrierId \cup {None}
  PROVE  AppendRequest(n, to, term, kind, id, previous, entries, commit, barrier) \in Message
BY DEF AppendRequest, Message

\* The requests of a replication round (probe_effect) are messages.
LEMMA ReplicateType ==
  ASSUME NEW n \in Members, NEW term \in Nat, NEW s \in Seq(Entry), NEW commit \in Nat,
         NEW ls \in LeaderState, NEW peers \in SUBSET Members,
         WithinLog(ls, Len(s)), next_append_probe_id[n] \in Nat
  PROVE  \A m \in Replicate(n, term, s, commit, ls, peers) :
            IsReplication(m, n, term, peers, Len(s))
<1> DEFINE previous(p) == Position(s, ls.next[p] - 1)
           entries(p)  == Batch(s, ls.next[p], MaxAppendEntries)
           existing(p) == Existing(ls.probes[p], previous(p), Through(previous(p), entries(p)))
           id(p) == IF existing(p) = {} THEN next_append_probe_id[n]
                    ELSE (CHOOSE e \in existing(p) : TRUE).id
<1>1. SUFFICES ASSUME NEW p \in peers
               PROVE  IsReplication(AppendRequest(n, p, term, "Replication", id(p), previous(p),
                                                  entries(p), commit, None),
                                    n, term, peers, Len(s))
  BY DEF Replicate
<1>2. ls.next[p] \in Nat \ {0} /\ ls.next[p] <= Len(s) + 1 /\ ls.probes[p] \subseteq Probe
  BY DEF LeaderState, WithinLog
<1>3. previous(p) \in LogPosition /\ previous(p).index = ls.next[p] - 1
  <2>1. ls.next[p] - 1 \in Nat /\ ls.next[p] - 1 <= Len(s)
    BY <1>2
  <2> QED
    BY <2>1, PositionType
<1>4. entries(p) \in Seq(Entry) /\ ls.next[p] - 1 + Len(entries(p)) <= Len(s)
  BY <1>2, BatchType
<1>5. id(p) \in Nat
  <2>1. CASE existing(p) = {}
    BY <2>1
  <2>2. CASE existing(p) # {}
    <3>1. (CHOOSE e \in existing(p) : TRUE) \in existing(p)
      BY <2>2
    <3>2. existing(p) \subseteq Probe
      BY <1>2 DEF Existing
    <3> QED
      BY <2>2, <3>1, <3>2 DEF Probe
  <2> QED
    BY <2>1, <2>2
<1> HIDE DEF previous, entries, id
<1>6. AppendRequest(n, p, term, "Replication", id(p), previous(p), entries(p), commit, None) \in Message
  BY <1>3, <1>4, <1>5, AppendRequestType
<1> QED
  BY <1>3, <1>4, <1>5, <1>6 DEF IsReplication, AppendRequest

\* The contacts of a round (probe_effect) are messages.
LEMMA ContactType ==
  ASSUME NEW n \in Members, NEW term \in Nat, NEW s \in Seq(Entry), NEW commit \in Nat,
         NEW ls \in LeaderState, NEW peers \in SUBSET Members,
         NEW id \in Nat \cup {None}, NEW barrier \in ReadBarrierId \cup {None},
         WithinLog(ls, Len(s))
  PROVE  \A m \in Contact(n, term, s, commit, ls, peers, id, barrier) :
            m \in Message /\ m.type = "AppendRequest" /\ m.from = n /\ m.term = term
<1>1. SUFFICES ASSUME NEW p \in peers
               PROVE  LET m == AppendRequest(n, p, term, "Contact", id, Position(s, ls.matched[p]),
                                             <<>>, commit, barrier)
                      IN  m \in Message /\ m.type = "AppendRequest" /\ m.from = n /\ m.term = term
  BY DEF Contact
<1>2. Position(s, ls.matched[p]) \in LogPosition
  BY PositionType DEF LeaderState, WithinLog
<1>3. <<>> \in Seq(Entry)
  OBVIOUS
<1>4. AppendRequest(n, p, term, "Contact", id, Position(s, ls.matched[p]), <<>>, commit, barrier)
        \in Message
  BY <1>2, <1>3, AppendRequestType
<1> QED
  BY <1>4 DEF AppendRequest

\* Recording requests as outstanding keeps the leader's state typed and bounded.
LEMMA SentType ==
  ASSUME NEW n, NEW term, NEW peers, NEW length \in Nat, NEW ls \in LeaderState, NEW requests,
         WithinLog(ls, length),
         \A m \in requests : IsReplication(m, n, term, peers, length)
  PROVE  Sent(ls, requests) \in LeaderState /\ WithinLog(Sent(ls, requests), length)
<1> DEFINE sent(p) == {ProbeOf(m) : m \in {r \in requests : r.to = p}}
<1>1. ASSUME NEW p
      PROVE  \A probe \in sent(p) : /\ probe \in Probe
                                    /\ probe.previous.index <= length
                                    /\ probe.through.index <= length
  <2>1. SUFFICES ASSUME NEW m \in requests
                 PROVE  /\ ProbeOf(m) \in Probe
                        /\ ProbeOf(m).previous.index <= length
                        /\ ProbeOf(m).through.index <= length
    OBVIOUS
  <2>2. /\ m.probe_id \in Nat /\ m.previous \in LogPosition /\ m.entries \in Seq(Entry)
        /\ m.previous.index + Len(m.entries) <= length
    BY DEF IsReplication
  <2>3. /\ Through(m.previous, m.entries) \in LogPosition
        /\ Through(m.previous, m.entries).index = m.previous.index + Len(m.entries)
    BY <2>2, ThroughType
  <2>4. m.previous.index \in Nat /\ Len(m.entries) \in Nat
    BY <2>2 DEF LogPosition
  <2> QED
    BY <2>2, <2>3, <2>4 DEF ProbeOf, Probe
<1> DEFINE probes == [p \in Members |-> ls.probes[p] \cup sent(p)]
           latest == [p \in Members |-> IF sent(p) = {} THEN ls.latest[p]
                                        ELSE (CHOOSE probe \in sent(p) : TRUE).id]
<1>2. probes \in [Members -> SUBSET Probe]
  BY <1>1 DEF LeaderState
<1>3. latest \in [Members -> Nat \cup {None}]
  <2>1. SUFFICES ASSUME NEW p \in Members PROVE latest[p] \in Nat \cup {None}
    OBVIOUS
  <2>2. CASE sent(p) = {}
    BY <2>2 DEF LeaderState
  <2>3. CASE sent(p) # {}
    <3>1. (CHOOSE probe \in sent(p) : TRUE) \in sent(p)
      BY <2>3
    <3>2. (CHOOSE probe \in sent(p) : TRUE) \in Probe
      BY <3>1, <1>1
    <3> QED
      BY <2>3, <3>2 DEF Probe
  <2> QED
    BY <2>2, <2>3
<1>4. Sent(ls, requests) = [ls EXCEPT !.probes = probes, !.latest = latest]
  BY DEF Sent
<1> HIDE DEF probes, latest
<1>5. Sent(ls, requests) \in LeaderState
  BY <1>2, <1>3, <1>4 DEF LeaderState
<1>6. /\ Sent(ls, requests).matched = ls.matched
      /\ Sent(ls, requests).next = ls.next
      /\ Sent(ls, requests).probes = probes
  BY <1>4 DEF LeaderState
<1>7. \A p \in Members : \A probe \in probes[p] :
         probe.previous.index <= length /\ probe.through.index <= length
  BY <1>1 DEF probes, WithinLog
<1> QED
  BY <1>5, <1>6, <1>7 DEF WithinLog
-----------------------------------------------------------------------------
(* What the leader's handlers compute.                                      *)

\* A bounded set of naturals has a largest element.
LEMMA MaximumExists ==
  ASSUME NEW bound \in Nat, NEW S \in SUBSET (0..bound), S # {}
  PROVE  \E i \in S : \A j \in S : j <= i
<1> DEFINE T == {bound - i : i \in S}
           R == {ss \in Nat \X Nat : ss[1] < ss[2]}
<1>1. T \subseteq Nat /\ T # {}
  <2>1. \A i \in S : bound - i \in Nat
    OBVIOUS
  <2>2. PICK i \in S : TRUE
    OBVIOUS
  <2> QED
    BY <2>1, <2>2
<1>2. IsWellFoundedOn(R, Nat)
  BY NatLessThanWellFounded DEF OpToRel
<1>3. \E x \in T : \A y \in T : ~(<<y, x>> \in R)
  <2> HIDE DEF T, R
  <2> QED BY <1>1, <1>2, WFMin
<1>4. PICK x \in T : \A y \in T : ~(<<y, x>> \in R)
  BY <1>3
<1>5. PICK i \in S : x = bound - i
  OBVIOUS
<1>6. \A j \in S : j <= i
  <2>1. SUFFICES ASSUME NEW j \in S PROVE ~(i < j)
    OBVIOUS
  <2>2. bound - j \in T /\ bound - j \in Nat /\ x \in Nat
    BY <1>1
  <2>3. ~(bound - j < x)
    BY <1>4, <2>2
  <2> QED
    BY <2>2, <2>3, <1>5
<1> QED
  BY <1>6

\* The leader's commit index never goes back and never passes its log.
LEMMA LeaderCommitType ==
  ASSUME NEW term, NEW s \in Seq(Entry), NEW commit \in Nat, commit <= Len(s), NEW matched
  PROVE  /\ LeaderCommit(term, s, commit, matched) \in Nat
         /\ commit <= LeaderCommit(term, s, commit, matched)
         /\ LeaderCommit(term, s, commit, matched) <= Len(s)
<1> DEFINE candidates == {i \in commit + 1..Len(s) :
                            /\ s[i].term = term
                            /\ Satisfies(CommitQuorums, {p \in Members : matched[p] >= i})}
           result == CHOOSE i \in candidates : \A j \in candidates : j <= i
<1>1. CASE candidates = {}
  BY <1>1 DEF LeaderCommit
<1>2. CASE candidates # {}
  <2>1. Len(s) \in Nat /\ candidates \in SUBSET (0..Len(s))
    OBVIOUS
  <2>2. \E i \in candidates : \A j \in candidates : j <= i
    <3> HIDE DEF candidates
    <3> QED BY <1>2, <2>1, MaximumExists
  <2>3. result \in candidates
    BY <2>2
  <2>4. LeaderCommit(term, s, commit, matched) = result
    BY <1>2 DEF LeaderCommit
  <2> QED
    BY <2>1, <2>3, <2>4
<1> QED
  BY <1>1, <1>2

\* The state a new leader starts with (become_leader) is typed.
LEMMA FreshLeaderType ==
  ASSUME NEW n \in Members, NEW last \in Nat
  PROVE  FreshLeader(n, last) \in LeaderState /\ WithinLog(FreshLeader(n, last), last)
BY DEF FreshLeader, LeaderState, WithinLog

\* complete_read_barriers touches nothing of the leader's state but the barriers.
LEMMA CompleteReadBarriersType ==
  ASSUME NEW n \in Members, NEW term, NEW s, NEW commit \in Nat, NEW applied \in Nat,
         NEW ls \in LeaderState, NEW length \in Nat, WithinLog(ls, length),
         leader \in [Members -> LeaderState \cup {None}],
         CompleteReadBarriers(n, term, s, commit, applied, ls)
  PROVE  /\ leader' \in [Members -> LeaderState \cup {None}]
         /\ \A x \in Members : x # n => leader'[x] = leader[x]
         /\ leader'[n] \in LeaderState
         /\ WithinLog(leader'[n], length)
         /\ ready' \subseteq [floor : Nat, index : Nat]
<1> DEFINE fixed == FixRequired(term, s, commit, ls.read_barriers)
           completed == ReadyBarriers(term, s, commit, applied, fixed)
           barriers == [b \in ReadBarrierId |-> IF b \in completed THEN None ELSE fixed[b]]
<1>1. ls.read_barriers \in [ReadBarrierId -> Barrier \cup {None}]
  BY DEF LeaderState
<1>2. fixed \in [ReadBarrierId -> Barrier \cup {None}]
  BY <1>1 DEF FixRequired, Barrier
<1>3. \A b \in completed : fixed[b] \in Barrier /\ fixed[b].required \in Nat
  BY <1>1, <1>2 DEF ReadyBarriers, FixRequired, Barrier
<1>4. barriers \in [ReadBarrierId -> Barrier \cup {None}]
  BY <1>2
<1>5. /\ leader' = [leader EXCEPT ![n] = [ls EXCEPT !.read_barriers = barriers]]
      /\ ready' = {[floor |-> fixed[b].floor, index |-> fixed[b].required] : b \in completed}
  BY DEF CompleteReadBarriers
<1> HIDE DEF fixed, completed, barriers
<1>6. [ls EXCEPT !.read_barriers = barriers] \in LeaderState
  BY <1>4 DEF LeaderState
<1>7. WithinLog([ls EXCEPT !.read_barriers = barriers], length)
  BY DEF LeaderState, WithinLog
<1>8. ready' \subseteq [floor : Nat, index : Nat]
  BY <1>3, <1>5 DEF Barrier
<1> QED
  BY <1>5, <1>6, <1>7, <1>8

\* What an answer teaches the leader stays inside its log.
LEMMA ProgressType ==
  ASSUME NEW ls \in LeaderState, NEW p \in Members, NEW length \in Nat, WithinLog(ls, length),
         NEW probe \in ls.probes[p], NEW m, m.next_index_hint \in Nat
  PROVE  Progress(ls, p, probe, m) \in LeaderState /\ WithinLog(Progress(ls, p, probe, m), length)
<1> DEFINE probes == [ls.probes EXCEPT ![p] = @ \ {probe}]
           matched == Max2(ls.matched[p], probe.through.index)
           ahead == Max2(ls.next[p], matched + 1)
           back == Max2(ls.matched[p] + 1,
                        Min2(Min2(m.next_index_hint, probe.previous.index), ls.next[p] - 1))
           answered == [ls EXCEPT !.probes = probes]
<1>1. /\ probe \in Probe
      /\ probe.previous.index \in Nat /\ probe.previous.index <= length
      /\ probe.through.index \in Nat /\ probe.through.index <= length
  BY DEF LeaderState, WithinLog, Probe, LogPosition
<1>2. /\ ls.matched[p] \in Nat /\ ls.matched[p] <= length
      /\ ls.next[p] \in Nat \ {0} /\ ls.next[p] <= length + 1
  BY DEF LeaderState, WithinLog
<1>3. matched \in Nat /\ matched <= length
  BY <1>1, <1>2 DEF Max2
<1>4. ahead \in Nat \ {0} /\ ahead <= length + 1
  BY <1>2, <1>3 DEF Max2
<1>5. back \in Nat \ {0} /\ back <= length + 1
  BY <1>1, <1>2 DEF Max2, Min2
<1>6. /\ probes \in [Members -> SUBSET Probe]
      /\ \A q \in Members : probes[q] \subseteq ls.probes[q]
  BY DEF LeaderState
<1> DEFINE accepted == [answered EXCEPT !.matched[p] = matched,
                                        !.next[p] = ahead]
           conflict == [answered EXCEPT !.next[p] = back]
<1>7. Progress(ls, p, probe, m) \in {answered, accepted, conflict}
  BY DEF Progress, LeaderState
<1> HIDE DEF probes, matched, ahead, back
<1>8. answered \in LeaderState /\ WithinLog(answered, length)
  BY <1>6 DEF LeaderState, WithinLog
<1>9. accepted \in LeaderState /\ WithinLog(accepted, length)
  BY <1>3, <1>4, <1>6 DEF LeaderState, WithinLog
<1>10. conflict \in LeaderState /\ WithinLog(conflict, length)
  BY <1>5, <1>6 DEF LeaderState, WithinLog
<1> QED
  BY <1>7, <1>8, <1>9, <1>10

\* log_delta never cuts a log below its commit index.
LEMMA AppendDeltaType ==
  ASSUME NEW s \in Seq(Entry), NEW previous \in Nat, previous <= Len(s),
         NEW incoming \in Seq(Entry), NEW commit \in Nat, commit <= Len(s),
         ~DeltaConflictsWithCommit(s, commit, previous, incoming)
  PROVE  /\ AppendDelta(s, previous, incoming) \in Seq(Entry)
         /\ commit <= Len(AppendDelta(s, previous, incoming))
<1>1. CASE FreshOffsets(s, previous, incoming) = {}
  BY <1>1 DEF AppendDelta
<1>2. CASE FreshOffsets(s, previous, incoming) # {}
  <2>1. Len(s) \in Nat /\ Len(incoming) \in Nat
    OBVIOUS
  <2>2. Prefix(s, previous) \in Seq(Entry) /\ Len(Prefix(s, previous)) = previous
    BY PrefixType
  <2>3. /\ AppendDelta(s, previous, incoming) \in Seq(Entry)
        /\ Len(AppendDelta(s, previous, incoming)) = previous + Len(incoming)
    BY <1>2, <2>2 DEF AppendDelta
  <2>4. PICK k \in FreshOffsets(s, previous, incoming) : TRUE
    BY <1>2
  <2>5. k \in 1..Len(incoming) /\ ~(previous + k <= Len(s) /\ previous + k <= commit)
    BY DEF FreshOffsets, DeltaConflictsWithCommit
  <2> QED
    BY <2>1, <2>3, <2>5
<1> QED
  BY <1>1, <1>2
-----------------------------------------------------------------------------
(* The type invariant.                                                      *)

\* What the fields of each kind of message are.
LEMMA MessageFields ==
  ASSUME NEW m \in Message
  PROVE  /\ m.from \in Members /\ m.to \in Members /\ m.term \in Nat
         /\ m.type = "VoteRequest" => m.last_log \in LogPosition
         /\ m.type = "VoteResponse" => m.granted \in BOOLEAN
         /\ m.type = "AppendRequest" =>
              /\ m.kind \in {"Replication", "Contact"}
              /\ m.probe_id \in Nat \cup {None}
              /\ m.previous \in LogPosition
              /\ m.entries \in Seq(Entry)
              /\ m.leader_commit_index \in Nat
              /\ m.read_barrier_id \in ReadBarrierId \cup {None}
         /\ m.type = "AppendResponse" =>
              /\ m.probe_id \in Nat \cup {None}
              /\ m.next_index_hint \in Nat
              /\ m.read_barrier_id \in ReadBarrierId \cup {None}
BY DEF Message

\* A step of n leaves the leader's state of every other member alone.
LEMMA LeadersTyped ==
  ASSUME TypeOK, NEW n \in Members,
         \A x \in Members : x # n => role'[x] = role[x] /\ leader'[x] = leader[x] /\ log'[x] = log[x],
         role'[n] # "Leader" => leader'[n] = None,
         role'[n] = "Leader" => leader'[n] \in LeaderState /\ WithinLog(leader'[n], Len(log'[n]))
  PROVE  \A x \in Members : LeaderTyped(x)'
BY DEF TypeOK, LeaderTyped, WithinLog

\* A step of n leaves the indexes of every other member alone.
LEMMA IndexesOrdered ==
  ASSUME TypeOK, NEW n \in Members,
         \A x \in Members : x # n => /\ applied_index'[x] = applied_index[x]
                                     /\ commit_index'[x] = commit_index[x]
                                     /\ log'[x] = log[x],
         applied_index'[n] <= commit_index'[n], commit_index'[n] <= Len(log'[n])
  PROVE  \A x \in Members : applied_index'[x] <= commit_index'[x] /\ commit_index'[x] <= Len(log'[x])
BY DEF TypeOK

\* follow_leader leaves a typed role state.
LEMMA FollowLeaderType ==
  ASSUME TypeOK, NEW n \in Members, FollowLeader(n)
  PROVE  /\ role' \in [Members -> {"Follower", "Candidate", "Leader"}]
         /\ votes' \in [Members -> SUBSET Members]
         /\ leader' \in [Members -> LeaderState \cup {None}]
         /\ role'[n] = "Follower" /\ leader'[n] = None
         /\ \A x \in Members : x # n => role'[x] = role[x] /\ leader'[x] = leader[x]
BY DEF TypeOK, FieldTypes, FollowLeader

\* A vote state of typed parts is typed.
LEMMA SetVoteStateType ==
  ASSUME TypeOK, NEW n \in Members, NEW term \in Nat, NEW vote \in Voters \cup {None},
         SetVoteState(n, term, vote)
  PROVE  /\ current_term' \in [Members -> Nat]
         /\ voted_for' \in [Members -> Voters \cup {None}]
BY DEF TypeOK, FieldTypes, SetVoteState

\* Committing through an index within the log keeps the commit state typed.
LEMMA CommitThroughType ==
  ASSUME TypeOK, NEW n \in Members, NEW s \in Seq(Entry), NEW c \in Nat, c <= Len(s),
         CommitThrough(n, s, c)
  PROVE  /\ commit_index' \in [Members -> Nat]
         /\ commit_index'[n] = c
         /\ \A x \in Members : x # n => commit_index'[x] = commit_index[x]
         /\ committed' \in Seq(Entry)
BY PrefixType DEF TypeOK, FieldTypes, CommitThrough

\* The initial state (restore of an empty store) is typed.
LEMMA InitType ==
  ASSUME Init
  PROVE  TypeOK
<1>1. <<>> \in Seq(Entry) /\ Len(<<>>) = 0
  OBVIOUS
<1> QED
  BY <1>1, ValueAssumption DEF Init, TypeOK, FieldTypes, LeaderTyped

\* A round takes one number or none.
LEMMA NumberRoundsType ==
  ASSUME TypeOK, NEW n \in Members, NEW requests, NEW k \in Nat,
         NumberRounds(n, ReplicationRound(n, requests) + k)
  PROVE  next_append_probe_id' \in [Members -> Nat]
<1>1. ReplicationRound(n, requests) \in {0, 1}
  BY DEF ReplicationRound
<1> QED
  BY <1>1 DEF TypeOK, FieldTypes, NumberRounds

\* A replication round takes at most one probe number.
LEMMA OneRoundType ==
  ASSUME TypeOK, NEW n \in Members, NEW requests, NumberRounds(n, ReplicationRound(n, requests))
  PROVE  next_append_probe_id' \in [Members -> Nat]
<1>1. ReplicationRound(n, requests) \in {0, 1}
  BY DEF ReplicationRound
<1> QED
  BY <1>1 DEF TypeOK, FieldTypes, NumberRounds

\* Becoming leader, with the requests it sends.
LEMMA BecomeLeaderType ==
  ASSUME TypeOK, NEW n \in Members, NEW term \in Nat, BecomeLeader(n, term)
  PROVE  /\ role' \in [Members -> {"Follower", "Candidate", "Leader"}]
         /\ votes' \in [Members -> SUBSET Members]
         /\ leader' \in [Members -> LeaderState \cup {None}]
         /\ role'[n] = "Leader"
         /\ leader'[n] \in LeaderState /\ WithinLog(leader'[n], Len(log[n]))
         /\ \A x \in Members : x # n => role'[x] = role[x] /\ leader'[x] = leader[x]
         /\ messages' \subseteq Message
         /\ next_append_probe_id' \in [Members -> Nat]
<1> DEFINE fresh == FreshLeader(n, Len(log[n]))
           requests == Replicate(n, term, log[n], commit_index[n], fresh, Peers(n))
<1>1. /\ log[n] \in Seq(Entry) /\ Len(log[n]) \in Nat /\ commit_index[n] \in Nat
      /\ next_append_probe_id[n] \in Nat /\ Peers(n) \in SUBSET Members
  BY DEF TypeOK, FieldTypes, Peers
<1>2. fresh \in LeaderState /\ WithinLog(fresh, Len(log[n]))
  BY <1>1, FreshLeaderType
<1> HIDE DEF fresh
<1>3. \A m \in requests : IsReplication(m, n, term, Peers(n), Len(log[n]))
  BY <1>1, <1>2, ReplicateType
<1>4. requests \subseteq Message
  BY <1>3 DEF IsReplication
<1>5. Sent(fresh, requests) \in LeaderState /\ WithinLog(Sent(fresh, requests), Len(log[n]))
  BY <1>1, <1>2, <1>3, SentType
<1>6. /\ role' = [role EXCEPT ![n] = "Leader"]
      /\ votes' = [votes EXCEPT ![n] = {}]
      /\ leader' = [leader EXCEPT ![n] = Sent(fresh, requests)]
      /\ messages' = messages \cup requests
      /\ NumberRounds(n, ReplicationRound(n, requests))
  BY DEF BecomeLeader, Send, fresh
<1> HIDE DEF requests
<1>7. next_append_probe_id' \in [Members -> Nat]
  BY <1>6, OneRoundType
<1> QED
  BY <1>4, <1>5, <1>6, <1>7 DEF TypeOK, FieldTypes

\* ElectionTimeout keeps the types.
LEMMA ElectionTimeoutType ==
  ASSUME TypeOK, NEW n \in Members, ElectionTimeout(n)
  PROVE  TypeOK'
<1> DEFINE term == current_term[n] + 1
           requests == {[type |-> "VoteRequest", from |-> n, to |-> v, term |-> term,
                         last_log |-> LastPosition(log[n])] : v \in Voters \ {n}}
<1>1. term \in Nat /\ n \in Voters
  BY PlanAssumption DEF TypeOK, FieldTypes, ElectionTimeout
<1>2. /\ current_term' \in [Members -> Nat]
      /\ voted_for' \in [Members -> Voters \cup {None}]
  <2>1. SetVoteState(n, term, n)
    BY DEF ElectionTimeout
  <2> QED
    BY <1>1, <2>1, SetVoteStateType
<1>3. UNCHANGED <<log, applied_index, commit_index, callerVars, committed>> /\ ready' = {}
  BY DEF ElectionTimeout, NoneReady
<1>4. requests \subseteq Message
  <2>1. LastPosition(log[n]) \in LogPosition
    BY PositionType DEF LastPosition, TypeOK, FieldTypes
  <2> QED
    BY <1>1, <2>1 DEF Message, Members
<1>5. /\ role' \in [Members -> {"Follower", "Candidate", "Leader"}]
      /\ votes' \in [Members -> SUBSET Members]
      /\ leader' \in [Members -> LeaderState \cup {None}]
      /\ role'[n] # "Leader" => leader'[n] = None
      /\ role'[n] = "Leader" => leader'[n] \in LeaderState /\ WithinLog(leader'[n], Len(log[n]))
      /\ \A x \in Members : x # n => role'[x] = role[x] /\ leader'[x] = leader[x]
      /\ messages' \subseteq Message
      /\ next_append_probe_id' \in [Members -> Nat]
  <2>1. CASE BecomeLeader(n, term)
    BY <1>1, <2>1, BecomeLeaderType
  <2>2. CASE /\ role' = [role EXCEPT ![n] = "Candidate"]
             /\ votes' = [votes EXCEPT ![n] = {n}]
             /\ leader' = [leader EXCEPT ![n] = None]
             /\ UNCHANGED next_append_probe_id
             /\ Send(requests)
    BY <1>4, <2>2 DEF TypeOK, FieldTypes, Send
  <2> QED
    BY <2>1, <2>2 DEF ElectionTimeout
<1> HIDE DEF term, requests
<1>6. FieldTypes'
  BY <1>2, <1>3, <1>5 DEF TypeOK, FieldTypes, callerVars
<1>7. \A x \in Members : LeaderTyped(x)'
  BY <1>3, <1>5, LeadersTyped
<1> QED
  BY <1>3, <1>6, <1>7 DEF TypeOK

\* A typed reply keeps the messages typed.
LEMMA ReplyType ==
  ASSUME TypeOK, NEW m, NEW reply \in Message, Reply(m, reply)
  PROVE  messages' \subseteq Message
BY DEF TypeOK, FieldTypes, Reply, Send

\* An append reply built from typed parts is a message.
LEMMA AppendResponseType ==
  ASSUME TypeOK, NEW n \in Members, NEW m \in Message, m.type = "AppendRequest",
         NEW term \in Nat, NEW accepted \in BOOLEAN
  PROVE  AppendResponse(n, m, term, accepted) \in Message
<1>1. /\ m.from \in Members /\ m.probe_id \in Nat \cup {None}
      /\ m.previous.index \in Nat /\ m.read_barrier_id \in ReadBarrierId \cup {None}
  BY MessageFields DEF LogPosition
<1>2. Len(log[n]) \in Nat
  BY DEF TypeOK, FieldTypes
<1>3. Max2(1, Min2(m.previous.index, Len(log[n]) + 1)) \in Nat
  BY <1>1, <1>2 DEF Max2, Min2
<1> QED
  BY <1>1, <1>3 DEF AppendResponse, Message

\* HandleVoteRequest keeps the types.
LEMMA HandleVoteRequestType ==
  ASSUME TypeOK, NEW m \in messages, HandleVoteRequest(m.to, m)
  PROVE  TypeOK'
<1> DEFINE n == m.to
           granted == PositionAtLeast(m.last_log, LastPosition(log[n])) /\ CanVote(n, m)
<1>1. m \in Message /\ n \in Members /\ m.from \in Voters /\ m.term \in Nat
      /\ current_term[n] \in Nat
  BY MessageFields, PlanAssumption DEF TypeOK, FieldTypes, HandleVoteRequest
<1>2. UNCHANGED <<log, applied_index, commit_index, counterVars, committed>> /\ ready' = {}
  BY DEF HandleVoteRequest, NoneReady
<1>3. \A term \in Nat, g \in BOOLEAN : VoteResponse(n, m, term, g) \in Message
  BY <1>1 DEF VoteResponse, Message, Members
<1>4. /\ current_term' \in [Members -> Nat]
      /\ voted_for' \in [Members -> Voters \cup {None}]
      /\ role' \in [Members -> {"Follower", "Candidate", "Leader"}]
      /\ votes' \in [Members -> SUBSET Members]
      /\ leader' \in [Members -> LeaderState \cup {None}]
      /\ messages' \subseteq Message
      /\ role'[n] # "Leader" => leader'[n] = None
      /\ role'[n] = "Leader" => leader'[n] \in LeaderState /\ WithinLog(leader'[n], Len(log[n]))
      /\ \A x \in Members : x # n => role'[x] = role[x] /\ leader'[x] = leader[x]
  <2>1. CASE /\ Reply(m, VoteResponse(n, m, current_term[n], FALSE))
             /\ UNCHANGED <<current_term, voted_for, role, votes, leader>>
    <3>1. messages' \subseteq Message
      BY <1>1, <1>3, <2>1, ReplyType
    <3> QED
      BY <1>1, <2>1, <3>1 DEF TypeOK, FieldTypes, LeaderTyped
  <2>2. CASE /\ SetVoteState(n, m.term, IF granted THEN m.from ELSE None)
             /\ FollowLeader(n)
             /\ Reply(m, VoteResponse(n, m, m.term, granted))
    <3>1. granted \in BOOLEAN
      BY DEF PositionAtLeast
    <3>2. (IF granted THEN m.from ELSE None) \in Voters \cup {None}
      BY <1>1
    <3> HIDE DEF granted
    <3>3. messages' \subseteq Message
      BY <1>1, <1>3, <2>2, <3>1, ReplyType
    <3>4. current_term' \in [Members -> Nat] /\ voted_for' \in [Members -> Voters \cup {None}]
      BY <1>1, <2>2, <3>2, SetVoteStateType
    <3> QED
      BY <1>1, <2>2, <3>3, <3>4, FollowLeaderType
  <2> QED
    BY <2>1, <2>2 DEF HandleVoteRequest
<1> HIDE DEF n, granted
<1>5. FieldTypes'
  BY <1>2, <1>4 DEF TypeOK, FieldTypes, counterVars
<1>6. \A x \in Members : LeaderTyped(x)'
  BY <1>1, <1>2, <1>4, LeadersTyped
<1> QED
  BY <1>2, <1>5, <1>6 DEF TypeOK

\* StepDown keeps the types.
LEMMA StepDownType ==
  ASSUME TypeOK, NEW m \in messages, StepDown(m.to, m)
  PROVE  TypeOK'
<1> DEFINE n == m.to
<1>1. n \in Members /\ m.term \in Nat
  BY MessageFields DEF TypeOK, FieldTypes
<1>2. SetVoteState(n, m.term, None) /\ FollowLeader(n) /\ ready' = {}
      /\ UNCHANGED <<log, applied_index, commit_index, counterVars, messages, committed>>
  BY DEF StepDown, NoneReady
<1> HIDE DEF n
<1>3. current_term' \in [Members -> Nat] /\ voted_for' \in [Members -> Voters \cup {None}]
  BY <1>1, <1>2, SetVoteStateType
<1>4. FieldTypes'
  BY <1>1, <1>2, <1>3, FollowLeaderType DEF TypeOK, FieldTypes, counterVars
<1>5. \A x \in Members : LeaderTyped(x)'
  BY <1>1, <1>2, FollowLeaderType, LeadersTyped
<1> QED
  BY <1>2, <1>4, <1>5 DEF TypeOK

\* HandleVoteResponse keeps the types.
LEMMA HandleVoteResponseType ==
  ASSUME TypeOK, NEW m \in messages, HandleVoteResponse(m.to, m)
  PROVE  TypeOK'
<1> DEFINE n == m.to
           tally == IF m.granted THEN votes[n] \cup {m.from} ELSE votes[n]
<1>1. n \in Members /\ m.term \in Nat /\ tally \in SUBSET Members
  BY MessageFields DEF TypeOK, FieldTypes
<1>2. UNCHANGED <<durableVars, commit_index, callerVars, committed>> /\ ready' = {}
  BY DEF HandleVoteResponse, NoneReady
<1>3. /\ role' \in [Members -> {"Follower", "Candidate", "Leader"}]
      /\ votes' \in [Members -> SUBSET Members]
      /\ leader' \in [Members -> LeaderState \cup {None}]
      /\ role'[n] # "Leader" => leader'[n] = None
      /\ role'[n] = "Leader" => leader'[n] \in LeaderState /\ WithinLog(leader'[n], Len(log[n]))
      /\ \A x \in Members : x # n => role'[x] = role[x] /\ leader'[x] = leader[x]
      /\ messages' \subseteq Message
      /\ next_append_probe_id' \in [Members -> Nat]
  <2>1. CASE BecomeLeader(n, m.term)
    BY <1>1, <2>1, BecomeLeaderType
  <2>2. CASE /\ votes' = [votes EXCEPT ![n] = tally]
             /\ UNCHANGED <<role, leader, next_append_probe_id, messages>>
    BY <1>1, <2>2 DEF TypeOK, FieldTypes, LeaderTyped
  <2> QED
    BY <2>1, <2>2 DEF HandleVoteResponse
<1> HIDE DEF n, tally
<1>4. FieldTypes'
  BY <1>2, <1>3 DEF TypeOK, FieldTypes, durableVars, callerVars
<1>5. \A x \in Members : LeaderTyped(x)'
  BY <1>1, <1>2, <1>3, LeadersTyped DEF durableVars
<1> QED
  BY <1>2, <1>4, <1>5 DEF TypeOK, durableVars

\* RejectStaleAppend keeps the types.
LEMMA RejectStaleAppendType ==
  ASSUME TypeOK, NEW m \in messages, RejectStaleAppend(m.to, m)
  PROVE  TypeOK'
<1> DEFINE n == m.to
<1>1. m \in Message /\ m.type = "AppendRequest" /\ n \in Members /\ current_term[n] \in Nat
  BY MessageFields DEF TypeOK, FieldTypes, RejectStaleAppend
<1>2. /\ UNCHANGED <<durableVars, commit_index, role, votes, leader, counterVars, committed>>
      /\ ready' = {}
      /\ Reply(m, AppendResponse(n, m, current_term[n], FALSE))
  BY DEF RejectStaleAppend, NoneReady
<1> HIDE DEF n
<1>3. AppendResponse(n, m, current_term[n], FALSE) \in Message
  BY <1>1, AppendResponseType
<1>4. messages' \subseteq Message
  BY <1>2, <1>3, ReplyType
<1>5. FieldTypes'
  BY <1>2, <1>4 DEF TypeOK, FieldTypes, durableVars, counterVars
<1>6. \A x \in Members : LeaderTyped(x)'
  BY <1>2 DEF TypeOK, LeaderTyped, durableVars
<1> QED
  BY <1>2, <1>5, <1>6 DEF TypeOK, durableVars

\* The vote kept on adopting an equal or newer term is typed.
LEMMA AdoptTermType ==
  ASSUME TypeOK, NEW n \in Members, NEW term \in Nat, AdoptTerm(n, term)
  PROVE  /\ current_term' \in [Members -> Nat]
         /\ voted_for' \in [Members -> Voters \cup {None}]
BY SetVoteStateType DEF AdoptTerm, TypeOK, FieldTypes

\* RejectAppend keeps the types.
LEMMA RejectAppendType ==
  ASSUME TypeOK, NEW m \in messages, RejectAppend(m.to, m)
  PROVE  TypeOK'
<1> DEFINE n == m.to
<1>1. m \in Message /\ m.type = "AppendRequest" /\ n \in Members /\ m.term \in Nat
  BY MessageFields DEF TypeOK, FieldTypes, RejectAppend
<1>2. /\ UNCHANGED <<log, applied_index, commit_index, counterVars, committed>>
      /\ ready' = {} /\ FollowLeader(n) /\ AdoptTerm(n, m.term)
      /\ Reply(m, AppendResponse(n, m, m.term, FALSE))
  BY DEF RejectAppend, NoneReady
<1> HIDE DEF n
<1>3. AppendResponse(n, m, m.term, FALSE) \in Message
  BY <1>1, AppendResponseType
<1>4. messages' \subseteq Message
  BY <1>2, <1>3, ReplyType
<1>5. current_term' \in [Members -> Nat] /\ voted_for' \in [Members -> Voters \cup {None}]
  BY <1>1, <1>2, AdoptTermType
<1>6. FieldTypes'
  BY <1>1, <1>2, <1>4, <1>5, FollowLeaderType DEF TypeOK, FieldTypes, counterVars
<1>7. \A x \in Members : LeaderTyped(x)'
  BY <1>1, <1>2, FollowLeaderType, LeadersTyped
<1> QED
  BY <1>2, <1>6, <1>7 DEF TypeOK

\* AcceptAppend keeps the types.
LEMMA AcceptAppendType ==
  ASSUME TypeOK, NEW m \in messages, AcceptAppend(m.to, m)
  PROVE  TypeOK'
<1> DEFINE n == m.to
           previous == m.previous.index
           delta == AppendDelta(log[n], previous, m.entries)
           commit == Max2(commit_index[n], FollowerCommit(m, delta))
<1>1. /\ m \in Message /\ m.type = "AppendRequest" /\ n \in Members /\ m.term \in Nat
      /\ previous \in Nat /\ m.entries \in Seq(Entry) /\ m.leader_commit_index \in Nat
      /\ m.previous \in LogPosition
  BY MessageFields DEF TypeOK, FieldTypes, AcceptAppend, LogPosition
<1>2. /\ ready' = {} /\ FollowLeader(n) /\ AdoptTerm(n, m.term)
      /\ log' = [log EXCEPT ![n] = delta]
      /\ CommitThrough(n, delta, commit)
      /\ Reply(m, AppendResponse(n, m, m.term, TRUE))
      /\ UNCHANGED <<applied_index, counterVars>>
  BY DEF AcceptAppend, NoneReady
<1>3. previous <= Len(log[n]) /\ ~DeltaConflictsWithCommit(log[n], commit_index[n], previous, m.entries)
  BY DEF AcceptAppend, PositionMatches
<1>4. log[n] \in Seq(Entry) /\ commit_index[n] \in Nat /\ commit_index[n] <= Len(log[n])
  BY <1>1 DEF TypeOK, FieldTypes
<1>5. delta \in Seq(Entry) /\ commit_index[n] <= Len(delta)
  BY <1>1, <1>3, <1>4, AppendDeltaType
<1>6. commit \in Nat /\ commit_index[n] <= commit /\ commit <= Len(delta)
  <2>1. Through(m.previous, m.entries).index \in Nat
    BY <1>1, ThroughType DEF LogPosition
  <2> HIDE DEF delta
  <2>2. FollowerCommit(m, delta) \in Nat /\ FollowerCommit(m, delta) <= Len(delta)
    BY <1>1, <1>5, <2>1 DEF FollowerCommit, Min2
  <2> QED
    BY <1>4, <1>5, <2>2 DEF Max2
<1> HIDE DEF n, delta, commit
<1>7. AppendResponse(n, m, m.term, TRUE) \in Message
  BY <1>1, AppendResponseType
<1>8. messages' \subseteq Message
  BY <1>2, <1>7, ReplyType
<1>9. current_term' \in [Members -> Nat] /\ voted_for' \in [Members -> Voters \cup {None}]
  BY <1>1, <1>2, AdoptTermType
<1>10. /\ commit_index' \in [Members -> Nat] /\ committed' \in Seq(Entry)
       /\ commit_index'[n] = commit
       /\ \A x \in Members : x # n => commit_index'[x] = commit_index[x]
  BY <1>1, <1>2, <1>5, <1>6, CommitThroughType
<1>11. log' \in [Members -> Seq(Entry)]
  BY <1>1, <1>2, <1>5 DEF TypeOK, FieldTypes
<1>12. FieldTypes'
  BY <1>1, <1>2, <1>8, <1>9, <1>10, <1>11, FollowLeaderType DEF TypeOK, FieldTypes, counterVars
<1>13. \A x \in Members : applied_index'[x] <= commit_index'[x] /\ commit_index'[x] <= Len(log'[x])
  <2>1. /\ log'[n] = delta /\ applied_index' = applied_index
        /\ \A x \in Members : x # n => log'[x] = log[x]
    BY <1>1, <1>2 DEF TypeOK, FieldTypes
  <2>2. applied_index[n] \in Nat /\ applied_index[n] <= commit_index[n]
    BY <1>1 DEF TypeOK, FieldTypes
  <2>3. applied_index[n] <= commit /\ commit <= Len(delta)
    BY <1>4, <1>6, <2>2
  <2> QED
    BY <1>1, <1>10, <2>1, <2>3, IndexesOrdered
<1>14. \A x \in Members : LeaderTyped(x)'
  BY <1>1, <1>2, FollowLeaderType, LeadersTyped DEF TypeOK, FieldTypes
<1> QED
  BY <1>12, <1>13, <1>14 DEF TypeOK

\* HandleContactResponse keeps the types.
LEMMA HandleContactResponseType ==
  ASSUME TypeOK, NEW m \in messages, HandleContactResponse(m.to, m)
  PROVE  TypeOK'
<1> DEFINE n == m.to
           barriers == leader[n].read_barriers
           b == m.read_barrier_id
           acknowledgements == barriers[b].acknowledgements \cup {m.from}
           acknowledged ==
             [barriers EXCEPT ![b].acknowledgements = acknowledgements,
                              ![b].quorum_confirmed = Satisfies(ReadQuorums, acknowledgements)]
           ls == [leader[n] EXCEPT !.read_barriers = acknowledged]
<1>1. n \in Members /\ m.from \in Members /\ role[n] = "Leader" /\ b \in ReadBarrierId
  BY MessageFields DEF TypeOK, FieldTypes, HandleContactResponse
<1>2. leader[n] \in LeaderState /\ WithinLog(leader[n], Len(log[n])) /\ Len(log[n]) \in Nat
  BY <1>1 DEF TypeOK, FieldTypes, LeaderTyped
<1>3. barriers \in [ReadBarrierId -> Barrier \cup {None}] /\ barriers[b] \in Barrier
  BY <1>1, <1>2 DEF LeaderState, HandleContactResponse
<1>4. acknowledged \in [ReadBarrierId -> Barrier \cup {None}]
  <2>1. acknowledgements \in SUBSET Members /\ Satisfies(ReadQuorums, acknowledgements) \in BOOLEAN
    BY <1>1, <1>3 DEF Barrier, Satisfies
  <2> HIDE DEF acknowledgements
  <2>2. [barriers[b] EXCEPT !.acknowledgements = acknowledgements,
                            !.quorum_confirmed = Satisfies(ReadQuorums, acknowledgements)] \in Barrier
    BY <1>3, <2>1 DEF Barrier
  <2>3. acknowledged = [barriers EXCEPT ![b] =
          [barriers[b] EXCEPT !.acknowledgements = acknowledgements,
                              !.quorum_confirmed = Satisfies(ReadQuorums, acknowledgements)]]
    BY <1>1, <1>3 DEF Barrier
  <2> QED
    BY <1>1, <1>3, <2>2, <2>3
<1> HIDE DEF acknowledged
<1>5. ls \in LeaderState /\ WithinLog(ls, Len(log[n]))
  BY <1>2, <1>4 DEF LeaderState, WithinLog
<1>6. /\ CompleteReadBarriers(n, current_term[n], log[n], commit_index[n], applied_index[n], ls)
      /\ UNCHANGED <<durableVars, commit_index, role, votes, counterVars, messages, committed>>
  BY DEF HandleContactResponse, acknowledged
<1> HIDE DEF n, ls
<1>7. /\ leader' \in [Members -> LeaderState \cup {None}]
      /\ \A x \in Members : x # n => leader'[x] = leader[x]
      /\ leader'[n] \in LeaderState
      /\ WithinLog(leader'[n], Len(log[n]))
      /\ ready' \subseteq [floor : Nat, index : Nat]
  <2>1. commit_index[n] \in Nat /\ applied_index[n] \in Nat
        /\ leader \in [Members -> LeaderState \cup {None}]
    BY <1>1 DEF TypeOK, FieldTypes
  <2> QED
    BY <1>1, <1>2, <1>5, <1>6, <2>1, CompleteReadBarriersType
<1>8. FieldTypes'
  BY <1>6, <1>7 DEF TypeOK, FieldTypes, durableVars, counterVars
<1>9. \A x \in Members : LeaderTyped(x)'
  BY <1>1, <1>6, <1>7, LeadersTyped DEF durableVars
<1> QED
  BY <1>6, <1>8, <1>9 DEF TypeOK, durableVars

\* HandleReplicationResponse keeps the types.
LEMMA HandleReplicationResponseType ==
  ASSUME TypeOK, NEW m \in messages, HandleReplicationResponse(m.to, m)
  PROVE  TypeOK'
<1> DEFINE n == m.to
<1>1. /\ n \in Members /\ m.from \in Members /\ m.next_index_hint \in Nat
      /\ role[n] = "Leader" /\ current_term[n] \in Nat
  BY MessageFields DEF TypeOK, FieldTypes, HandleReplicationResponse
<1>2. leader[n] \in LeaderState /\ WithinLog(leader[n], Len(log[n]))
  BY <1>1 DEF TypeOK, FieldTypes, LeaderTyped
<1>3. /\ log[n] \in Seq(Entry) /\ Len(log[n]) \in Nat
      /\ commit_index[n] \in Nat /\ commit_index[n] <= Len(log[n])
      /\ applied_index[n] \in Nat /\ applied_index[n] <= commit_index[n]
      /\ next_append_probe_id[n] \in Nat
  BY <1>1 DEF TypeOK, FieldTypes
<1> DEFINE after(probe) == Progress(leader[n], m.from, probe, m)
           commitOf(probe) == LeaderCommit(current_term[n], log[n], commit_index[n], after(probe).matched)
           behind(probe) == {p \in {m.from} : after(probe).next[p] <= Len(log[n])}
           requestsOf(probe) ==
             Replicate(n, current_term[n], log[n], commitOf(probe), after(probe), behind(probe))
<1>4. PICK probe \in leader[n].probes[m.from] :
        /\ leader' = [leader EXCEPT ![n] = Sent(after(probe), requestsOf(probe))]
        /\ CommitThrough(n, log[n], commitOf(probe))
        /\ Send(requestsOf(probe))
        /\ NumberRounds(n, ReplicationRound(n, requestsOf(probe)))
  BY DEF HandleReplicationResponse
<1> DEFINE ls == after(probe)
           commit == commitOf(probe)
           requests == requestsOf(probe)
<1>5. ls \in LeaderState /\ WithinLog(ls, Len(log[n]))
  BY <1>1, <1>2, <1>3, ProgressType
<1>6. commit \in Nat /\ commit_index[n] <= commit /\ commit <= Len(log[n])
  BY <1>3, LeaderCommitType
<1>7. behind(probe) \in SUBSET Members
  BY <1>1
<1> HIDE DEF after, commitOf, behind
<1>8. \A r \in requests : IsReplication(r, n, current_term[n], behind(probe), Len(log[n]))
  BY <1>1, <1>3, <1>5, <1>6, <1>7, ReplicateType
<1> HIDE DEF requestsOf
<1>9. Sent(ls, requests) \in LeaderState /\ WithinLog(Sent(ls, requests), Len(log[n]))
  BY <1>3, <1>5, <1>8, SentType
<1>10. /\ UNCHANGED <<durableVars, role, votes, callerVars>> /\ ready' = {}
  BY DEF HandleReplicationResponse, NoneReady
<1> HIDE DEF n, ls, commit, requests
<1>11. /\ leader' = [leader EXCEPT ![n] = Sent(ls, requests)]
       /\ CommitThrough(n, log[n], commit)
       /\ messages' = messages \cup requests
       /\ NumberRounds(n, ReplicationRound(n, requests))
  BY <1>4 DEF Send, ls, commit, requests
<1>12. messages' \subseteq Message
  BY <1>8, <1>11 DEF IsReplication, TypeOK, FieldTypes
<1>13. next_append_probe_id' \in [Members -> Nat]
  BY <1>1, <1>11, OneRoundType
<1>14. /\ commit_index' \in [Members -> Nat] /\ committed' \in Seq(Entry)
       /\ commit_index'[n] = commit
       /\ \A x \in Members : x # n => commit_index'[x] = commit_index[x]
  BY <1>1, <1>3, <1>6, <1>11, CommitThroughType
<1>15. leader' \in [Members -> LeaderState \cup {None}] /\ leader'[n] = Sent(ls, requests)
       /\ \A x \in Members : x # n => leader'[x] = leader[x]
  BY <1>1, <1>9, <1>11 DEF TypeOK, FieldTypes
<1>16. FieldTypes'
  BY <1>10, <1>12, <1>13, <1>14, <1>15 DEF TypeOK, FieldTypes, durableVars, callerVars
<1>17. \A x \in Members : applied_index'[x] <= commit_index'[x] /\ commit_index'[x] <= Len(log'[x])
  <2>1. applied_index[n] <= commit
    BY <1>3, <1>6
  <2> QED
    BY <1>1, <1>6, <1>10, <1>14, <2>1, IndexesOrdered DEF durableVars
<1>18. \A x \in Members : LeaderTyped(x)'
  BY <1>1, <1>9, <1>10, <1>15, LeadersTyped DEF durableVars
<1> QED
  BY <1>16, <1>17, <1>18 DEF TypeOK

\* Heartbeat keeps the types.
LEMMA HeartbeatType ==
  ASSUME TypeOK, NEW n \in Members, Heartbeat(n)
  PROVE  TypeOK'
<1> DEFINE ls == leader[n]
           lagging == {p \in Peers(n) : ls.matched[p] < Len(log[n])}
           requests == Replicate(n, current_term[n], log[n], commit_index[n], ls, lagging)
           contacts == Contact(n, current_term[n], log[n], commit_index[n], ls, Peers(n), None, None)
<1>1. /\ log[n] \in Seq(Entry) /\ Len(log[n]) \in Nat /\ commit_index[n] \in Nat
      /\ current_term[n] \in Nat /\ next_append_probe_id[n] \in Nat
      /\ Peers(n) \in SUBSET Members /\ lagging \in SUBSET Members
  BY DEF TypeOK, FieldTypes, Peers
<1>2. ls \in LeaderState /\ WithinLog(ls, Len(log[n])) /\ role[n] = "Leader"
  BY DEF TypeOK, FieldTypes, LeaderTyped, Heartbeat
<1>3. \A r \in requests : IsReplication(r, n, current_term[n], lagging, Len(log[n]))
  BY <1>1, <1>2, ReplicateType
<1>4. requests \subseteq Message /\ contacts \subseteq Message
  BY <1>1, <1>2, <1>3, ContactType DEF IsReplication
<1>5. Sent(ls, requests) \in LeaderState /\ WithinLog(Sent(ls, requests), Len(log[n]))
  BY <1>1, <1>2, <1>3, SentType
<1>6. /\ leader' = [leader EXCEPT ![n] = Sent(ls, requests)]
      /\ messages' = messages \cup requests \cup contacts
      /\ NumberRounds(n, ReplicationRound(n, requests) + 1)
      /\ heartbeats < MaxHeartbeats /\ heartbeats' = heartbeats + 1
      /\ UNCHANGED <<durableVars, commit_index, role, votes, next_read_id, restarts, committed>>
      /\ ready' = {}
  BY DEF Heartbeat, Send, NoneReady
<1> HIDE DEF ls, lagging, requests, contacts
<1>7. next_append_probe_id' \in [Members -> Nat]
  BY <1>6, NumberRoundsType
<1>8. heartbeats' \in 0..MaxHeartbeats
  BY <1>6, ValueAssumption DEF TypeOK, FieldTypes
<1>9. FieldTypes'
  BY <1>4, <1>5, <1>6, <1>7, <1>8 DEF TypeOK, FieldTypes, durableVars
<1>10. \A x \in Members : LeaderTyped(x)'
  <2>1. leader'[n] = Sent(ls, requests) /\ \A x \in Members : x # n => leader'[x] = leader[x]
    BY <1>6 DEF TypeOK, FieldTypes
  <2> QED
    BY <1>2, <1>5, <1>6, <2>1, LeadersTyped DEF durableVars
<1> QED
  BY <1>6, <1>9, <1>10 DEF TypeOK, durableVars

\* Append1 keeps the types.
LEMMA Append1Type ==
  ASSUME TypeOK, NEW n \in Members, NEW command \in Commands \cup {TermConfirmation},
         Append1(n, command)
  PROVE  TypeOK'
<1> DEFINE index == Len(log[n]) + 1
           entry == [term |-> current_term[n], command |-> command]
           longer == Append(log[n], entry)
           ls == [leader[n] EXCEPT !.matched[n] = index, !.next[n] = index + 1]
           requests == Replicate(n, current_term[n], longer, commit_index[n], ls, Peers(n))
           commit == LeaderCommit(current_term[n], longer, commit_index[n], ls.matched)
<1>1. /\ log[n] \in Seq(Entry) /\ Len(log[n]) \in Nat
      /\ commit_index[n] \in Nat /\ commit_index[n] <= Len(log[n])
      /\ applied_index[n] \in Nat /\ applied_index[n] <= commit_index[n]
      /\ current_term[n] \in Nat /\ next_append_probe_id[n] \in Nat /\ Peers(n) \in SUBSET Members
  BY DEF TypeOK, FieldTypes, Peers
<1>2. leader[n] \in LeaderState /\ WithinLog(leader[n], Len(log[n])) /\ role[n] = "Leader"
  BY DEF TypeOK, FieldTypes, LeaderTyped, Append1
<1>3. longer \in Seq(Entry) /\ Len(longer) = index
  <2>1. entry \in Entry
    BY <1>1 DEF Entry
  <2> HIDE DEF entry
  <2> QED
    BY <1>1, <2>1
<1> HIDE DEF longer
<1>4. ls \in LeaderState /\ WithinLog(ls, index)
  <2>1. ls \in LeaderState
    <3>1. index \in Nat /\ index + 1 \in Nat \ {0}
      BY <1>1
    <3> HIDE DEF index
    <3>2. /\ [leader[n].matched EXCEPT ![n] = index] \in [Members -> Nat]
          /\ [leader[n].next EXCEPT ![n] = index + 1] \in [Members -> Nat \ {0}]
      BY <1>2, <3>1 DEF LeaderState
    <3> QED
      BY <1>2, <3>2 DEF LeaderState
  <2>2. /\ ls.probes = leader[n].probes
        /\ \A p \in Members : /\ ls.matched[p] = IF p = n THEN index ELSE leader[n].matched[p]
                              /\ ls.next[p] = IF p = n THEN index + 1 ELSE leader[n].next[p]
    BY <1>2 DEF LeaderState
  <2>3. \A p \in Members : /\ leader[n].matched[p] \in Nat /\ leader[n].next[p] \in Nat
                           /\ \A probe \in leader[n].probes[p] : probe \in Probe
    BY <1>2 DEF LeaderState
  <2>4. \A p \in Members : ls.matched[p] <= index /\ ls.next[p] <= index + 1
    BY <1>1, <1>2, <2>2, <2>3 DEF WithinLog
  <2>5. \A p \in Members : \A probe \in ls.probes[p] :
           probe.previous.index <= index /\ probe.through.index <= index
    BY <1>1, <1>2, <2>2, <2>3 DEF WithinLog, Probe, LogPosition
  <2> QED
    BY <2>1, <2>4, <2>5 DEF WithinLog
<1>5. /\ log' = [log EXCEPT ![n] = longer]
      /\ leader' = [leader EXCEPT ![n] = Sent(ls, requests)]
      /\ messages' = messages \cup requests
      /\ NumberRounds(n, ReplicationRound(n, requests))
      /\ CommitThrough(n, longer, commit)
      /\ UNCHANGED <<current_term, voted_for, applied_index, role, votes, callerVars>>
      /\ ready' = {}
  BY DEF Append1, Send, NoneReady, longer
<1>6. commit \in Nat /\ commit_index[n] <= commit /\ commit <= Len(longer)
  <2>1. commit_index[n] <= Len(longer)
    BY <1>1, <1>3
  <2> QED
    BY <1>1, <1>3, <2>1, LeaderCommitType
<1> HIDE DEF ls
<1>7. \A r \in requests : IsReplication(r, n, current_term[n], Peers(n), Len(longer))
  BY <1>1, <1>3, <1>4, ReplicateType
<1>8. Sent(ls, requests) \in LeaderState /\ WithinLog(Sent(ls, requests), Len(longer))
  <2>1. Len(longer) \in Nat
    BY <1>1, <1>3
  <2> QED
    BY <1>3, <1>4, <1>7, <2>1, SentType
<1> HIDE DEF requests, commit, index
<1>9. /\ commit_index' \in [Members -> Nat] /\ committed' \in Seq(Entry)
      /\ commit_index'[n] = commit
      /\ \A x \in Members : x # n => commit_index'[x] = commit_index[x]
  BY <1>3, <1>5, <1>6, CommitThroughType
<1>10. next_append_probe_id' \in [Members -> Nat]
  BY <1>5, OneRoundType
<1>11. /\ leader' \in [Members -> LeaderState \cup {None}] /\ leader'[n] = Sent(ls, requests)
       /\ log' \in [Members -> Seq(Entry)] /\ log'[n] = longer
       /\ \A x \in Members : x # n => leader'[x] = leader[x] /\ log'[x] = log[x]
  BY <1>3, <1>5, <1>8 DEF TypeOK, FieldTypes
<1>12. messages' \subseteq Message
  BY <1>5, <1>7 DEF IsReplication, TypeOK, FieldTypes
<1>13. FieldTypes'
  BY <1>5, <1>9, <1>10, <1>11, <1>12 DEF TypeOK, FieldTypes, callerVars
<1>14. \A x \in Members : applied_index'[x] <= commit_index'[x] /\ commit_index'[x] <= Len(log'[x])
  <2>1. applied_index[n] <= commit
    BY <1>1, <1>6
  <2> QED
    BY <1>5, <1>6, <1>9, <1>11, <2>1, IndexesOrdered
<1>15. \A x \in Members : LeaderTyped(x)'
  BY <1>2, <1>5, <1>8, <1>11, LeadersTyped
<1> QED
  BY <1>13, <1>14, <1>15 DEF TypeOK

\* AppliedThrough keeps the types.
LEMMA AppliedThroughType ==
  ASSUME TypeOK, NEW n \in Members, AppliedThrough(n)
  PROVE  TypeOK'
<1> DEFINE index == applied_index[n] + 1
<1>1. /\ index \in Nat /\ commit_index[n] \in Nat /\ index <= commit_index[n]
      /\ commit_index[n] <= Len(log[n]) /\ Len(log[n]) \in Nat
  BY DEF TypeOK, FieldTypes, AppliedThrough
<1>2. /\ applied_index' = [applied_index EXCEPT ![n] = index]
      /\ UNCHANGED <<current_term, voted_for, log, commit_index, role, votes, counterVars,
                     messages, committed>>
  BY DEF AppliedThrough
<1>3. /\ leader' \in [Members -> LeaderState \cup {None}]
      /\ \A x \in Members : x # n => leader'[x] = leader[x]
      /\ role[n] # "Leader" => leader'[n] = None
      /\ role[n] = "Leader" => leader'[n] \in LeaderState /\ WithinLog(leader'[n], Len(log[n]))
      /\ ready' \subseteq [floor : Nat, index : Nat]
  <2>1. CASE role[n] = "Leader"
    <3>1. CompleteReadBarriers(n, current_term[n], log[n], commit_index[n], index, leader[n])
      BY <2>1 DEF AppliedThrough
    <3>2. /\ leader[n] \in LeaderState /\ WithinLog(leader[n], Len(log[n]))
          /\ leader \in [Members -> LeaderState \cup {None}]
      BY <2>1 DEF TypeOK, FieldTypes, LeaderTyped
    <3> HIDE DEF index
    <3> QED
      BY <1>1, <2>1, <3>1, <3>2, CompleteReadBarriersType
  <2>2. CASE role[n] # "Leader"
    BY <2>2 DEF AppliedThrough, NoneReady, TypeOK, FieldTypes, LeaderTyped
  <2> QED
    BY <2>1, <2>2
<1>4. applied_index' \in [Members -> Nat] /\ applied_index'[n] = index
      /\ \A x \in Members : x # n => applied_index'[x] = applied_index[x]
  BY <1>1, <1>2 DEF TypeOK, FieldTypes
<1>5. FieldTypes'
  BY <1>2, <1>3, <1>4 DEF TypeOK, FieldTypes, counterVars
<1>6. \A x \in Members : applied_index'[x] <= commit_index'[x] /\ commit_index'[x] <= Len(log'[x])
  BY <1>1, <1>2, <1>4, IndexesOrdered
<1>7. \A x \in Members : LeaderTyped(x)'
  BY <1>2, <1>3, LeadersTyped
<1> QED
  BY <1>5, <1>6, <1>7 DEF TypeOK

\* BeginReadBarrier keeps the types.
LEMMA BeginReadBarrierType ==
  ASSUME TypeOK, NEW n \in Members, BeginReadBarrier(n)
  PROVE  TypeOK'
<1> DEFINE b == next_read_id[n]
           id == next_append_probe_id[n]
           required == IF CommittedThisTerm(current_term[n], log[n], commit_index[n])
                       THEN commit_index[n] ELSE None
           barrier == [probe_id |-> id, acknowledgements |-> {n}, required |-> required,
                       quorum_confirmed |-> Satisfies(ReadQuorums, {n}), floor |-> Len(committed)]
           ls == [leader[n] EXCEPT !.read_barriers[b] = barrier]
           contacts == Contact(n, current_term[n], log[n], commit_index[n], ls, Peers(n), id, b)
<1>1. /\ log[n] \in Seq(Entry) /\ Len(log[n]) \in Nat
      /\ commit_index[n] \in Nat /\ applied_index[n] \in Nat /\ current_term[n] \in Nat
      /\ id \in Nat /\ b \in ReadBarrierId /\ b \in Nat /\ Peers(n) \in SUBSET Members
      /\ Len(committed) \in Nat
  BY DEF TypeOK, FieldTypes, Peers, BeginReadBarrier
<1>2. leader[n] \in LeaderState /\ WithinLog(leader[n], Len(log[n])) /\ role[n] = "Leader"
  BY DEF TypeOK, FieldTypes, LeaderTyped, BeginReadBarrier
<1>3. barrier \in Barrier
  <2>1. required \in Nat \cup {None}
    BY <1>1
  <2>2. Satisfies(ReadQuorums, {n}) \in BOOLEAN
    BY DEF Satisfies
  <2> HIDE DEF required, id
  <2> QED
    BY <1>1, <2>1, <2>2 DEF Barrier
<1>4. /\ next_read_id' = [next_read_id EXCEPT ![n] = b + 1]
      /\ UNCHANGED <<durableVars, commit_index, role, votes, heartbeats, restarts, committed>>
      /\ \/ /\ CompleteReadBarriers(n, current_term[n], log[n], commit_index[n], applied_index[n], ls)
            /\ UNCHANGED <<next_append_probe_id, messages>>
         \/ /\ leader' = [leader EXCEPT ![n] = ls]
            /\ messages' = messages \cup contacts
            /\ NumberRounds(n, 1)
            /\ ready' = {}
  BY DEF BeginReadBarrier, Send, NoneReady
<1> HIDE DEF barrier, b, id
<1>5. ls \in LeaderState /\ WithinLog(ls, Len(log[n]))
  <2>1. [leader[n].read_barriers EXCEPT ![b] = barrier] \in [ReadBarrierId -> Barrier \cup {None}]
    BY <1>1, <1>2, <1>3 DEF LeaderState
  <2> QED
    BY <1>2, <2>1 DEF LeaderState, WithinLog
<1> HIDE DEF ls
<1>6. contacts \subseteq Message
  BY <1>1, <1>5, ContactType
<1> HIDE DEF contacts
<1>7. next_read_id' \in [Members -> Nat]
  BY <1>1, <1>4 DEF TypeOK, FieldTypes
<1>8. /\ leader' \in [Members -> LeaderState \cup {None}]
      /\ \A x \in Members : x # n => leader'[x] = leader[x]
      /\ leader'[n] \in LeaderState /\ WithinLog(leader'[n], Len(log[n]))
      /\ ready' \subseteq [floor : Nat, index : Nat]
      /\ messages' \subseteq Message
      /\ next_append_probe_id' \in [Members -> Nat]
  <2>1. CASE /\ CompleteReadBarriers(n, current_term[n], log[n], commit_index[n], applied_index[n], ls)
             /\ UNCHANGED <<next_append_probe_id, messages>>
    <3>1. leader \in [Members -> LeaderState \cup {None}] /\ messages \subseteq Message
          /\ next_append_probe_id \in [Members -> Nat]
      BY DEF TypeOK, FieldTypes
    <3> QED
      BY <1>1, <1>5, <2>1, <3>1, CompleteReadBarriersType
  <2>2. CASE /\ leader' = [leader EXCEPT ![n] = ls]
             /\ messages' = messages \cup contacts
             /\ NumberRounds(n, 1)
             /\ ready' = {}
    <3>1. next_append_probe_id' \in [Members -> Nat]
      BY <2>2 DEF TypeOK, FieldTypes, NumberRounds
    <3> QED
      BY <1>5, <1>6, <2>2, <3>1 DEF TypeOK, FieldTypes
  <2> QED
    BY <1>4, <2>1, <2>2
<1>9. FieldTypes'
  BY <1>4, <1>7, <1>8 DEF TypeOK, FieldTypes, durableVars
<1>10. \A x \in Members : LeaderTyped(x)'
  BY <1>2, <1>4, <1>8, LeadersTyped DEF durableVars
<1> QED
  BY <1>4, <1>9, <1>10 DEF TypeOK, durableVars

\* CancelReadBarrier keeps the types.
LEMMA CancelReadBarrierType ==
  ASSUME TypeOK, NEW n \in Members, NEW b \in ReadBarrierId, CancelReadBarrier(n, b)
  PROVE  TypeOK'
<1> DEFINE ls == [leader[n] EXCEPT !.read_barriers[b] = None]
<1>1. leader[n] \in LeaderState /\ WithinLog(leader[n], Len(log[n])) /\ role[n] = "Leader"
  BY DEF TypeOK, FieldTypes, LeaderTyped, CancelReadBarrier
<1>2. ls \in LeaderState /\ WithinLog(ls, Len(log[n]))
  <2>1. [leader[n].read_barriers EXCEPT ![b] = None] \in [ReadBarrierId -> Barrier \cup {None}]
    BY <1>1 DEF LeaderState
  <2> QED
    BY <1>1, <2>1 DEF LeaderState, WithinLog
<1>3. /\ leader' = [leader EXCEPT ![n].read_barriers[b] = None]
      /\ UNCHANGED <<durableVars, commit_index, role, votes, counterVars, messages, committed>>
      /\ ready' = {}
  BY DEF CancelReadBarrier, NoneReady
<1>4. leader' = [leader EXCEPT ![n] = ls]
  BY <1>1, <1>3 DEF LeaderState, TypeOK, FieldTypes
<1> HIDE DEF ls
<1>5. /\ leader' \in [Members -> LeaderState \cup {None}] /\ leader'[n] = ls
      /\ \A x \in Members : x # n => leader'[x] = leader[x]
  BY <1>2, <1>4 DEF TypeOK, FieldTypes
<1>6. FieldTypes'
  BY <1>3, <1>5 DEF TypeOK, FieldTypes, durableVars, counterVars
<1>7. \A x \in Members : LeaderTyped(x)'
  BY <1>1, <1>2, <1>3, <1>5, LeadersTyped DEF durableVars
<1> QED
  BY <1>3, <1>6, <1>7 DEF TypeOK, durableVars

\* Restart keeps the types.
LEMMA RestartType ==
  ASSUME TypeOK, NEW n \in Members, Restart(n)
  PROVE  TypeOK'
<1>1. /\ restarts < MaxRestarts /\ restarts' = restarts + 1
      /\ FollowLeader(n)
      /\ commit_index' = [commit_index EXCEPT ![n] = applied_index[n]]
      /\ next_append_probe_id' = [next_append_probe_id EXCEPT ![n] = 1]
      /\ next_read_id' = [next_read_id EXCEPT ![n] = 1]
      /\ UNCHANGED <<durableVars, heartbeats, messages, committed>>
      /\ ready' = {}
  BY DEF Restart, NoneReady
<1>2. restarts' \in 0..MaxRestarts
  BY <1>1, ValueAssumption DEF TypeOK, FieldTypes
<1>3. FieldTypes'
  BY <1>1, <1>2, FollowLeaderType DEF TypeOK, FieldTypes, durableVars
<1>4. \A x \in Members : applied_index'[x] <= commit_index'[x] /\ commit_index'[x] <= Len(log'[x])
  <2>1. /\ applied_index[n] \in Nat /\ commit_index[n] \in Nat /\ Len(log[n]) \in Nat
        /\ applied_index[n] <= commit_index[n] /\ commit_index[n] <= Len(log[n])
    BY DEF TypeOK, FieldTypes
  <2>2. commit_index'[n] = applied_index[n]
        /\ \A x \in Members : x # n => commit_index'[x] = commit_index[x]
    BY <1>1 DEF TypeOK, FieldTypes
  <2>3. applied_index[n] <= Len(log[n]) /\ applied_index[n] <= applied_index[n]
    BY <2>1
  <2> QED
    BY <1>1, <2>2, <2>3, IndexesOrdered DEF durableVars
<1>5. \A x \in Members : LeaderTyped(x)'
  BY <1>1, FollowLeaderType, LeadersTyped DEF durableVars
<1> QED
  BY <1>3, <1>4, <1>5 DEF TypeOK

\* Every step keeps the types.
LEMMA NextType ==
  ASSUME TypeOK, [Next]_vars
  PROVE  TypeOK'
<1>1. CASE UNCHANGED vars
  <2>1. FieldTypes'
    BY <1>1 DEF TypeOK, FieldTypes, vars
  <2>2. \A x \in Members : LeaderTyped(x)'
    BY <1>1 DEF TypeOK, LeaderTyped, vars
  <2> QED
    BY <1>1, <2>1, <2>2 DEF TypeOK, vars
<1>2. ASSUME NEW n \in Members, NEW c \in Commands, Propose(n, c)
      PROVE  TypeOK'
  BY <1>2, Append1Type DEF Propose
<1>3. ASSUME NEW n \in Members, ConfirmTerm(n)
      PROVE  TypeOK'
  BY <1>3, Append1Type DEF ConfirmTerm
<1> QED
  BY <1>1, <1>2, <1>3, ElectionTimeoutType, HeartbeatType, AppliedThroughType, BeginReadBarrierType,
     CancelReadBarrierType, RestartType, HandleVoteRequestType, HandleVoteResponseType, StepDownType,
     RejectStaleAppendType, RejectAppendType, AcceptAppendType, HandleContactResponseType,
     HandleReplicationResponseType
  DEF Next

\* Every handler keeps the core's fields typed, its indexes ordered and every
\* position a leader keeps about a peer inside its own log.
THEOREM TypeCorrect == Spec => []TypeOK
<1>1. Init => TypeOK
  BY InitType
<1>2. TypeOK /\ [Next]_vars => TypeOK'
  BY NextType
<1> QED
  BY <1>1, <1>2, PTL DEF Spec
-----------------------------------------------------------------------------
(* What one step may do to votes.                                           *)

\* A message that is sent in a step speaks for its sender's durable vote.
Speaks(m) ==
  /\ m.type \in {"VoteRequest", "AppendRequest"} =>
       current_term'[m.from] = m.term /\ voted_for'[m.from] = m.from
  /\ m.type = "AppendRequest" => role'[m.from] = "Leader"
  /\ m.type = "VoteResponse" /\ m.granted =>
       current_term'[m.from] = m.term /\ voted_for'[m.from] = m.to

\* Messages are only added, and durable votes only move on.
ElectionStep ==
  /\ messages \subseteq messages'
  /\ \A m \in messages' : m \in messages \/ Speaks(m)
  /\ \A v \in Members :
       \/ current_term'[v] > current_term[v]
       \/ current_term'[v] = current_term[v] /\ (voted_for[v] = None \/ voted_for'[v] = voted_for[v])

\* A vote after the step was there before it, or is the voter's durable vote.
LEMMA VotedStep ==
  ASSUME ElectionStep, NEW v \in Members, NEW c \in Members, NEW t, Voted(v, t, c)'
  PROVE  Voted(v, t, c) \/ (current_term'[v] = t /\ voted_for'[v] = c)
<1>1. PICK m \in messages' :
        /\ m.term = t
        /\ \/ m.type \in {"VoteRequest", "AppendRequest"} /\ m.from = c /\ v = c
           \/ m.type = "VoteResponse" /\ m.granted /\ m.from = v /\ m.to = c
  BY DEF Voted
<1>2. CASE m \in messages
  BY <1>1, <1>2 DEF Voted
<1>3. CASE Speaks(m)
  BY <1>1, <1>3 DEF Speaks
<1> QED
  BY <1>2, <1>3 DEF ElectionStep

\* A vote once given stays given.
LEMMA VotedPersists ==
  ASSUME ElectionStep, NEW v, NEW c, NEW t, Voted(v, t, c)
  PROVE  Voted(v, t, c)'
BY DEF ElectionStep, Voted

\* Votes are given in the terms of messages.
LEMMA VotedTerm ==
  ASSUME NEW v, NEW c, NEW t, Voted(v, t, c)
  PROVE  t \in Terms
BY DEF Voted, Terms

\* The terms of messages are numbers.
LEMMA TermsAreNumbers ==
  ASSUME TypeOK', NEW t \in Terms'
  PROVE  t \in Nat
<1>1. PICK m \in messages' : t = m.term
  BY DEF Terms
<1>2. m \in Message
  BY DEF TypeOK, FieldTypes
<1> QED
  BY <1>1, <1>2, MessageFields

\* A step of the right shape keeps every vote final: a voter has moved past its
\* term or still names that candidate.
LEMMA VotesStayFinal ==
  ASSUME TypeOK, TypeOK', VotesAreFinal, ElectionStep
  PROVE  VotesAreFinal'
<1>1. ASSUME NEW v \in Members, NEW c \in Members, NEW t \in Terms', Voted(v, t, c)'
      PROVE  current_term'[v] > t \/ (current_term'[v] = t /\ voted_for'[v] = c)
  <2>1. current_term[v] \in Nat /\ current_term'[v] \in Nat /\ t \in Nat /\ c # None
    BY TermsAreNumbers, ValueAssumption DEF TypeOK, FieldTypes
  <2>2. CASE Voted(v, t, c)
    <3>1. current_term[v] > t \/ (current_term[v] = t /\ voted_for[v] = c)
      BY <2>2, VotedTerm DEF VotesAreFinal
    <3> QED
      BY <2>1, <3>1 DEF ElectionStep
  <2>3. CASE current_term'[v] = t /\ voted_for'[v] = c
    BY <2>3
  <2> QED
    BY <1>1, <2>2, <2>3, VotedStep
<1>2. ASSUME NEW v \in Members, NEW c \in Members, NEW d \in Members, NEW t \in Terms',
             Voted(v, t, c)', Voted(v, t, d)'
      PROVE  c = d
  <2>1. current_term'[v] \in Nat /\ t \in Nat
    BY TermsAreNumbers DEF TypeOK, FieldTypes
  <2>2. CASE Voted(v, t, c) /\ Voted(v, t, d)
    BY <2>2, VotedTerm DEF VotesAreFinal
  <2>3. CASE current_term'[v] = t
    <3>1. voted_for'[v] = c /\ voted_for'[v] = d
      BY <1>1, <1>2, <2>1, <2>3
    <3> QED
      BY <3>1
  <2> QED
    BY <1>2, <2>2, <2>3, VotedStep
<1> QED
  BY <1>1, <1>2 DEF VotesAreFinal

\* A ballot the sender of an append counted is a vote.
LEMMA AppendsStayElected ==
  ASSUME AppendsAreElected, ElectionStep, BallotsAreReal', TypeOK'
  PROVE  AppendsAreElected'
<1>1. SUFFICES ASSUME NEW m \in messages', m.type = "AppendRequest"
               PROVE  \E Q \in ElectionQuorums : \A v \in Q : Voted(v, m.term, m.from)'
  BY DEF AppendsAreElected
<1>2. CASE m \in messages
  BY <1>1, <1>2, VotedPersists DEF AppendsAreElected
<1>3. CASE Speaks(m)
  <2>1. /\ role'[m.from] = "Leader" /\ current_term'[m.from] = m.term /\ m.from \in Members
    BY <1>1, <1>3, MessageFields DEF Speaks, TypeOK, FieldTypes
  <2>2. PICK Q \in ElectionQuorums : \A v \in Q : Ballot(m.from, v)'
    BY <2>1 DEF BallotsAreReal
  <2>3. \A v \in Q : Voted(v, m.term, m.from)'
    BY <1>1, <2>1, <2>2 DEF Ballot, Voted
  <2> QED
    BY <2>3
<1> QED
  BY <1>2, <1>3 DEF ElectionStep

\* A tally that n does not touch stays real.
LEMMA BallotsOfOthers ==
  ASSUME BallotsAreReal, NEW n \in Members, messages \subseteq messages',
         \A x \in Members : x # n => /\ role'[x] = role[x] /\ votes'[x] = votes[x]
                                     /\ current_term'[x] = current_term[x]
                                     /\ voted_for'[x] = voted_for[x],
         role'[n] # "Follower" => voted_for'[n] = n,
         role'[n] = "Candidate" => \A v \in votes'[n] : Ballot(n, v)',
         role'[n] = "Leader" => \E Q \in ElectionQuorums : \A v \in Q : Ballot(n, v)'
  PROVE  BallotsAreReal'
<1>1. \A x \in Members : \A v : x # n /\ Ballot(x, v) => Ballot(x, v)'
  BY DEF Ballot
<1> QED
  BY <1>1 DEF BallotsAreReal

\* A step that leaves roles, tallies and durable votes alone.
LEMMA BallotsUntouched ==
  ASSUME BallotsAreReal, messages \subseteq messages',
         UNCHANGED <<role, votes, current_term, voted_for>>
  PROVE  BallotsAreReal'
<1>1. \A x \in Members : \A v : Ballot(x, v) => Ballot(x, v)'
  BY DEF Ballot
<1> QED
  BY <1>1 DEF BallotsAreReal
-----------------------------------------------------------------------------
(* The actions.                                                             *)

\* What every handler that ends as a follower of the request's or response's
\* term does to durable votes.
LEMMA SetVoteStateStep ==
  ASSUME TypeOK, NEW n \in Members, NEW term \in Nat, NEW vote, SetVoteState(n, term, vote)
  PROVE  /\ current_term'[n] = term /\ voted_for'[n] = vote
         /\ \A x \in Members : x # n => /\ current_term'[x] = current_term[x]
                                        /\ voted_for'[x] = voted_for[x]
BY DEF TypeOK, FieldTypes, SetVoteState

\* Becoming leader of a term in which n voted for itself and has a quorum.
LEMMA BecomeLeaderStep ==
  ASSUME TypeOK, BallotsAreReal, NEW n \in Members, NEW term \in Nat, BecomeLeader(n, term),
         current_term'[n] = term, voted_for'[n] = n,
         \A x \in Members : x # n => /\ current_term'[x] = current_term[x]
                                     /\ voted_for'[x] = voted_for[x],
         current_term[n] < term \/ (current_term[n] = term /\ voted_for[n] = n),
         NEW Q \in ElectionQuorums, \A v \in Q : Ballot(n, v)'
  PROVE  ElectionStep /\ BallotsAreReal'
<1> DEFINE fresh == FreshLeader(n, Len(log[n]))
           requests == Replicate(n, term, log[n], commit_index[n], fresh, Peers(n))
<1>1. \A m \in requests : m.type = "AppendRequest" /\ m.from = n /\ m.term = term
  BY DEF Replicate, AppendRequest
<1>2. /\ role' = [role EXCEPT ![n] = "Leader"]
      /\ votes' = [votes EXCEPT ![n] = {}]
      /\ messages' = messages \cup requests
  BY DEF BecomeLeader, Send
<1> HIDE DEF requests
<1>3. /\ role'[n] = "Leader"
      /\ \A x \in Members : x # n => role'[x] = role[x] /\ votes'[x] = votes[x]
  BY <1>2 DEF TypeOK, FieldTypes
<1>4. \A m \in requests : Speaks(m)
  BY <1>1, <1>3 DEF Speaks
<1>5. \A v \in Members : current_term[v] \in Nat
  BY DEF TypeOK, FieldTypes
<1>6. ElectionStep
  BY <1>2, <1>4, <1>5 DEF ElectionStep
<1>7. BallotsAreReal'
  BY <1>2, <1>3, BallotsOfOthers
<1> QED
  BY <1>6, <1>7

\* ElectionTimeout keeps the election evidence.
LEMMA ElectionTimeoutStep ==
  ASSUME TypeOK, BallotsAreReal, NEW n \in Members, ElectionTimeout(n)
  PROVE  ElectionStep /\ BallotsAreReal'
<1> DEFINE term == current_term[n] + 1
           requests == {[type |-> "VoteRequest", from |-> n, to |-> v, term |-> term,
                         last_log |-> LastPosition(log[n])] : v \in Voters \ {n}}
<1>1. current_term[n] \in Nat /\ term \in Nat /\ SetVoteState(n, term, n)
  BY DEF TypeOK, FieldTypes, ElectionTimeout
<1>2. /\ current_term'[n] = term /\ voted_for'[n] = n
      /\ \A x \in Members : x # n => /\ current_term'[x] = current_term[x]
                                     /\ voted_for'[x] = voted_for[x]
  BY <1>1, SetVoteStateStep
<1>3. Ballot(n, n)'
  BY DEF Ballot
<1>4. CASE Satisfies(ElectionQuorums, {n}) /\ BecomeLeader(n, term)
  <2>1. PICK Q \in ElectionQuorums : Q \subseteq {n}
    BY <1>4 DEF Satisfies
  <2>2. \A v \in Q : Ballot(n, v)'
    BY <1>3, <2>1
  <2>3. current_term[n] < term
    BY <1>1
  <2> HIDE DEF term
  <2> QED
    BY <1>1, <1>2, <1>4, <2>2, <2>3, BecomeLeaderStep
<1>5. CASE /\ role' = [role EXCEPT ![n] = "Candidate"]
           /\ votes' = [votes EXCEPT ![n] = {n}]
           /\ Send(requests)
  <2>1. /\ role'[n] = "Candidate" /\ votes'[n] = {n}
        /\ \A x \in Members : x # n => role'[x] = role[x] /\ votes'[x] = votes[x]
    BY <1>5 DEF TypeOK, FieldTypes
  <2>2. \A m \in requests : m.type = "VoteRequest" /\ m.from = n /\ m.term = term
    OBVIOUS
  <2>3. messages' = messages \cup requests
    BY <1>5 DEF Send
  <2> HIDE DEF requests
  <2>4. \A m \in requests : Speaks(m)
    BY <1>2, <2>2 DEF Speaks
  <2>5. ElectionStep
    <3>1. current_term'[n] > current_term[n]
      BY <1>1, <1>2
    <3> QED
      BY <1>2, <2>3, <2>4, <3>1 DEF ElectionStep
  <2>6. BallotsAreReal'
    BY <1>2, <1>3, <2>1, <2>3, BallotsOfOthers
  <2> QED
    BY <2>5, <2>6
<1> QED
  BY <1>4, <1>5 DEF ElectionTimeout

\* HandleVoteResponse keeps the election evidence.
LEMMA HandleVoteResponseStep ==
  ASSUME TypeOK, BallotsAreReal, NEW m \in messages, HandleVoteResponse(m.to, m)
  PROVE  ElectionStep /\ BallotsAreReal'
<1> DEFINE n == m.to
           tally == IF m.granted THEN votes[n] \cup {m.from} ELSE votes[n]
<1>1. /\ n \in Members /\ m.term \in Nat /\ m.term = current_term[n]
      /\ role[n] = "Candidate" /\ m.type = "VoteResponse"
  BY MessageFields DEF TypeOK, FieldTypes, HandleVoteResponse
<1>2. UNCHANGED <<current_term, voted_for>>
  BY DEF HandleVoteResponse, durableVars
<1>3. voted_for[n] = n
  BY <1>1 DEF BallotsAreReal
<1>4. \A v \in tally : Ballot(n, v)
  <2>1. \A v \in votes[n] : Ballot(n, v)
    BY <1>1 DEF BallotsAreReal
  <2>2. m.granted => Ballot(n, m.from)
    BY <1>1 DEF Ballot
  <2> QED
    BY <2>1, <2>2
<1>5. messages \subseteq messages'
  BY DEF HandleVoteResponse, BecomeLeader, Send
<1>6. \A v \in tally : Ballot(n, v)'
  BY <1>2, <1>4, <1>5 DEF Ballot
<1>7. CASE Satisfies(ElectionQuorums, tally) /\ BecomeLeader(n, m.term)
  <2>1. PICK Q \in ElectionQuorums : Q \subseteq tally
    BY <1>7 DEF Satisfies
  <2>2. \A v \in Q : Ballot(n, v)'
    BY <1>6, <2>1
  <2> HIDE DEF n
  <2> QED
    BY <1>1, <1>2, <1>3, <1>7, <2>2, BecomeLeaderStep
<1>8. CASE /\ votes' = [votes EXCEPT ![n] = tally]
           /\ UNCHANGED <<role, messages>>
  <2> HIDE DEF tally
  <2>1. votes'[n] = tally /\ \A x \in Members : x # n => votes'[x] = votes[x]
    BY <1>1, <1>8 DEF TypeOK, FieldTypes
  <2>2. BallotsAreReal'
    BY <1>1, <1>2, <1>3, <1>5, <1>6, <1>8, <2>1, BallotsOfOthers
  <2>3. ElectionStep
    BY <1>2, <1>8 DEF ElectionStep
  <2> QED
    BY <2>2, <2>3
<1> QED
  BY <1>7, <1>8 DEF HandleVoteResponse

\* A reply adds itself to the messages and removes none.
LEMMA ReplyStep ==
  ASSUME NEW m, NEW reply, Reply(m, reply)
  PROVE  messages \subseteq messages' /\ \A x \in messages' : x \in messages \/ x = reply
BY DEF Reply, Send

\* Handlers that end as a follower.
LEMMA FollowStep ==
  ASSUME TypeOK, BallotsAreReal, NEW n \in Members, FollowLeader(n),
         messages \subseteq messages',
         \A m \in messages' : m \in messages \/ Speaks(m),
         \/ current_term'[n] > current_term[n]
         \/ current_term'[n] = current_term[n] /\ (voted_for[n] = None \/ voted_for'[n] = voted_for[n]),
         \A x \in Members : x # n => /\ current_term'[x] = current_term[x]
                                     /\ voted_for'[x] = voted_for[x]
  PROVE  ElectionStep /\ BallotsAreReal'
<1>1. ElectionStep
  BY DEF ElectionStep
<1>2. /\ role'[n] = "Follower"
      /\ \A x \in Members : x # n => role'[x] = role[x] /\ votes'[x] = votes[x]
  BY DEF FollowLeader, TypeOK, FieldTypes
<1> QED
  BY <1>1, <1>2, BallotsOfOthers

\* Handlers that leave roles, tallies and durable votes alone: what they send
\* is no vote, or an append of a leader of its own term.
LEMMA QuietStep ==
  ASSUME TypeOK, BallotsAreReal, NEW n \in Members,
         UNCHANGED <<role, votes, current_term, voted_for>>,
         messages \subseteq messages',
         \A m \in messages' :
            \/ m \in messages
            \/ m.type = "AppendResponse"
            \/ m.type = "VoteResponse" /\ ~m.granted
            \/ /\ m.type = "AppendRequest" /\ m.from = n /\ m.term = current_term[n]
               /\ role[n] = "Leader"
  PROVE  ElectionStep /\ BallotsAreReal'
<1>1. role[n] = "Leader" => voted_for[n] = n
  BY DEF BallotsAreReal
<1>2. \A m \in messages' : m \in messages \/ Speaks(m)
  BY <1>1 DEF Speaks
<1>3. ElectionStep
  BY <1>2 DEF ElectionStep
<1> QED
  BY <1>3, BallotsUntouched

\* HandleVoteRequest keeps the election evidence.
LEMMA HandleVoteRequestStep ==
  ASSUME TypeOK, BallotsAreReal, NEW m \in messages, HandleVoteRequest(m.to, m)
  PROVE  ElectionStep /\ BallotsAreReal'
<1> DEFINE n == m.to
           granted == PositionAtLeast(m.last_log, LastPosition(log[n])) /\ CanVote(n, m)
           vote == IF granted THEN m.from ELSE None
           reply == VoteResponse(n, m, m.term, granted)
<1>1. n \in Members /\ m.term \in Nat /\ current_term[n] \in Nat
  BY MessageFields DEF TypeOK, FieldTypes
<1>2. CASE /\ Reply(m, VoteResponse(n, m, current_term[n], FALSE))
           /\ UNCHANGED <<current_term, voted_for, role, votes, leader>>
  <2>1. \A x \in messages' : x \in messages \/ (x.type = "VoteResponse" /\ ~x.granted)
    BY <1>2, ReplyStep DEF VoteResponse
  <2>2. messages \subseteq messages'
    BY <1>2, ReplyStep
  <2> HIDE DEF n
  <2> QED
    BY <1>1, <1>2, <2>1, <2>2, QuietStep
<1>3. CASE /\ m.term > current_term[n] \/ (m.term = current_term[n] /\ granted)
           /\ SetVoteState(n, m.term, vote)
           /\ FollowLeader(n)
           /\ Reply(m, reply)
  <2>1. /\ current_term'[n] = m.term /\ voted_for'[n] = vote
        /\ \A x \in Members : x # n => /\ current_term'[x] = current_term[x]
                                       /\ voted_for'[x] = voted_for[x]
    <3> HIDE DEF vote, n
    <3> QED BY <1>1, <1>3, SetVoteStateStep
  <2>2. Speaks(reply)
    <3>1. /\ reply.type = "VoteResponse" /\ reply.granted = granted /\ reply.from = n
          /\ reply.to = m.from /\ reply.term = m.term
      BY DEF VoteResponse
    <3>2. granted => vote = m.from
      OBVIOUS
    <3> HIDE DEF granted, vote, reply
    <3> QED
      BY <2>1, <3>1, <3>2 DEF Speaks
  <2>3. \/ current_term'[n] > current_term[n]
        \/ current_term'[n] = current_term[n] /\ voted_for[n] = None
    BY <1>1, <1>3, <2>1 DEF CanVote
  <2>4. /\ messages \subseteq messages'
        /\ \A x \in messages' : x \in messages \/ Speaks(x)
    <3> HIDE DEF reply
    <3> QED BY <1>3, <2>2, ReplyStep
  <2> HIDE DEF n, granted, vote, reply
  <2> QED
    BY <1>1, <1>3, <2>1, <2>3, <2>4, FollowStep
<1> QED
  BY <1>2, <1>3 DEF HandleVoteRequest

\* StepDown keeps the election evidence.
LEMMA StepDownStep ==
  ASSUME TypeOK, BallotsAreReal, NEW m \in messages, StepDown(m.to, m)
  PROVE  ElectionStep /\ BallotsAreReal'
<1>1. m.to \in Members /\ m.term \in Nat /\ m.term > current_term[m.to]
  BY MessageFields DEF TypeOK, FieldTypes, StepDown
<1>2. SetVoteState(m.to, m.term, None) /\ FollowLeader(m.to) /\ messages' = messages
  BY DEF StepDown
<1>3. /\ current_term'[m.to] = m.term
      /\ \A x \in Members : x # m.to => /\ current_term'[x] = current_term[x]
                                        /\ voted_for'[x] = voted_for[x]
  BY <1>1, <1>2, SetVoteStateStep
<1> QED
  BY <1>1, <1>2, <1>3, FollowStep

\* An append of a current or newer term.
LEMMA AppendRequestStep ==
  ASSUME TypeOK, BallotsAreReal, NEW m \in messages, NEW accepted,
         m.term >= current_term[m.to], AdoptTerm(m.to, m.term), FollowLeader(m.to),
         Reply(m, AppendResponse(m.to, m, m.term, accepted))
  PROVE  ElectionStep /\ BallotsAreReal'
<1>1. m.to \in Members /\ m.term \in Nat /\ current_term[m.to] \in Nat
  BY MessageFields DEF TypeOK, FieldTypes
<1>2. Speaks(AppendResponse(m.to, m, m.term, accepted))
  BY DEF Speaks, AppendResponse
<1>3. /\ messages \subseteq messages'
      /\ \A x \in messages' : x \in messages \/ Speaks(x)
  BY <1>2, ReplyStep
<1>4. CASE m.term > current_term[m.to]
  <2>1. SetVoteState(m.to, m.term, None)
    BY <1>4 DEF AdoptTerm
  <2>2. /\ current_term'[m.to] = m.term
        /\ \A x \in Members : x # m.to => /\ current_term'[x] = current_term[x]
                                          /\ voted_for'[x] = voted_for[x]
    BY <1>1, <2>1, SetVoteStateStep
  <2> QED
    BY <1>1, <1>3, <1>4, <2>2, FollowStep
<1>5. CASE ~(m.term > current_term[m.to])
  <2>1. UNCHANGED <<current_term, voted_for>>
    BY <1>5 DEF AdoptTerm
  <2> QED
    BY <1>1, <1>3, <2>1, FollowStep
<1> QED
  BY <1>4, <1>5

\* A leader that only sends appends keeps the election evidence.
LEMMA LeaderSendStep ==
  ASSUME TypeOK, BallotsAreReal, NEW n \in Members, role[n] = "Leader",
         UNCHANGED <<role, votes, current_term, voted_for>>,
         NEW requests, messages' = messages \cup requests,
         \A m \in requests : m.type = "AppendRequest" /\ m.from = n /\ m.term = current_term[n]
  PROVE  ElectionStep /\ BallotsAreReal'
BY QuietStep

\* Replication requests carry the sender and its term.
LEMMA ReplicateSender ==
  ASSUME NEW n, NEW term, NEW s, NEW commit, NEW ls, NEW peers
  PROVE  \A m \in Replicate(n, term, s, commit, ls, peers) :
            m.type = "AppendRequest" /\ m.from = n /\ m.term = term
BY DEF Replicate, AppendRequest

\* Contacts carry the sender and its term.
LEMMA ContactSender ==
  ASSUME NEW n, NEW term, NEW s, NEW commit, NEW ls, NEW peers, NEW id, NEW barrier
  PROVE  \A m \in Contact(n, term, s, commit, ls, peers, id, barrier) :
            m.type = "AppendRequest" /\ m.from = n /\ m.term = term
BY DEF Contact, AppendRequest

\* HandleReplicationResponse keeps the election evidence.
LEMMA HandleReplicationResponseStep ==
  ASSUME TypeOK, BallotsAreReal, NEW m \in messages, HandleReplicationResponse(m.to, m)
  PROVE  ElectionStep /\ BallotsAreReal'
<1> DEFINE n == m.to
           after(probe) == Progress(leader[n], m.from, probe, m)
           commitOf(probe) == LeaderCommit(current_term[n], log[n], commit_index[n], after(probe).matched)
           behind(probe) == {p \in {m.from} : after(probe).next[p] <= Len(log[n])}
           requestsOf(probe) ==
             Replicate(n, current_term[n], log[n], commitOf(probe), after(probe), behind(probe))
<1>1. n \in Members /\ role[n] = "Leader"
  BY MessageFields DEF TypeOK, FieldTypes, HandleReplicationResponse
<1>2. UNCHANGED <<role, votes, current_term, voted_for>>
  BY DEF HandleReplicationResponse, durableVars
<1>3. PICK probe \in leader[n].probes[m.from] : Send(requestsOf(probe))
  BY DEF HandleReplicationResponse
<1> HIDE DEF after, commitOf, behind
<1>4. \A r \in requestsOf(probe) : r.type = "AppendRequest" /\ r.from = n /\ r.term = current_term[n]
  BY ReplicateSender
<1> HIDE DEF n, requestsOf
<1>5. messages' = messages \cup requestsOf(probe)
  BY <1>3 DEF Send
<1> QED
  BY <1>1, <1>2, <1>4, <1>5, LeaderSendStep

\* Heartbeat keeps the election evidence.
LEMMA HeartbeatStep ==
  ASSUME TypeOK, BallotsAreReal, NEW n \in Members, Heartbeat(n)
  PROVE  ElectionStep /\ BallotsAreReal'
<1> DEFINE lagging == {p \in Peers(n) : leader[n].matched[p] < Len(log[n])}
           requests == Replicate(n, current_term[n], log[n], commit_index[n], leader[n], lagging)
           contacts == Contact(n, current_term[n], log[n], commit_index[n], leader[n], Peers(n), None, None)
<1>1. /\ role[n] = "Leader" /\ messages' = messages \cup (requests \cup contacts)
      /\ UNCHANGED <<role, votes, current_term, voted_for>>
  BY DEF Heartbeat, Send, durableVars
<1> HIDE DEF lagging
<1>2. \A m \in requests \cup contacts :
         m.type = "AppendRequest" /\ m.from = n /\ m.term = current_term[n]
  BY ReplicateSender, ContactSender
<1> HIDE DEF requests, contacts
<1> QED
  BY <1>1, <1>2, LeaderSendStep

\* Append1 keeps the election evidence.
LEMMA Append1Step ==
  ASSUME TypeOK, BallotsAreReal, NEW n \in Members, NEW command, Append1(n, command)
  PROVE  ElectionStep /\ BallotsAreReal'
<1> DEFINE longer == Append(log[n], [term |-> current_term[n], command |-> command])
           index == Len(log[n]) + 1
           ls == [leader[n] EXCEPT !.matched[n] = index, !.next[n] = index + 1]
           requests == Replicate(n, current_term[n], longer, commit_index[n], ls, Peers(n))
<1>1. /\ role[n] = "Leader" /\ messages' = messages \cup requests
      /\ UNCHANGED <<role, votes, current_term, voted_for>>
  BY DEF Append1, Send
<1> HIDE DEF longer, ls
<1>2. \A m \in requests : m.type = "AppendRequest" /\ m.from = n /\ m.term = current_term[n]
  BY ReplicateSender
<1> HIDE DEF requests
<1> QED
  BY <1>1, <1>2, LeaderSendStep

\* BeginReadBarrier keeps the election evidence.
LEMMA BeginReadBarrierStep ==
  ASSUME TypeOK, BallotsAreReal, NEW n \in Members, BeginReadBarrier(n)
  PROVE  ElectionStep /\ BallotsAreReal'
<1>1. role[n] = "Leader" /\ UNCHANGED <<role, votes, current_term, voted_for>>
  BY DEF BeginReadBarrier, durableVars
<1>2. messages \subseteq messages'
  BY DEF BeginReadBarrier, Send
<1>3. \A m \in messages' :
         m \in messages \/ (m.type = "AppendRequest" /\ m.from = n /\ m.term = current_term[n])
  BY ContactSender DEF BeginReadBarrier, Send
<1> QED
  BY <1>1, <1>2, <1>3, QuietStep

\* Restart keeps the election evidence.
LEMMA RestartStep ==
  ASSUME TypeOK, BallotsAreReal, NEW n \in Members, Restart(n)
  PROVE  ElectionStep /\ BallotsAreReal'
<1>1. FollowLeader(n) /\ UNCHANGED <<current_term, voted_for, messages>>
  BY DEF Restart, durableVars
<1> QED
  BY <1>1, FollowStep

\* Every action.
LEMMA NextStep ==
  ASSUME TypeOK, BallotsAreReal, [Next]_vars
  PROVE  ElectionStep /\ BallotsAreReal'
<1>1. ASSUME UNCHANGED <<role, votes, current_term, voted_for, messages>>
      PROVE  ElectionStep /\ BallotsAreReal'
  BY <1>1, BallotsUntouched DEF ElectionStep
<1>2. CASE UNCHANGED vars
  BY <1>1, <1>2 DEF vars
<1>3. ASSUME NEW n \in Members, AppliedThrough(n)
      PROVE  ElectionStep /\ BallotsAreReal'
  BY <1>1, <1>3 DEF AppliedThrough
<1>4. ASSUME NEW n \in Members, NEW b \in ReadBarrierId, CancelReadBarrier(n, b)
      PROVE  ElectionStep /\ BallotsAreReal'
  BY <1>1, <1>4 DEF CancelReadBarrier, durableVars
<1>5. ASSUME NEW m \in messages, HandleContactResponse(m.to, m)
      PROVE  ElectionStep /\ BallotsAreReal'
  BY <1>1, <1>5 DEF HandleContactResponse, durableVars
<1>6. ASSUME NEW m \in messages, RejectStaleAppend(m.to, m)
      PROVE  ElectionStep /\ BallotsAreReal'
  <2>1. m.to \in Members
    BY MessageFields DEF TypeOK, FieldTypes
  <2>2. /\ Reply(m, AppendResponse(m.to, m, current_term[m.to], FALSE))
        /\ UNCHANGED <<role, votes, current_term, voted_for>>
    BY <1>6 DEF RejectStaleAppend, durableVars
  <2>3. AppendResponse(m.to, m, current_term[m.to], FALSE).type = "AppendResponse"
    BY DEF AppendResponse
  <2>4. /\ messages \subseteq messages'
        /\ \A x \in messages' : x \in messages \/ x.type = "AppendResponse"
    BY <2>2, <2>3, ReplyStep
  <2> QED
    BY <2>1, <2>2, <2>4, QuietStep
<1>7. ASSUME NEW m \in messages, RejectAppend(m.to, m)
      PROVE  ElectionStep /\ BallotsAreReal'
  BY <1>7, AppendRequestStep DEF RejectAppend
<1>8. ASSUME NEW m \in messages, AcceptAppend(m.to, m)
      PROVE  ElectionStep /\ BallotsAreReal'
  BY <1>8, AppendRequestStep DEF AcceptAppend
<1>9. ASSUME NEW n \in Members, NEW c \in Commands, Propose(n, c)
      PROVE  ElectionStep /\ BallotsAreReal'
  BY <1>9, Append1Step DEF Propose
<1>10. ASSUME NEW n \in Members, ConfirmTerm(n)
       PROVE  ElectionStep /\ BallotsAreReal'
  BY <1>10, Append1Step DEF ConfirmTerm
<1> QED
  BY <1>2, <1>3, <1>4, <1>5, <1>6, <1>7, <1>8, <1>9, <1>10, ElectionTimeoutStep, HeartbeatStep,
     BeginReadBarrierStep, RestartStep, HandleVoteRequestStep, HandleVoteResponseStep, StepDownStep,
     HandleReplicationResponseStep
  DEF Next
-----------------------------------------------------------------------------
(* The theorems.                                                            *)

\* The election evidence holds initially.
LEMMA InitEvidence ==
  ASSUME Init
  PROVE  ElectionEvidence
BY DEF Init, ElectionEvidence, VotesAreFinal, BallotsAreReal, AppendsAreElected, Voted, Ballot, Terms

\* Every step keeps the election evidence.
LEMMA NextEvidence ==
  ASSUME TypeOK, ElectionEvidence, [Next]_vars
  PROVE  ElectionEvidence'
<1>1. TypeOK'
  BY NextType
<1>2. ElectionStep /\ BallotsAreReal'
  BY NextStep DEF ElectionEvidence
<1>3. VotesAreFinal'
  BY <1>1, <1>2, VotesStayFinal DEF ElectionEvidence
<1>4. AppendsAreElected'
  BY <1>1, <1>2, AppendsStayElected DEF ElectionEvidence
<1> QED
  BY <1>2, <1>3, <1>4 DEF ElectionEvidence

\* Durable votes are final, tallies are made of them, and no member sends an
\* append without an election quorum of votes in its term.
THEOREM ElectionsAreEvident == Spec => []ElectionEvidence
<1>1. Init => ElectionEvidence
  BY InitEvidence
<1>2. TypeOK /\ ElectionEvidence /\ [Next]_vars => ElectionEvidence'
  BY NextEvidence
<1> QED
  BY <1>1, <1>2, TypeCorrect, PTL DEF Spec

\* Two election quorums share a member, and that member has one vote.
LEMMA EvidenceGivesOneLeader ==
  ASSUME TypeOK, ElectionEvidence
  PROVE  OneLeaderPerTerm
<1>1. SUFFICES ASSUME NEW m1 \in messages, NEW m2 \in messages,
                      m1.type = "AppendRequest", m2.type = "AppendRequest", m1.term = m2.term
               PROVE  m1.from = m2.from
  BY DEF OneLeaderPerTerm
<1>2. m1.from \in Members /\ m2.from \in Members
  BY MessageFields DEF TypeOK, FieldTypes
<1>3. PICK Q1 \in ElectionQuorums : \A v \in Q1 : Voted(v, m1.term, m1.from)
  BY <1>1 DEF ElectionEvidence, AppendsAreElected
<1>4. PICK Q2 \in ElectionQuorums : \A v \in Q2 : Voted(v, m1.term, m2.from)
  BY <1>1 DEF ElectionEvidence, AppendsAreElected
<1>5. PICK v \in Voters : v \in Q1 /\ v \in Q2
  BY PlanAssumption
<1>6. v \in Members /\ m1.term \in Terms
  BY DEF Members, Terms
<1> QED
  BY <1>2, <1>3, <1>4, <1>5, <1>6 DEF ElectionEvidence, VotesAreFinal

\* Election uniqueness: no two members ever send appends in the same term.
THEOREM ElectionUniqueness == Spec => []OneLeaderPerTerm
<1>1. TypeOK /\ ElectionEvidence => OneLeaderPerTerm
  BY EvidenceGivesOneLeader
<1> QED
  BY <1>1, TypeCorrect, ElectionsAreEvident, PTL
-----------------------------------------------------------------------------
(* What log_delta keeps.                                                    *)

\* Two logs that agree up to an index have the same prefix.
LEMMA PrefixAgrees ==
  ASSUME NEW s \in Seq(Entry), NEW t \in Seq(Entry), NEW a \in Nat, a <= Len(s), a <= Len(t),
         \A i \in 1..a : s[i] = t[i]
  PROVE  IsPrefixOf(Prefix(s, a), t)
<1>1. Prefix(s, a) \in Seq(Entry) /\ Len(Prefix(s, a)) = a /\ Prefix(t, a) \in Seq(Entry)
      /\ Len(Prefix(t, a)) = a
  BY PrefixType
<1>2. \A i \in 1..a : Prefix(s, a)[i] = s[i] /\ Prefix(t, a)[i] = t[i]
  BY DEF Prefix
<1>3. Prefix(s, a) = Prefix(t, a)
  BY <1>1, <1>2
<1> QED
  BY <1>1, <1>3 DEF IsPrefixOf

\* log_delta replaces nothing at or below the commit index.
LEMMA AppendDeltaKeeps ==
  ASSUME NEW s \in Seq(Entry), NEW previous \in Nat, previous <= Len(s),
         NEW incoming \in Seq(Entry), NEW commit \in Nat, commit <= Len(s),
         ~DeltaConflictsWithCommit(s, commit, previous, incoming)
  PROVE  \A i \in 1..commit : AppendDelta(s, previous, incoming)[i] = s[i]
<1>1. CASE FreshOffsets(s, previous, incoming) = {}
  BY <1>1 DEF AppendDelta
<1>2. CASE FreshOffsets(s, previous, incoming) # {}
  <2> DEFINE delta == AppendDelta(s, previous, incoming)
  <2>1. Len(s) \in Nat /\ Len(incoming) \in Nat
    OBVIOUS
  <2>2. Prefix(s, previous) \in Seq(Entry) /\ Len(Prefix(s, previous)) = previous
    BY PrefixType
  <2>3. delta = Prefix(s, previous) \o incoming
    BY <1>2 DEF AppendDelta
  <2>4. commit <= previous + Len(incoming)
    <3>1. commit <= Len(delta)
      BY AppendDeltaType
    <3> QED
      BY <2>1, <2>2, <2>3, <3>1
  <2>5. SUFFICES ASSUME NEW i \in 1..commit PROVE delta[i] = s[i]
    OBVIOUS
  <2>6. CASE i <= previous
    <3>1. Prefix(s, previous)[i] = s[i]
      BY <2>6 DEF Prefix
    <3> QED
      BY <2>1, <2>2, <2>3, <2>6, <3>1
  <2>7. CASE i > previous
    <3> DEFINE k == i - previous
    <3>1. k \in 1..Len(incoming) /\ previous + k = i /\ i <= Len(s) /\ i <= commit
      BY <2>1, <2>4, <2>7
    <3>2. delta[i] = incoming[k]
      BY <2>1, <2>2, <2>3, <2>7, <3>1
    <3>3. k \notin FreshOffsets(s, previous, incoming)
      BY <3>1 DEF DeltaConflictsWithCommit
    <3> QED
      BY <3>1, <3>2, <3>3 DEF FreshOffsets
  <2> QED
    BY <2>6, <2>7
<1> QED
  BY <1>1, <1>2
-----------------------------------------------------------------------------
(* What every action does to the log.                                       *)

AppliedKept == \A n \in Members : IsPrefixOf(Prefix(log[n], applied_index[n]), log'[n])

\* It is enough that each log keeps its entries up to the applied index.
LEMMA KeptEntries ==
  ASSUME TypeOK, TypeOK',
         \A n \in Members : /\ applied_index[n] <= Len(log'[n])
                            /\ \A i \in 1..applied_index[n] : log'[n][i] = log[n][i]
  PROVE  AppliedKept
<1>1. SUFFICES ASSUME NEW n \in Members
               PROVE  IsPrefixOf(Prefix(log[n], applied_index[n]), log'[n])
  BY DEF AppliedKept
<1>2. /\ log[n] \in Seq(Entry) /\ log'[n] \in Seq(Entry) /\ applied_index[n] \in Nat
      /\ commit_index[n] \in Nat /\ applied_index[n] <= commit_index[n]
      /\ commit_index[n] <= Len(log[n]) /\ Len(log[n]) \in Nat
  BY DEF TypeOK, FieldTypes
<1>3. applied_index[n] <= Len(log[n])
  BY <1>2
<1> QED
  BY <1>2, <1>3, PrefixAgrees

\* A step that leaves the logs alone keeps what was applied.
LEMMA UnchangedKept ==
  ASSUME TypeOK, TypeOK', log' = log
  PROVE  AppliedKept
<1>1. \A n \in Members : applied_index[n] <= Len(log[n])
  <2>1. \A n \in Members : /\ applied_index[n] \in Nat /\ commit_index[n] \in Nat
                           /\ Len(log[n]) \in Nat /\ applied_index[n] <= commit_index[n]
                           /\ commit_index[n] <= Len(log[n])
    BY DEF TypeOK, FieldTypes
  <2> QED
    BY <2>1
<1> QED
  BY <1>1, KeptEntries

\* append_request replaces no applied entry: log_delta keeps what is at or below
\* the commit index.
LEMMA AcceptAppendKeeps ==
  ASSUME TypeOK, TypeOK', NEW m \in messages, AcceptAppend(m.to, m)
  PROVE  AppliedKept
<1> DEFINE n == m.to
           previous == m.previous.index
           delta == AppendDelta(log[n], previous, m.entries)
<1>1. /\ n \in Members /\ previous \in Nat /\ m.entries \in Seq(Entry)
  BY MessageFields DEF TypeOK, FieldTypes, AcceptAppend, LogPosition
<1>2. /\ log' = [log EXCEPT ![n] = delta]
      /\ previous <= Len(log[n])
      /\ ~DeltaConflictsWithCommit(log[n], commit_index[n], previous, m.entries)
  BY DEF AcceptAppend, PositionMatches
<1>3. \A x \in Members : /\ log[x] \in Seq(Entry) /\ Len(log[x]) \in Nat
                         /\ applied_index[x] \in Nat /\ commit_index[x] \in Nat
                         /\ applied_index[x] <= commit_index[x] /\ commit_index[x] <= Len(log[x])
  BY DEF TypeOK, FieldTypes
<1>4. /\ delta \in Seq(Entry) /\ commit_index[n] <= Len(delta)
      /\ \A i \in 1..commit_index[n] : delta[i] = log[n][i]
  BY <1>1, <1>2, <1>3, AppendDeltaType, AppendDeltaKeeps
<1> HIDE DEF n, delta
<1>5. log'[n] = delta /\ \A x \in Members : x # n => log'[x] = log[x]
  BY <1>1, <1>2 DEF TypeOK, FieldTypes
<1>6. /\ applied_index[n] <= Len(delta)
      /\ \A i \in 1..applied_index[n] : i \in 1..commit_index[n]
  <2>1. Len(delta) \in Nat
    BY <1>4
  <2> QED
    BY <1>1, <1>3, <1>4, <2>1
<1>7. ASSUME NEW x \in Members
      PROVE  /\ applied_index[x] <= Len(log'[x])
             /\ \A i \in 1..applied_index[x] : log'[x][i] = log[x][i]
  <2>1. CASE x = n
    BY <1>4, <1>5, <1>6, <2>1
  <2>2. CASE x # n
    BY <1>3, <1>5, <2>2
  <2> QED
    BY <2>1, <2>2
<1> QED
  BY <1>7, KeptEntries

\* A leader's own append keeps what was applied.
LEMMA Append1Keeps ==
  ASSUME TypeOK, TypeOK', NEW n \in Members, NEW command \in Commands \cup {TermConfirmation},
         Append1(n, command)
  PROVE  AppliedKept
<1> DEFINE entry == [term |-> current_term[n], command |-> command]
<1>1. \A x \in Members : /\ log[x] \in Seq(Entry) /\ Len(log[x]) \in Nat
                         /\ applied_index[x] \in Nat /\ commit_index[x] \in Nat
                         /\ applied_index[x] <= commit_index[x] /\ commit_index[x] <= Len(log[x])
  BY DEF TypeOK, FieldTypes
<1>2. log'[n] = Append(log[n], entry) /\ \A x \in Members : x # n => log'[x] = log[x]
  BY DEF Append1, TypeOK, FieldTypes
<1> HIDE DEF entry
<1>3. Len(log'[n]) = Len(log[n]) + 1 /\ \A i \in 1..Len(log[n]) : log'[n][i] = log[n][i]
  BY <1>1, <1>2
<1>4. ASSUME NEW x \in Members
      PROVE  /\ applied_index[x] <= Len(log'[x])
             /\ \A i \in 1..applied_index[x] : log'[x][i] = log[x][i]
  <2>1. applied_index[x] <= Len(log[x]) /\ \A i \in 1..applied_index[x] : i \in 1..Len(log[x])
    BY <1>1
  <2>2. CASE x = n
    BY <1>1, <1>3, <2>1, <2>2
  <2>3. CASE x # n
    BY <1>2, <2>1, <2>3
  <2> QED
    BY <2>2, <2>3
<1> QED
  BY <1>4, KeptEntries

\* No step replaces an applied entry.
LEMMA NextKeeps ==
  ASSUME TypeOK, [Next]_vars
  PROVE  AppliedKept
<1>1. TypeOK'
  BY NextType
<1>2. ASSUME NEW m \in messages, AcceptAppend(m.to, m)
      PROVE  AppliedKept
  BY <1>1, <1>2, AcceptAppendKeeps
<1>3. ASSUME NEW n \in Members, NEW c \in Commands, Propose(n, c)
      PROVE  AppliedKept
  BY <1>1, <1>3, Append1Keeps DEF Propose
<1>4. ASSUME NEW n \in Members, ConfirmTerm(n)
      PROVE  AppliedKept
  BY <1>1, <1>4, Append1Keeps DEF ConfirmTerm
<1>5. CASE log' = log
  BY <1>1, <1>5, UnchangedKept
<1>6. \/ log' = log
      \/ \E m \in messages : AcceptAppend(m.to, m)
      \/ \E n \in Members, c \in Commands : Propose(n, c)
      \/ \E n \in Members : ConfirmTerm(n)
  BY DEF Next, vars, ElectionTimeout, Heartbeat, AppliedThrough, BeginReadBarrier, CancelReadBarrier,
         Restart, HandleVoteRequest, HandleVoteResponse, StepDown, RejectStaleAppend, RejectAppend,
         HandleContactResponse, HandleReplicationResponse, durableVars
<1> QED
  BY <1>2, <1>3, <1>4, <1>5, <1>6
-----------------------------------------------------------------------------
(* The theorem.                                                             *)

\* Every durable mutation of every step is one the repository accepts: terms
\* never go back, a vote never changes within its term, and a log keeps
\* everything that was applied.
THEOREM DurableContractHolds == Spec => DurableContract
<1>1. TypeOK /\ ElectionEvidence /\ [Next]_vars =>
        [\A n \in Members :
           /\ current_term'[n] >= current_term[n]
           /\ current_term'[n] = current_term[n] /\ voted_for[n] # None => voted_for'[n] = voted_for[n]
           /\ IsPrefixOf(Prefix(log[n], applied_index[n]), log'[n])]_vars
  <2>1. SUFFICES ASSUME TypeOK, ElectionEvidence, [Next]_vars, NEW n \in Members
                 PROVE  /\ current_term'[n] >= current_term[n]
                        /\ current_term'[n] = current_term[n] /\ voted_for[n] # None
                             => voted_for'[n] = voted_for[n]
                        /\ IsPrefixOf(Prefix(log[n], applied_index[n]), log'[n])
    OBVIOUS
  <2>2. current_term[n] \in Nat /\ current_term'[n] \in Nat
    BY <2>1, NextType DEF TypeOK, FieldTypes
  <2>3. ElectionStep
    BY <2>1, NextStep DEF ElectionEvidence
  <2>4. AppliedKept
    BY <2>1, NextKeeps
  <2> QED
    BY <2>2, <2>3, <2>4 DEF ElectionStep, AppliedKept
<1> QED
  BY <1>1, TypeCorrect, ElectionsAreEvident, PTL DEF Spec, DurableContract
=============================================================================
