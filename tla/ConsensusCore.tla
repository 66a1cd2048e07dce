--------------------------- MODULE ConsensusCore ---------------------------
(***************************************************************************)
(* The deterministic consensus core of every metadata partition, one copy  *)
(* per member, under ONE active quorum plan: elections, log replication    *)
(* with correlated probes, commitment, application and linearizable read   *)
(* barriers, over a network that loses, repeats and reorders messages, and *)
(* members that crash and restart from their durable state.                *)
(*                                                                         *)
(* Source: crates/meshspan-consensus/src/core/state.rs and                 *)
(* core/append_probes.rs.  Every action is one CoreInput.  The driver      *)
(* (meshspan-cluster/src/driver.rs) persists a handler's mutation and      *)
(* feeds Persisted back before any other input, so a handler, its durable  *)
(* mutation and its continuation are one step; a crash between persisting  *)
(* and sending is the step, the loss of its messages and a Restart.        *)
(*                                                                         *)
(* All messages carry the one active plan, so validate_plan succeeds; how  *)
(* plans follow one another is the subject of MembershipCoordinator.       *)
(***************************************************************************)
EXTENDS ReplicatedLog, FiniteSets

CONSTANTS
  Voters,            \* plan.spec().voters
  Learners,          \* plan.spec().learners
  EligibleLeaders,   \* plan.spec().eligible_leaders
  ElectionQuorums,   \* the three compiled quorum families
  CommitQuorums,
  ReadQuorums,
  Commands,          \* application commands
  TermConfirmation,  \* the fixed no-op of CoreInput::ConfirmTerm
  None,              \* Option::None
  Readers,           \* the members whose clients ask for linearizable reads
  Crashing,          \* the members that crash and restart
  MaxTerm,           \* bounds on terms, log length and barriers per member
  MaxLog,
  MaxReads,
  MaxHeartbeats,
  MaxRestarts,
  MaxAppendEntries   \* MAXIMUM_APPEND_ENTRIES: entries in one batch

Members == Voters \cup Learners
Entry == [term : Nat, command : Commands \cup {TermConfirmation}]
LogPosition == [term : Nat, index : Nat]
ReadBarrierId == 1..MaxReads

\* The intersections compile_plan proves, and the members it accepts.
ASSUME PlanAssumption ==
  /\ EligibleLeaders \subseteq Voters
  /\ ElectionQuorums \subseteq SUBSET Voters
  /\ CommitQuorums \subseteq SUBSET Voters
  /\ ReadQuorums \subseteq SUBSET Voters
  /\ \A e1, e2 \in ElectionQuorums : e1 \cap e2 # {}
  /\ \A e \in ElectionQuorums, w \in CommitQuorums : e \cap w # {}
  /\ \A e \in ElectionQuorums, r \in ReadQuorums : e \cap r # {}

ASSUME ValueAssumption ==
  /\ None \notin Members
  /\ None \notin Nat
  /\ MaxTerm \in Nat
  /\ MaxLog \in Nat
  /\ MaxReads \in Nat
  /\ MaxHeartbeats \in Nat
  /\ MaxRestarts \in Nat
  /\ MaxAppendEntries \in Nat \ {0}

VARIABLES
  current_term, voted_for, log, applied_index,  \* durable
  commit_index, role, votes,                    \* volatile
  leader,         \* LeaderState, None unless role is Leader
  next_append_probe_id,  \* correlation of the next round of requests, 1 in a new process
  next_read_id,   \* the caller's barrier identities, 1 in a new process
  heartbeats, restarts,  \* how many there have been: bounded by the constants
  messages,       \* every message ever sent: any may be delivered, any number of times, or never
  committed,      \* history: the longest log prefix any member has committed
  ready           \* ReadBarrierReady effects of the latest step, each with its history `floor`

vars == <<current_term, voted_for, log, applied_index, commit_index, role, votes,
          leader, next_append_probe_id, next_read_id, heartbeats, restarts, messages, committed, ready>>
durableVars == <<current_term, voted_for, log, applied_index>>
callerVars == <<next_read_id, heartbeats, restarts>>
counterVars == <<next_append_probe_id, next_read_id, heartbeats, restarts>>
-----------------------------------------------------------------------------
(* Leader state.                                                            *)

\* QuorumPlan::satisfies.
Satisfies(family, acknowledgements) == \E required \in family : required \subseteq acknowledgements

AppendRequest(n, to, term, kind, id, previous, entries, commit, barrier) ==
  [type |-> "AppendRequest", from |-> n, to |-> to, term |-> term, kind |-> kind,
   probe_id |-> id, previous |-> previous, entries |-> entries, leader_commit_index |-> commit,
   read_barrier_id |-> barrier]

\* AppendProbe::from_request: the last position an acceptance of the request proves.
Through(previous, entries) ==
  IF entries = <<>> THEN previous
  ELSE [term |-> entries[Len(entries)].term, index |-> previous.index + Len(entries)]

ProbeOf(m) == [id |-> m.probe_id, previous |-> m.previous, through |-> Through(m.previous, m.entries)]

\* AppendProbes::replication_id: the probe that already asks for the same proof.
Existing(probes, previous, through) ==
  {probe \in probes : probe.previous = previous /\ probe.through = through}

\* probe_effect of a replication probe: the next batch for each of the peers,
\* under its outstanding identity or else a new one.  Every peer has a table of
\* its own, so the new probes of one round share a number.
Replicate(n, term, n_log, commit, ls, peers) ==
  LET previous(p) == Position(n_log, ls.next[p] - 1)
      entries(p)  == Batch(n_log, ls.next[p], MaxAppendEntries)
      existing(p) == Existing(ls.probes[p], previous(p), Through(previous(p), entries(p)))
      id(p) == IF existing(p) = {} THEN next_append_probe_id[n] ELSE (CHOOSE e \in existing(p) : TRUE).id
  IN  {AppendRequest(n, p, term, "Replication", id(p), previous(p), entries(p), commit, None) : p \in peers}

\* probe_effect of a contact probe: no entries, after what each peer has matched.
Contact(n, term, n_log, commit, ls, peers, id, barrier) ==
  {AppendRequest(n, p, term, "Contact", id, Position(n_log, ls.matched[p]), <<>>, commit, barrier) :
     p \in peers}

\* AppendProbes::sent on the replication lane: a probe is outstanding until it
\* is answered, and the newest one may move the peer's frontier back.  The
\* contact lane needs no state of its own: a barrier keeps the number of its
\* contacts, and the one to a peer is outstanding until the peer acknowledges.
\* (The 64 probes a lane holds are more than a run sends; an evicted probe is
\* one whose answer is lost.)
Sent(ls, requests) ==
  LET sent(p) == {ProbeOf(m) : m \in {r \in requests : r.to = p}} IN
  [ls EXCEPT
     !.probes = [p \in Members |-> @[p] \cup sent(p)],
     !.latest = [p \in Members |-> IF sent(p) = {} THEN @[p] ELSE (CHOOSE probe \in sent(p) : TRUE).id]]

\* The numbers a replication round takes: none if every probe was outstanding.
ReplicationRound(n, requests) ==
  IF \E m \in requests : m.probe_id = next_append_probe_id[n] THEN 1 ELSE 0

NumberRounds(n, rounds) ==
  next_append_probe_id' = [next_append_probe_id EXCEPT ![n] = @ + rounds]

Peers(n) == Members \ {n}

\* Mutant: an entry counts as matched by a peer that holds the one before it.
LeaderCommit_OffByOne(term, n_log, commit, matched) ==
  LET candidates == {i \in commit + 1..Len(n_log) :
                       /\ n_log[i].term = term
                       /\ Satisfies(CommitQuorums, {p \in Members : matched[p] >= i - 1})}
  IN  IF candidates = {} THEN commit
      ELSE CHOOSE i \in candidates : \A j \in candidates : j <= i

\* advance_leader_commit: the highest entry of this term that a commit quorum matched.
LeaderCommit(term, n_log, commit, matched) ==
  LET quorum_matched(i) == Satisfies(CommitQuorums, {p \in Members : matched[p] >= i})
      candidates == {i \in commit + 1..Len(n_log) : n_log[i].term = term /\ quorum_matched(i)}
  IN  IF candidates = {} THEN commit
      ELSE CHOOSE i \in candidates : \A j \in candidates : j <= i

\* Mutant: a new leader takes its commit index for the frontier.
CommittedThisTerm_Unchecked(term, n_log, commit) == TRUE

\* The entry at the commit index is of this term.
CommittedThisTerm(term, n_log, commit) == commit > 0 /\ n_log[commit].term = term

\* complete_read_barriers: pending barriers learn the frontier once this term
\* has committed; the confirmed ones the state machine has reached are ready.
FixRequired(term, n_log, commit, barriers) ==
  [b \in ReadBarrierId |->
     IF barriers[b] # None /\ barriers[b].required = None /\ CommittedThisTerm(term, n_log, commit)
     THEN [barriers[b] EXCEPT !.required = commit] ELSE barriers[b]]

ReadyBarriers(term, n_log, commit, applied, barriers) ==
  {b \in ReadBarrierId :
     /\ CommittedThisTerm(term, n_log, commit)
     /\ barriers[b] # None
     /\ barriers[b].quorum_confirmed
     /\ barriers[b].required <= applied}

CompleteReadBarriers(n, term, n_log, commit, applied, ls) ==
  LET fixed == FixRequired(term, n_log, commit, ls.read_barriers)
      completed == ReadyBarriers(term, n_log, commit, applied, fixed)
  IN  /\ leader' = [leader EXCEPT ![n] =
            [ls EXCEPT !.read_barriers = [b \in ReadBarrierId |->
                                            IF b \in completed THEN None ELSE fixed[b]]]]
      /\ ready' = {[floor |-> fixed[b].floor, index |-> fixed[b].required] : b \in completed}
-----------------------------------------------------------------------------
(* Shared pieces of the handlers.                                           *)

\* The reactor's turn (meshspan-cluster/src/metadata_authority.rs,
\* process_effects): what one input commits is applied before the next input.
Idle(n) == applied_index[n] = commit_index[n]

NoneReady == ready' = {}

Send(ms) == messages' = messages \cup ms

\* A reply its addressee discards in every state it can still reach is left
\* out: a refusal in the requester's own term (or older), and the answer to a
\* heartbeat contact, which carries no read barrier.
Inert(m, reply) ==
  /\ reply.term <= m.term
  /\ \/ reply.type = "VoteResponse" /\ ~reply.granted
     \/ reply.type = "AppendResponse" /\ reply.probe_id = None

Reply(m, reply) == Send(IF Inert(m, reply) THEN {} ELSE {reply})

\* Mutant: the role changes and the leader's state stays.
FollowLeader_KeepsState(n) ==
  /\ role' = [role EXCEPT ![n] = "Follower"]
  /\ votes' = [votes EXCEPT ![n] = {}]
  /\ UNCHANGED leader

\* follow_leader: the role's state is dropped with the role.
FollowLeader(n) ==
  /\ role' = [role EXCEPT ![n] = "Follower"]
  /\ votes' = [votes EXCEPT ![n] = {}]
  /\ leader' = [leader EXCEPT ![n] = None]

SetVoteState(n, term, vote) ==
  /\ current_term' = [current_term EXCEPT ![n] = term]
  /\ voted_for' = [voted_for EXCEPT ![n] = vote]

\* commit_index of n becomes c; the history records the longest prefix committed.
CommitThrough(n, n_log, c) ==
  /\ commit_index' = [commit_index EXCEPT ![n] = c]
  /\ committed' = IF c > Len(committed) THEN Prefix(n_log, c) ELSE committed

\* The LeaderState of a new leader: only its own log is known to match.
FreshLeader(n, last) ==
  [matched |-> [p \in Members |-> IF p = n THEN last ELSE 0],
   next |-> [p \in Members |-> last + 1],
   probes |-> [p \in Members |-> {}], latest |-> [p \in Members |-> None],
   read_barriers |-> [b \in ReadBarrierId |-> None]]

\* become_leader at an unchanged log and term.
BecomeLeader(n, term) ==
  LET fresh == FreshLeader(n, Len(log[n]))
      requests == Replicate(n, term, log[n], commit_index[n], fresh, Peers(n))
  IN  /\ role' = [role EXCEPT ![n] = "Leader"]
      /\ votes' = [votes EXCEPT ![n] = {}]
      /\ leader' = [leader EXCEPT ![n] = Sent(fresh, requests)]
      /\ Send(requests)
      /\ NumberRounds(n, ReplicationRound(n, requests))

Init ==
  /\ current_term = [n \in Members |-> 0]
  /\ voted_for = [n \in Members |-> None]
  /\ log = [n \in Members |-> <<>>]
  /\ applied_index = [n \in Members |-> 0]
  /\ commit_index = [n \in Members |-> 0]
  /\ role = [n \in Members |-> "Follower"]
  /\ votes = [n \in Members |-> {}]
  /\ leader = [n \in Members |-> None]
  /\ next_append_probe_id = [n \in Members |-> 1]
  /\ next_read_id = [n \in Members |-> 1]
  /\ heartbeats = 0
  /\ restarts = 0
  /\ messages = {}
  /\ committed = <<>>
  /\ ready = {}
-----------------------------------------------------------------------------
(* Elections.                                                               *)

\* CoreInput::ElectionTimeout: start_election and, once durable, finish_campaign.
ElectionTimeout(n) ==
  LET term == current_term[n] + 1 IN
  /\ Idle(n)
  /\ role[n] # "Leader"
  /\ n \in EligibleLeaders
  /\ term <= MaxTerm
  /\ SetVoteState(n, term, n)
  /\ \/ /\ Satisfies(ElectionQuorums, {n})
        /\ BecomeLeader(n, term)
     \/ /\ ~Satisfies(ElectionQuorums, {n})
        /\ role' = [role EXCEPT ![n] = "Candidate"]
        /\ votes' = [votes EXCEPT ![n] = {n}]
        /\ leader' = [leader EXCEPT ![n] = None]
        /\ UNCHANGED next_append_probe_id
        /\ Send({[type |-> "VoteRequest", from |-> n, to |-> v, term |-> term,
                  last_log |-> LastPosition(log[n])] : v \in Voters \ {n}})
  /\ UNCHANGED <<log, applied_index, commit_index, callerVars, committed>>
  /\ NoneReady

VoteResponse(n, m, term, granted) ==
  [type |-> "VoteResponse", from |-> n, to |-> m.from, term |-> term, granted |-> granted]

\* Mutant: an earlier vote of the same term is forgotten.
CanVote_Again(n, m) == TRUE

\* can_vote; the request of the candidate that already has the vote repeats.
CanVote(n, m) == m.term > current_term[n] \/ voted_for[n] = None

\* vote_request: a stale term, or a member that is no voter, is only answered;
\* a higher term or a new vote is durable before it is answered.  Any other
\* request of the current term changes nothing: it is refused, or it repeats
\* one whose grant is already on the network.
HandleVoteRequest(n, m) ==
  LET granted == PositionAtLeast(m.last_log, LastPosition(log[n])) /\ CanVote(n, m)
  IN  /\ Idle(n)
      /\ m.type = "VoteRequest"
      /\ m.from \in EligibleLeaders
      /\ \/ /\ m.term < current_term[n] \/ n \notin Voters
            /\ Reply(m, VoteResponse(n, m, current_term[n], FALSE))
            /\ UNCHANGED <<current_term, voted_for, role, votes, leader>>
         \/ /\ n \in Voters
            /\ m.term > current_term[n] \/ (m.term = current_term[n] /\ granted)
            /\ SetVoteState(n, m.term, IF granted THEN m.from ELSE None)
            /\ FollowLeader(n)
            /\ Reply(m, VoteResponse(n, m, m.term, granted))
      /\ UNCHANGED <<log, applied_index, commit_index, counterVars, committed>>
      /\ NoneReady

\* persist_step_down: any response of a higher term.
StepDown(n, m) ==
  /\ Idle(n)
  /\ m.type \in {"VoteResponse", "AppendResponse"}
  /\ m.term > current_term[n]
  /\ SetVoteState(n, m.term, None)
  /\ FollowLeader(n)
  /\ UNCHANGED <<log, applied_index, commit_index, counterVars, messages, committed>>
  /\ NoneReady

\* vote_response of the current term at a candidate.
HandleVoteResponse(n, m) ==
  LET tally == IF m.granted THEN votes[n] \cup {m.from} ELSE votes[n]
  IN  /\ Idle(n)
      /\ m.type = "VoteResponse"
      /\ m.term = current_term[n]
      /\ role[n] = "Candidate"
      /\ \/ /\ Satisfies(ElectionQuorums, tally)
            /\ BecomeLeader(n, m.term)
         \/ /\ ~Satisfies(ElectionQuorums, tally)
            /\ votes' = [votes EXCEPT ![n] = tally]
            /\ UNCHANGED <<role, leader, next_append_probe_id, messages>>
      /\ UNCHANGED <<durableVars, commit_index, callerVars, committed>>
      /\ NoneReady
-----------------------------------------------------------------------------
(* Replication.                                                             *)

\* append_reply, sent at `term`.  It answers a probe of the leader's present
\* term, or a read barrier; the number is left out where it means nothing: for a
\* heartbeat's contact, and for a replication probe of an earlier term, since an
\* election clears the leader's probes.  (Numbers start over with the process,
\* so after a restart such a reply may be taken for a conflict with another
\* probe, which moves the peer's frontier back, never below what has matched.)
AppendResponse(n, m, term, accepted) ==
  [type |-> "AppendResponse", from |-> n, to |-> m.from, term |-> term, accepted |-> accepted,
   probe_id |-> IF m.kind = "Replication" /\ term # m.term THEN None ELSE m.probe_id,
   next_index_hint |-> IF m.kind = "Replication" /\ term = m.term /\ ~accepted
                       THEN Max2(1, Min2(m.previous.index, Len(log[n]) + 1)) ELSE 1,
   read_barrier_id |-> m.read_barrier_id]

\* append_request from an older term: answered, nothing changes.
RejectStaleAppend(n, m) ==
  /\ Idle(n)
  /\ m.type = "AppendRequest"
  /\ m.from \in EligibleLeaders
  /\ m.term < current_term[n]
  /\ Reply(m, AppendResponse(n, m, current_term[n], FALSE))
  /\ UNCHANGED <<durableVars, commit_index, role, votes, leader, counterVars, committed>>
  /\ NoneReady

\* Mutant: an append of the same term clears the vote as well.
AdoptTerm_ClearsVote(n, term) == SetVoteState(n, term, None)

\* A higher term is adopted with no vote; the same term keeps its vote.
AdoptTerm(n, term) ==
  IF term > current_term[n] THEN SetVoteState(n, term, None) ELSE UNCHANGED <<current_term, voted_for>>

\* append_request whose previous position the log does not hold.
RejectAppend(n, m) ==
  /\ Idle(n)
  /\ m.type = "AppendRequest"
  /\ m.from \in EligibleLeaders
  /\ m.term >= current_term[n]
  /\ ~PositionMatches(log[n], m.previous)
  /\ AdoptTerm(n, m.term)
  /\ FollowLeader(n)
  /\ Reply(m, AppendResponse(n, m, m.term, FALSE))
  /\ UNCHANGED <<log, applied_index, commit_index, counterVars, committed>>
  /\ NoneReady

\* Mutant: the position the request proves is no bound.
FollowerCommit_Unproven(m, n_log) == Min2(m.leader_commit_index, Len(n_log))

\* advance_follower_commit, no further than the position the request proves.
FollowerCommit(m, n_log) ==
  Min2(Min2(m.leader_commit_index, Through(m.previous, m.entries).index), Len(n_log))

\* append_request that extends a matching prefix: log_delta, then the commit index.
AcceptAppend(n, m) ==
  LET previous == m.previous.index
      n_log    == AppendDelta(log[n], previous, m.entries)
  IN  /\ Idle(n)
      /\ m.type = "AppendRequest"
      /\ m.from \in EligibleLeaders
      /\ m.term >= current_term[n]
      /\ PositionMatches(log[n], m.previous)
      /\ ~DeltaConflictsWithCommit(log[n], commit_index[n], previous, m.entries)
      /\ AdoptTerm(n, m.term)
      /\ log' = [log EXCEPT ![n] = n_log]
      /\ FollowLeader(n)
      /\ CommitThrough(n, n_log, Max2(commit_index[n], FollowerCommit(m, n_log)))
      /\ Reply(m, AppendResponse(n, m, m.term, TRUE))
      /\ UNCHANGED <<applied_index, counterVars>>
      /\ NoneReady

\* append_response to a contact probe: acknowledge_read_barrier, whatever the
\* answer; never replication evidence.
HandleContactResponse(n, m) ==
  LET barriers == leader[n].read_barriers
      b == m.read_barrier_id
      acknowledgements == barriers[b].acknowledgements \cup {m.from}
      acknowledged ==
        [barriers EXCEPT ![b].acknowledgements = acknowledgements,
                         ![b].quorum_confirmed = Satisfies(ReadQuorums, acknowledgements)]
  IN  /\ Idle(n)
      /\ m.type = "AppendResponse"
      /\ m.term = current_term[n]
      /\ role[n] = "Leader"
      /\ b # None
      /\ barriers[b] # None
      /\ barriers[b].probe_id = m.probe_id
      /\ m.from \notin barriers[b].acknowledgements
      /\ CompleteReadBarriers(n, current_term[n], log[n], commit_index[n], applied_index[n],
                              [leader[n] EXCEPT !.read_barriers = acknowledged])
      /\ UNCHANGED <<durableVars, commit_index, role, votes, counterVars, messages, committed>>

\* Mutant: an answer is credited to the furthest probe, not to its own.
Progress_AnyProbe(ls, p, probe, m) ==
  LET through == {q.through.index : q \in ls.probes[p]}
      matched == Max2(ls.matched[p], CHOOSE i \in through : \A j \in through : j <= i)
  IN  IF m.accepted
      THEN [ls EXCEPT !.probes[p] = @ \ {probe},
                      !.matched[p] = matched,
                      !.next[p] = Max2(@, matched + 1)]
      ELSE ls

\* Mutant: a conflict never moves the peer's frontier back.
Progress_NoBacktrack(ls, p, probe, m) ==
  LET matched == Max2(ls.matched[p], probe.through.index)
      answered == [ls EXCEPT !.probes[p] = @ \ {probe}]
  IN  IF m.accepted
      THEN [answered EXCEPT !.matched[p] = matched,
                            !.next[p] = Max2(@, matched + 1)]
      ELSE answered

\* AppendProbes::receive, then ProbeResult::Matched or ProbeResult::Conflict:
\* what the leader now knows of peer p.
Progress(ls, p, probe, m) ==
  LET answered == [ls EXCEPT !.probes[p] = @ \ {probe}]
      matched  == Max2(ls.matched[p], probe.through.index)
      back     == Max2(ls.matched[p] + 1,
                       Min2(Min2(m.next_index_hint, probe.previous.index), ls.next[p] - 1))
      conflict == ls.latest[p] = probe.id /\ probe.previous.index >= ls.matched[p]
  IN  IF m.accepted
      THEN [answered EXCEPT !.matched[p] = matched,
                            !.next[p] = Max2(@, matched + 1)]
      ELSE IF conflict THEN [answered EXCEPT !.next[p] = back] ELSE answered

\* append_response to a replication probe: progress or backtracking, then
\* advance_leader_commit, then the next batch while the peer is behind.
HandleReplicationResponse(n, m) ==
  /\ Idle(n)
  /\ m.type = "AppendResponse"
  /\ m.term = current_term[n]
  /\ role[n] = "Leader"
  /\ \E probe \in leader[n].probes[m.from] :
       LET ls     == Progress(leader[n], m.from, probe, m)
           commit == LeaderCommit(current_term[n], log[n], commit_index[n], ls.matched)
           behind == {p \in {m.from} : ls.next[p] <= Len(log[n])}
           requests == Replicate(n, current_term[n], log[n], commit, ls, behind)
       IN  /\ probe.id = m.probe_id
           /\ leader' = [leader EXCEPT ![n] = Sent(ls, requests)]
           /\ CommitThrough(n, log[n], commit)
           /\ Send(requests)
           /\ NumberRounds(n, ReplicationRound(n, requests))
  /\ UNCHANGED <<durableVars, role, votes, callerVars>>
  /\ NoneReady

\* CoreInput::Heartbeat.
Heartbeat(n) ==
  LET ls == leader[n]
      lagging == {p \in Peers(n) : ls.matched[p] < Len(log[n])}
      requests == Replicate(n, current_term[n], log[n], commit_index[n], ls, lagging)
      contacts == Contact(n, current_term[n], log[n], commit_index[n], ls, Peers(n), None, None)
  IN  /\ Idle(n)
      /\ role[n] = "Leader"
      /\ heartbeats < MaxHeartbeats
      /\ leader' = [leader EXCEPT ![n] = Sent(ls, requests)]
      /\ Send(requests \cup contacts)
      /\ NumberRounds(n, ReplicationRound(n, requests) + 1)
      /\ heartbeats' = heartbeats + 1
      /\ UNCHANGED <<durableVars, commit_index, role, votes, next_read_id, restarts, committed>>
      /\ NoneReady

\* propose and, once durable, finish_proposal.
Append1(n, command) ==
  LET index    == Len(log[n]) + 1
      n_log    == Append(log[n], [term |-> current_term[n], command |-> command])
      ls       == [leader[n] EXCEPT !.matched[n] = index,
                                    !.next[n] = index + 1]
      requests == Replicate(n, current_term[n], n_log, commit_index[n], ls, Peers(n))
  IN  /\ Idle(n)
      /\ role[n] = "Leader"
      /\ index <= MaxLog
      /\ log' = [log EXCEPT ![n] = n_log]
      /\ leader' = [leader EXCEPT ![n] = Sent(ls, requests)]
      /\ Send(requests)
      /\ NumberRounds(n, ReplicationRound(n, requests))
      /\ CommitThrough(n, n_log, LeaderCommit(current_term[n], n_log, commit_index[n], ls.matched))
      /\ UNCHANGED <<current_term, voted_for, applied_index, role, votes, callerVars>>
      /\ NoneReady

\* CoreInput::Propose.
Propose(n, command) == command \in Commands /\ Append1(n, command)

\* CoreInput::ConfirmTerm, which the reactor issues for a read while the log
\* holds no entry of this term.
ConfirmTerm(n) ==
  /\ role[n] = "Leader"
  /\ LastPosition(log[n]).term # current_term[n]
  /\ \E b \in ReadBarrierId : leader[n].read_barriers[b] # None
  /\ Append1(n, TermConfirmation)
-----------------------------------------------------------------------------
(* Application, reads and restarts.                                         *)

\* Mutant: application does not wake the reads that wait for it.
AppliedThrough_NoWake(n) ==
  /\ applied_index[n] < commit_index[n]
  /\ applied_index' = [applied_index EXCEPT ![n] = @ + 1]
  /\ UNCHANGED <<current_term, voted_for, log, commit_index, role, votes, leader, counterVars,
                 messages, committed>>
  /\ NoneReady

\* CoreInput::AppliedThrough, one committed entry at a time as the driver
\* applies them, each in its own durable transaction.
AppliedThrough(n) ==
  LET index == applied_index[n] + 1 IN
  /\ index <= commit_index[n]
  /\ applied_index' = [applied_index EXCEPT ![n] = index]
  /\ \/ /\ role[n] = "Leader"
        /\ CompleteReadBarriers(n, current_term[n], log[n], commit_index[n], index, leader[n])
     \/ /\ role[n] # "Leader"
        /\ UNCHANGED leader
        /\ NoneReady
  /\ UNCHANGED <<current_term, voted_for, log, commit_index, role, votes, counterVars,
                 messages, committed>>

\* CoreInput::BeginReadBarrier with the next identity of the reactor.  The
\* floor is history: what was committed anywhere when the read began.
BeginReadBarrier(n) ==
  LET b == next_read_id[n]
      id == next_append_probe_id[n]
      barrier ==
        [probe_id |-> id,
         acknowledgements |-> {n},
         required |-> IF CommittedThisTerm(current_term[n], log[n], commit_index[n])
                      THEN commit_index[n] ELSE None,
         quorum_confirmed |-> Satisfies(ReadQuorums, {n}),
         floor |-> Len(committed)]
      ls == [leader[n] EXCEPT !.read_barriers[b] = barrier]
      contacts == Contact(n, current_term[n], log[n], commit_index[n], ls, Peers(n), id, b)
  IN  /\ Idle(n)
      /\ n \in Readers
      /\ role[n] = "Leader"
      /\ b \in ReadBarrierId
      /\ next_read_id' = [next_read_id EXCEPT ![n] = b + 1]
      /\ \/ /\ Satisfies(ReadQuorums, {n})
            /\ CompleteReadBarriers(n, current_term[n], log[n], commit_index[n], applied_index[n], ls)
            /\ UNCHANGED <<next_append_probe_id, messages>>
         \/ /\ ~Satisfies(ReadQuorums, {n})
            /\ leader' = [leader EXCEPT ![n] = ls]
            /\ Send(contacts)
            /\ NumberRounds(n, 1)
            /\ NoneReady
      /\ UNCHANGED <<durableVars, commit_index, role, votes, heartbeats, restarts, committed>>

\* CoreInput::CancelReadBarrier: the caller's deadline passed.
CancelReadBarrier(n, b) ==
  /\ Idle(n)
  /\ role[n] = "Leader"
  /\ leader[n].read_barriers[b] # None
  /\ leader' = [leader EXCEPT ![n].read_barriers[b] = None]
  /\ UNCHANGED <<durableVars, commit_index, role, votes, counterVars, messages, committed>>
  /\ NoneReady

\* Mutant: the vote is not durable.
Restart_ForgetsVote(n) ==
  /\ n \in Crashing
  /\ restarts < MaxRestarts
  /\ restarts' = restarts + 1
  /\ FollowLeader(n)
  /\ commit_index' = [commit_index EXCEPT ![n] = applied_index[n]]
  /\ voted_for' = [voted_for EXCEPT ![n] = None]
  /\ next_append_probe_id' = [next_append_probe_id EXCEPT ![n] = 1]
  /\ next_read_id' = [next_read_id EXCEPT ![n] = 1]
  /\ UNCHANGED <<current_term, log, applied_index, heartbeats, messages, committed>>
  /\ NoneReady

\* ConsensusCore::restore after a crash at any point.
Restart(n) ==
  /\ n \in Crashing
  /\ restarts < MaxRestarts
  /\ restarts' = restarts + 1
  /\ FollowLeader(n)
  /\ commit_index' = [commit_index EXCEPT ![n] = applied_index[n]]
  /\ next_append_probe_id' = [next_append_probe_id EXCEPT ![n] = 1]
  /\ next_read_id' = [next_read_id EXCEPT ![n] = 1]
  /\ UNCHANGED <<durableVars, heartbeats, messages, committed>>
  /\ NoneReady

Next ==
  \/ \E n \in Members : ElectionTimeout(n)
  \/ \E n \in Members : Heartbeat(n)
  \/ \E n \in Members, c \in Commands : Propose(n, c)
  \/ \E n \in Members : ConfirmTerm(n)
  \/ \E n \in Members : AppliedThrough(n)
  \/ \E n \in Members : BeginReadBarrier(n)
  \/ \E n \in Members, b \in ReadBarrierId : CancelReadBarrier(n, b)
  \/ \E n \in Members : Restart(n)
  \/ \E m \in messages : HandleVoteRequest(m.to, m)
  \/ \E m \in messages : HandleVoteResponse(m.to, m)
  \/ \E m \in messages : StepDown(m.to, m)
  \/ \E m \in messages : RejectStaleAppend(m.to, m)
  \/ \E m \in messages : RejectAppend(m.to, m)
  \/ \E m \in messages : AcceptAppend(m.to, m)
  \/ \E m \in messages : HandleContactResponse(m.to, m)
  \/ \E m \in messages : HandleReplicationResponse(m.to, m)

Spec == Init /\ [][Next]_vars

\* Fairness.  While a peer is behind, every heartbeat repeats the replication
\* probe it has not answered, so an append or its answer is lost for ever only
\* between members that never hear of each other again.  The contacts of a read
\* barrier are sent once (begin_read_barrier; a heartbeat's contacts carry no
\* barrier), and votes once per election: neither is assumed to arrive.  The
\* reactor applies what is committed and confirms the term of a leader with a
\* waiting read before it takes more work.  Nothing is assumed of elections,
\* proposals, restarts, new reads or the deadlines that cancel reads.
DeliverReplication ==
  \E m \in messages :
     \/ m.type = "AppendRequest" /\ m.kind = "Replication"
          /\ (RejectAppend(m.to, m) \/ AcceptAppend(m.to, m))
     \/ HandleReplicationResponse(m.to, m)

Fairness ==
  /\ WF_vars(DeliverReplication)
  /\ WF_vars(\E n \in Members : AppliedThrough(n))
  /\ WF_vars(\E n \in Members : ConfirmTerm(n))

FairSpec == Spec /\ Fairness
-----------------------------------------------------------------------------
(* What the core promises.                                                  *)

Barrier == [probe_id : Nat, acknowledgements : SUBSET Members, required : Nat \cup {None},
            quorum_confirmed : BOOLEAN, floor : Nat]

Probe == [id : Nat, previous : LogPosition, through : LogPosition]

LeaderState == [matched : [Members -> Nat], next : [Members -> Nat \ {0}],
                probes : [Members -> SUBSET Probe], latest : [Members -> Nat \cup {None}],
                read_barriers : [ReadBarrierId -> Barrier \cup {None}]]

Message ==
  [type : {"VoteRequest"}, from : Members, to : Members, term : Nat, last_log : LogPosition]
    \cup [type : {"VoteResponse"}, from : Members, to : Members, term : Nat, granted : BOOLEAN]
    \cup [type : {"AppendRequest"}, from : Members, to : Members, term : Nat,
          kind : {"Replication", "Contact"}, probe_id : Nat \cup {None}, previous : LogPosition,
          entries : Seq(Entry), leader_commit_index : Nat,
          read_barrier_id : ReadBarrierId \cup {None}]
    \cup [type : {"AppendResponse"}, from : Members, to : Members, term : Nat, accepted : BOOLEAN,
          probe_id : Nat \cup {None}, next_index_hint : Nat,
          read_barrier_id : ReadBarrierId \cup {None}]

\* Every variable keeps the type the ConsensusCore fields give it.
FieldTypes ==
  /\ current_term \in [Members -> Nat]
  /\ voted_for \in [Members -> Voters \cup {None}]
  /\ log \in [Members -> Seq(Entry)]
  /\ applied_index \in [Members -> Nat]
  /\ commit_index \in [Members -> Nat]
  /\ role \in [Members -> {"Follower", "Candidate", "Leader"}]
  /\ votes \in [Members -> SUBSET Members]
  /\ leader \in [Members -> LeaderState \cup {None}]
  /\ next_append_probe_id \in [Members -> Nat]
  /\ next_read_id \in [Members -> Nat]
  /\ heartbeats \in 0..MaxHeartbeats
  /\ restarts \in 0..MaxRestarts
  /\ messages \subseteq Message
  /\ committed \in Seq(Entry)
  /\ ready \subseteq [floor : Nat, index : Nat]

\* Nothing the leader's state says is about positions past a log of this length.
WithinLog(ls, length) ==
  \A p \in Members :
     /\ ls.matched[p] <= length
     /\ ls.next[p] <= length + 1
     /\ \A probe \in ls.probes[p] : probe.previous.index <= length /\ probe.through.index <= length

\* A leader and nobody else has the leader's state.
LeaderTyped(n) ==
  /\ role[n] # "Leader" => leader[n] = None
  /\ role[n] = "Leader" => leader[n] \in LeaderState /\ WithinLog(leader[n], Len(log[n]))

\* The type invariant: field types, the order of the three indexes of a log
\* (validate_durable_state), and the bounds that keep every log access of
\* probe_effect inside the log.
TypeOK ==
  /\ FieldTypes
  /\ \A n \in Members : applied_index[n] <= commit_index[n] /\ commit_index[n] <= Len(log[n])
  /\ \A n \in Members : LeaderTyped(n)

IsPrefixOf(s, t) == Len(s) <= Len(t) /\ s = Prefix(t, Len(s))

\* v's durable vote of term t went to c: c asked for it as its own, or the grant
\* was sent.  Messages are history, so this outlives v's later terms.
Voted(v, t, c) ==
  \E m \in messages :
     /\ m.term = t
     /\ \/ m.type \in {"VoteRequest", "AppendRequest"} /\ m.from = c /\ v = c
        \/ m.type = "VoteResponse" /\ m.granted /\ m.from = v /\ m.to = c

Terms == {m.term : m \in messages}

\* A vote that was sent stays the durable vote until the member leaves the
\* term, and no member votes twice in a term, whatever crashes in between.
VotesAreFinal ==
  \A v, c \in Members, t \in Terms : Voted(v, t, c) =>
     /\ current_term[v] > t \/ (current_term[v] = t /\ voted_for[v] = c)
     /\ \A d \in Members : Voted(v, t, d) => c = d

\* The ballots that make n leader of its term: its own, and grants it received.
Ballot(n, v) ==
  v = n \/ \E m \in messages : /\ m.type = "VoteResponse" /\ m.granted
                               /\ m.from = v /\ m.to = n /\ m.term = current_term[n]

\* A candidate counts only ballots of its own term, a leader has an election
\* quorum of them, and both have voted for themselves.
BallotsAreReal ==
  \A n \in Members :
     /\ role[n] # "Follower" => voted_for[n] = n
     /\ role[n] = "Candidate" => \A v \in votes[n] : Ballot(n, v)
     /\ role[n] = "Leader" => \E Q \in ElectionQuorums : \A v \in Q : Ballot(n, v)

\* Whoever ever sent an append was elected by a quorum in its term.
AppendsAreElected ==
  \A m \in messages : m.type = "AppendRequest" =>
     \E Q \in ElectionQuorums : \A v \in Q : Voted(v, m.term, m.from)

\* The election protocol as an inductive invariant: durable votes are final,
\* tallies are made of them, and no append is sent without a quorum of them.
ElectionEvidence == VotesAreFinal /\ BallotsAreReal /\ AppendsAreElected

\* At most one member ever sends appends in a term (design/consensus.md,
\* election uniqueness).  Sent appends are history: the claim covers leaders
\* that have crashed or stepped down as well as present ones.
OneLeaderPerTerm ==
  LET appends == {m \in messages : m.type = "AppendRequest"}
  IN  \A m1, m2 \in appends : m1.term = m2.term => m1.from = m2.from

\* Two logs that hold the same position agree on everything up to it, which is
\* what the previous-position check of append_request relies on.
LogMatching ==
  \A a, b \in Members : \A i \in 1..Min2(Len(log[a]), Len(log[b])) :
     log[a][i].term = log[b][i].term => Prefix(log[a], i) = Prefix(log[b], i)

\* A leader whose term is not older than the newest committed entry holds
\* every committed entry (leader completeness).
LeaderCompleteness ==
  \A n \in Members :
     role[n] = "Leader" /\ current_term[n] >= LastPosition(committed).term
       => IsPrefixOf(committed, log[n])

\* No member commits an entry that disagrees with what another has committed:
\* every state machine applies a prefix of one sequence of commands.
StateMachineSafety == \A n \in Members : IsPrefixOf(Prefix(log[n], commit_index[n]), committed)

\* A peer that is still in the leader's term holds every entry the leader
\* believes it matched: stale, repeated or reordered responses never
\* overstate replication (AppendProbes).
MatchedIsHeld ==
  \A n, p \in Members :
     role[n] = "Leader" /\ current_term[p] = current_term[n] =>
       /\ leader[n].matched[p] <= Len(log[n])
       /\ leader[n].matched[p] <= Len(log[p])
       /\ Prefix(log[p], leader[n].matched[p]) = Prefix(log[n], leader[n].matched[p])

\* The InvalidInput of log_delta is unreachable: no append that passes the term
\* and previous-position checks would replace a committed entry.
NoCommittedConflict ==
  \A m \in messages :
     /\ m.type = "AppendRequest"
     /\ m.term >= current_term[m.to]
     /\ PositionMatches(log[m.to], m.previous)
     => ~DeltaConflictsWithCommit(log[m.to], commit_index[m.to], m.previous.index, m.entries)

\* The partition is a linearizable log: a barrier that is reported ready is
\* served at an index no older than anything that was committed anywhere when
\* the read began (ReadBarrierReady), and the committed sequence never changes.
Promise == INSTANCE LinearizableLog WITH
             Callers <- Members, ReadIds <- ReadBarrierId, decided <- committed, ready <- ready,
             pending <- UNION {{[caller |-> n, id |-> b, floor |-> leader[n].read_barriers[b].floor] :
                                  b \in {i \in ReadBarrierId : leader[n].read_barriers[i] # None}} :
                               n \in {l \in Members : role[l] = "Leader"}}

ImplementsLinearizableLog == Promise!Spec

\* The mutations the core asks for are the ones the repository accepts: terms
\* never go back, a vote never changes within a term, and nothing that was
\* applied is truncated (metadata/src/repository/consensus.rs refuses them,
\* and a refusal stops the partition).
DurableContract ==
  [][\A n \in Members :
       /\ current_term'[n] >= current_term[n]
       /\ current_term'[n] = current_term[n] /\ voted_for[n] # None => voted_for'[n] = voted_for[n]
       /\ IsPrefixOf(Prefix(log[n], applied_index[n]), log'[n])]_vars

\* No newer leader interferes with n any more.
Undisturbed(n) == role[n] = "Leader" /\ current_term[n] = MaxTerm

\* A leader that nobody replaces brings its whole log to every member, whatever
\* tail earlier leaders left there: backtracking on conflicts and the batches
\* that follow an acceptance never stop short (append_response).
FollowersRepaired ==
  \A n, p \in Members : Undisturbed(n) ~> (Undisturbed(n) => IsPrefixOf(log[n], log[p]))

\* A linearizable read whose contacts a read quorum has acknowledged, at a
\* leader that nobody replaces, is answered or given up: one that began before
\* this term committed anything learns its frontier once the term is confirmed,
\* and one ahead of the state machine is woken by its application
\* (complete_read_barriers, AppliedThrough).  A read that lost a contact is left
\* to its caller's deadline: the core sends no second one.
ConfirmedReadsAnswered ==
  \A n \in Members, b \in ReadBarrierId :
     /\ Undisturbed(n)
     /\ leader[n].read_barriers[b] # None
     /\ leader[n].read_barriers[b].quorum_confirmed
     /\ LastPosition(log[n]).term = current_term[n] \/ Len(log[n]) < MaxLog
     ~> (Undisturbed(n) => leader[n].read_barriers[b] = None)
=============================================================================
