----------------------------- MODULE ReadProofs -----------------------------
(***************************************************************************)
(* ConsensusCore implements LinearizableLog: a read barrier is answered at *)
(* an index no older than anything that was committed, anywhere, before    *)
(* the read began.  This holds as long as no member that serves reads      *)
(* restarts: the numbers that tell the answers to one barrier from those   *)
(* to another start over with the process.  Other members may crash.       *)
(*                                                                         *)
(* The invariant, ReadInv, follows a pending barrier.  Either everything   *)
(* committed before it began is in the leader's own log, and the frontier  *)
(* the barrier learns lies behind it; or a newer term had committed, and   *)
(* then an election quorum had left the leader's term before the barrier   *)
(* began, will never acknowledge it, and so keeps it from a read quorum.   *)
(***************************************************************************)
EXTENDS LogProofs

\* No member that serves reads restarts.
NoReaderRestarts == MaxRestarts = 0 \/ Crashing \cap Readers = {}

-----------------------------------------------------------------------------
(* The invariant.                                                           *)

\* Every number on the network to or from a reader is one the reader has taken.
NumbersAreTaken ==
  \A m \in messages :
     /\ m.type = "AppendRequest" /\ m.from \in Readers /\ m.probe_id # None =>
          m.probe_id < next_append_probe_id[m.from]
     /\ m.type = "AppendResponse" /\ m.to \in Readers /\ m.probe_id # None =>
          m.probe_id < next_append_probe_id[m.to]

\* v has left n's term without an answer to barrier q, so it will never send one.
Silent(n, q, v) ==
  /\ current_term[v] > current_term[n]
  /\ v \notin q.acknowledgements
  /\ \A m \in messages : /\ m.type = "AppendResponse" /\ m.from = v /\ m.to = n
                         /\ m.probe_id = q.probe_id
                         => m.term # current_term[n]

\* No read quorum will ever acknowledge q.
Fenced(n, q) == \E Q \in ElectionQuorums : \A v \in Q : Silent(n, q, v)

\* n holds everything up to the floor of q, and what q requires lies behind it.
Ahead(n, q) ==
  /\ committed[q.floor].term <= current_term[n]
  /\ Holds(committed, q.floor, log[n])
  /\ committed[q.floor].term = current_term[n] => q.floor <= commit_index[n]
  /\ q.required # None => q.floor <= q.required

\* Barrier q of leader n will be answered at its floor or later, or never.
Safe(n, q) ==
  /\ q.floor \in Nat /\ q.floor <= Len(committed)
  /\ q.quorum_confirmed => Satisfies(ReadQuorums, q.acknowledgements)
  /\ q.required # None => q.required \in Nat /\ q.required <= commit_index[n]
  /\ q.floor = 0 \/ Fenced(n, q) \/ Ahead(n, q)

\* b is a pending barrier of leader n.
Pends(n, b) == role[n] = "Leader" /\ b \in ReadBarrierId /\ leader[n].read_barriers[b] # None

BarriersAreSafe == \A n \in Members : \A b : Pends(n, b) => Safe(n, leader[n].read_barriers[b])

\* A leader of the term of the last committed entry has committed it.
CommitsAreOwn ==
  \A n \in Members :
     role[n] = "Leader" /\ committed # <<>> /\ committed[Len(committed)].term = current_term[n]
       => Len(committed) <= commit_index[n]

ReadInv == NumbersAreTaken /\ BarriersAreSafe /\ CommitsAreOwn
-----------------------------------------------------------------------------
(* What a step does to barriers.                                            *)

\* The present term has committed.
Confirmed(n) == CommittedThisTerm(current_term[n], log[n], commit_index[n])

\* q is barrier p of n, with perhaps one more acknowledgement, and perhaps the
\* frontier of the term.
Moves(n, p, q) ==
  /\ q.floor = p.floor /\ q.probe_id = p.probe_id
  /\ \/ q.acknowledgements = p.acknowledgements /\ q.quorum_confirmed = p.quorum_confirmed
     \/ \E a \in messages :
           /\ a.type = "AppendResponse" /\ a.to = n
           /\ a.term = current_term[n] /\ a.probe_id = p.probe_id
           /\ q.acknowledgements = p.acknowledgements \cup {a.from}
           /\ q.quorum_confirmed = Satisfies(ReadQuorums, q.acknowledgements)
  /\ q.required = p.required \/ (q.required = commit_index[n] /\ Confirmed(n))

\* q is pending barrier b of n, or has moved on from it.
Kept(n, b, q) == Pends(n, b) /\ Moves(n, leader[n].read_barriers[b], q)

\* q is a new barrier of n.
Begun(n, q) ==
  /\ n \in Readers /\ role[n] = "Leader"
  /\ q.floor = Len(committed) /\ q.probe_id = next_append_probe_id[n]
  /\ q.acknowledgements = {n} /\ q.quorum_confirmed = Satisfies(ReadQuorums, {n})
  /\ q.required = None \/ (q.required = commit_index[n] /\ Confirmed(n))

\* q is a barrier n has in the course of the step.
From(n, b, q) == Kept(n, b, q) \/ Begun(n, q)

\* An answer a to a barrier of n that is confirmed and knows its frontier.
Answered(n, a) ==
  \E b, q : /\ From(n, b, q)
            /\ q.quorum_confirmed /\ q.required # None
            /\ a.floor = q.floor /\ a.index = q.required

\* Numbers only start over with a restart.
NumbersGrow(n) ==
  \/ next_append_probe_id'[n] >= next_append_probe_id[n]
  \/ n \in Crashing /\ MaxRestarts # 0

\* What n answers, it answers in its term, and to a request.
AnswersRequests(n) ==
  \A a \in messages' : a.type = "AppendResponse" =>
     \/ a \in messages
     \/ /\ a.from = n /\ a.term = current_term'[n]
        /\ \E m \in Requests : m.from = a.to /\ (a.probe_id = None \/ a.probe_id = m.probe_id)

\* Every barrier n has after the step was there before, or is new.
BarriersCome(n) ==
  \A b : Pends(n, b)' => From(n, b, leader'[n].read_barriers[b])

\* What is ready was answered by n, which leads on.
AnswersCome(n) ==
  \A a \in ready' : role[n] = "Leader" /\ role'[n] = "Leader" /\ Answered(n, a)

\* A leader that leads on keeps what it has committed.
CommitsOn(n) == role[n] = "Leader" /\ role'[n] = "Leader" => commit_index'[n] >= commit_index[n]

ReadStep(n) ==
  NumbersGrow(n) /\ AnswersRequests(n) /\ BarriersCome(n) /\ AnswersCome(n) /\ CommitsOn(n)
-----------------------------------------------------------------------------
(* Every action is such a step.                                             *)

\* A handler that answers no read and drops every barrier, or keeps them all.
LEMMA QuietRead ==
  ASSUME TypeOK, NEW n \in Members, ready' = {}, NumbersGrow(n), AnswersRequests(n),
         \/ role'[n] # "Leader"
         \/ /\ role[n] # "Leader"
            /\ \A b \in ReadBarrierId : leader'[n].read_barriers[b] = None
         \/ /\ role[n] = "Leader" /\ commit_index'[n] >= commit_index[n]
            /\ leader'[n].read_barriers = leader[n].read_barriers
  PROVE  ReadStep(n)
<1>1. AnswersCome(n)
  BY DEF AnswersCome
<1>2. BarriersCome(n)
  <2>1. SUFFICES ASSUME NEW b, Pends(n, b)'
                 PROVE  From(n, b, leader'[n].read_barriers[b])
    BY DEF BarriersCome
  <2>2. /\ role[n] = "Leader" /\ commit_index'[n] >= commit_index[n]
        /\ leader'[n].read_barriers = leader[n].read_barriers
    BY <2>1 DEF Pends
  <2>3. Pends(n, b) /\ leader'[n].read_barriers[b] = leader[n].read_barriers[b]
    BY <2>1, <2>2 DEF Pends
  <2> QED
    BY <2>2, <2>3 DEF From, Kept, Moves
<1> QED
  BY <1>1, <1>2 DEF ReadStep, CommitsOn

\* A handler that sends no answer.
LEMMA NoAnswers ==
  ASSUME NEW n, \A m \in messages' : m \in messages \/ m.type # "AppendResponse"
  PROVE  AnswersRequests(n)
BY DEF AnswersRequests

\* HandleVoteRequest.
LEMMA HandleVoteRequestRead ==
  ASSUME TypeOK, NEW m \in messages, HandleVoteRequest(m.to, m)
  PROVE  ReadStep(m.to)
<1> DEFINE n == m.to
<1>1. n \in Members /\ next_append_probe_id[n] \in Nat /\ commit_index[n] \in Nat
  BY MessageFields DEF TypeOK, FieldTypes
<1>2. /\ ready' = {} /\ UNCHANGED <<commit_index, next_append_probe_id>>
  BY DEF HandleVoteRequest, counterVars, NoneReady
<1>3. \E t, g : Reply(m, VoteResponse(n, m, t, g))
  BY DEF HandleVoteRequest
<1>4. \A x \in messages' : x \in messages \/ x.type = "VoteResponse"
  BY <1>3, ReplyStep DEF VoteResponse
<1>5. UNCHANGED <<role, leader>> \/ FollowLeader(n)
  BY DEF HandleVoteRequest
<1>6. NumbersGrow(n) /\ AnswersRequests(n)
  BY <1>1, <1>2, <1>4, NoAnswers DEF NumbersGrow
<1>7. CASE FollowLeader(n)
  <2>1. role'[n] # "Leader"
    BY <1>1, <1>7 DEF FollowLeader, TypeOK, FieldTypes
  <2> HIDE DEF n
  <2> QED
    BY <1>1, <1>2, <1>6, <2>1, QuietRead DEF n
<1>8. CASE UNCHANGED <<role, leader>>
  <2>1. \/ role'[n] # "Leader"
        \/ /\ role[n] = "Leader" /\ commit_index'[n] >= commit_index[n]
           /\ leader'[n].read_barriers = leader[n].read_barriers
    BY <1>1, <1>2, <1>8
  <2> HIDE DEF n
  <2> QED
    BY <1>1, <1>2, <1>6, <2>1, QuietRead DEF n
<1> QED
  BY <1>5, <1>7, <1>8

\* StepDown.
LEMMA StepDownRead ==
  ASSUME TypeOK, NEW m \in messages, StepDown(m.to, m)
  PROVE  ReadStep(m.to)
<1>1. m.to \in Members /\ next_append_probe_id[m.to] \in Nat
  BY MessageFields DEF TypeOK, FieldTypes
<1>2. ready' = {} /\ UNCHANGED <<messages, next_append_probe_id>> /\ FollowLeader(m.to)
  BY DEF StepDown, counterVars, NoneReady
<1>3. role'[m.to] # "Leader"
  BY <1>1, <1>2 DEF FollowLeader, TypeOK, FieldTypes
<1>4. NumbersGrow(m.to) /\ AnswersRequests(m.to)
  BY <1>1, <1>2, NoAnswers DEF NumbersGrow
<1> QED
  BY <1>1, <1>2, <1>3, <1>4, QuietRead

\* Restart.
LEMMA RestartRead ==
  ASSUME TypeOK, NEW n \in Members, Restart(n)
  PROVE  ReadStep(n)
<1>1. ready' = {} /\ UNCHANGED messages /\ FollowLeader(n)
  BY DEF Restart, NoneReady
<1>2. role'[n] # "Leader"
  BY <1>1 DEF FollowLeader, TypeOK, FieldTypes
<1>3. n \in Crashing /\ MaxRestarts # 0
  BY DEF Restart, TypeOK, FieldTypes
<1>4. NumbersGrow(n) /\ AnswersRequests(n)
  BY <1>1, <1>3, NoAnswers DEF NumbersGrow
<1> QED
  BY <1>1, <1>2, <1>4, QuietRead

\* An answer to an append.
LEMMA ReplyAnswers ==
  ASSUME TypeOK, NEW m \in messages, m.type = "AppendRequest", NEW t, NEW accepted,
         Reply(m, AppendResponse(m.to, m, t, accepted)), current_term'[m.to] = t
  PROVE  AnswersRequests(m.to)
<1> DEFINE reply == AppendResponse(m.to, m, t, accepted)
<1>1. /\ reply.from = m.to /\ reply.to = m.from /\ reply.term = t
      /\ reply.probe_id = None \/ reply.probe_id = m.probe_id
  BY DEF AppendResponse
<1>2. m \in Requests
  BY DEF Requests
<1> HIDE DEF reply
<1>3. \A x \in messages' : x \in messages \/ x = reply
  BY ReplyStep DEF reply
<1> QED
  BY <1>1, <1>2, <1>3 DEF AnswersRequests

\* RejectStaleAppend.
LEMMA RejectStaleAppendRead ==
  ASSUME TypeOK, NEW m \in messages, RejectStaleAppend(m.to, m)
  PROVE  ReadStep(m.to)
<1> DEFINE n == m.to
<1>1. n \in Members /\ next_append_probe_id[n] \in Nat /\ commit_index[n] \in Nat
  BY MessageFields DEF TypeOK, FieldTypes
<1>2. /\ ready' = {} /\ UNCHANGED <<commit_index, next_append_probe_id, role, leader, current_term>>
      /\ m.type = "AppendRequest" /\ Reply(m, AppendResponse(m.to, m, current_term[n], FALSE))
  BY DEF RejectStaleAppend, counterVars, durableVars, NoneReady
<1>3. NumbersGrow(n) /\ AnswersRequests(n)
  <2>1. AnswersRequests(m.to)
    BY <1>2, ReplyAnswers
  <2> QED
    BY <1>1, <1>2, <2>1 DEF NumbersGrow
<1>4. \/ role'[n] # "Leader"
      \/ /\ role[n] = "Leader" /\ commit_index'[n] >= commit_index[n]
         /\ leader'[n].read_barriers = leader[n].read_barriers
  BY <1>1, <1>2
<1> HIDE DEF n
<1> QED
  BY <1>1, <1>2, <1>3, <1>4, QuietRead DEF n

\* RejectAppend.
LEMMA RejectAppendRead ==
  ASSUME TypeOK, NEW m \in messages, RejectAppend(m.to, m)
  PROVE  ReadStep(m.to)
<1> DEFINE n == m.to
<1>1. n \in Members /\ next_append_probe_id[n] \in Nat /\ m.term \in Nat /\ m.term >= current_term[n]
  BY MessageFields DEF TypeOK, FieldTypes, RejectAppend
<1>2. /\ ready' = {} /\ UNCHANGED next_append_probe_id /\ FollowLeader(n) /\ AdoptTerm(n, m.term)
      /\ m.type = "AppendRequest" /\ Reply(m, AppendResponse(m.to, m, m.term, FALSE))
  BY DEF RejectAppend, counterVars, NoneReady
<1>3. current_term'[n] = m.term
  BY <1>1, <1>2, AdoptTermStep
<1>4. NumbersGrow(n) /\ AnswersRequests(n)
  <2>1. AnswersRequests(m.to)
    BY <1>2, <1>3, ReplyAnswers
  <2> QED
    BY <1>1, <1>2, <2>1 DEF NumbersGrow
<1>5. role'[n] # "Leader"
  BY <1>1, <1>2 DEF FollowLeader, TypeOK, FieldTypes
<1> HIDE DEF n
<1> QED
  BY <1>1, <1>2, <1>4, <1>5, QuietRead DEF n

\* AcceptAppend.
LEMMA AcceptAppendRead ==
  ASSUME TypeOK, NEW m \in messages, AcceptAppend(m.to, m)
  PROVE  ReadStep(m.to)
<1> DEFINE n == m.to
<1>1. n \in Members /\ next_append_probe_id[n] \in Nat /\ m.term \in Nat /\ m.term >= current_term[n]
  BY MessageFields DEF TypeOK, FieldTypes, AcceptAppend
<1>2. /\ ready' = {} /\ UNCHANGED next_append_probe_id /\ FollowLeader(n) /\ AdoptTerm(n, m.term)
      /\ m.type = "AppendRequest" /\ Reply(m, AppendResponse(m.to, m, m.term, TRUE))
  BY DEF AcceptAppend, counterVars, NoneReady
<1>3. current_term'[n] = m.term
  BY <1>1, <1>2, AdoptTermStep
<1>4. NumbersGrow(n) /\ AnswersRequests(n)
  <2>1. AnswersRequests(m.to)
    BY <1>2, <1>3, ReplyAnswers
  <2> QED
    BY <1>1, <1>2, <2>1 DEF NumbersGrow
<1>5. role'[n] # "Leader"
  BY <1>1, <1>2 DEF FollowLeader, TypeOK, FieldTypes
<1> HIDE DEF n
<1> QED
  BY <1>1, <1>2, <1>4, <1>5, QuietRead DEF n

\* Recording a round keeps the barriers.
LEMMA SentBarriers ==
  ASSUME NEW ls \in LeaderState, NEW requests
  PROVE  Sent(ls, requests).read_barriers = ls.read_barriers
BY DEF Sent, LeaderState

\* Taking an answer keeps the barriers.
LEMMA ProgressBarriers ==
  ASSUME NEW ls \in LeaderState, NEW p, NEW probe, NEW m
  PROVE  Progress(ls, p, probe, m).read_barriers = ls.read_barriers
BY DEF Progress, LeaderState

\* A round takes a number, or none.
LEMMA RoundsGrow ==
  ASSUME TypeOK, NEW n \in Members, NEW requests, NEW k \in Nat,
         \/ NumberRounds(n, ReplicationRound(n, requests))
         \/ NumberRounds(n, ReplicationRound(n, requests) + k)
         \/ NumberRounds(n, k)
  PROVE  NumbersGrow(n)
<1>1. PICK r \in Nat : NumberRounds(n, r)
  BY DEF ReplicationRound
<1>2. next_append_probe_id[n] \in Nat /\ next_append_probe_id'[n] = next_append_probe_id[n] + r
  BY <1>1 DEF NumberRounds, TypeOK, FieldTypes
<1> QED
  BY <1>2 DEF NumbersGrow

\* become_leader starts with no barrier.
LEMMA BecomeLeaderRead ==
  ASSUME TypeOK, NEW n \in Members, role[n] # "Leader", NEW term, BecomeLeader(n, term), ready' = {}
  PROVE  ReadStep(n)
<1> DEFINE fresh == FreshLeader(n, Len(log[n]))
           requests == Replicate(n, term, log[n], commit_index[n], fresh, Peers(n))
<1>1. /\ leader' = [leader EXCEPT ![n] = Sent(fresh, requests)]
      /\ Send(requests) /\ NumberRounds(n, ReplicationRound(n, requests))
  BY DEF BecomeLeader
<1>2. \A b \in ReadBarrierId : Sent(fresh, requests).read_barriers[b] = None
  BY DEF Sent, FreshLeader
<1>3. \A r \in requests : r.type = "AppendRequest"
  BY ReplicateSender
<1> HIDE DEF fresh, requests
<1>4. AnswersRequests(n)
  BY <1>1, <1>3, NoAnswers DEF Send
<1>5. NumbersGrow(n)
  BY <1>1, RoundsGrow
<1>6. \A b \in ReadBarrierId : leader'[n].read_barriers[b] = None
  BY <1>1, <1>2 DEF TypeOK, FieldTypes
<1> QED
  BY <1>4, <1>5, <1>6, QuietRead

\* ElectionTimeout.
LEMMA ElectionTimeoutRead ==
  ASSUME TypeOK, NEW n \in Members, ElectionTimeout(n)
  PROVE  ReadStep(n)
<1>1. ready' = {} /\ role[n] # "Leader"
  BY DEF ElectionTimeout, NoneReady
<1>2. CASE BecomeLeader(n, current_term[n] + 1)
  BY <1>1, <1>2, BecomeLeaderRead
<1>3. CASE /\ role' = [role EXCEPT ![n] = "Candidate"] /\ UNCHANGED next_append_probe_id
           /\ Send({[type |-> "VoteRequest", from |-> n, to |-> v, term |-> current_term[n] + 1,
                     last_log |-> LastPosition(log[n])] : v \in Voters \ {n}})
  <2>1. role'[n] # "Leader"
    BY <1>3 DEF TypeOK, FieldTypes
  <2>2. \A m \in messages' : m \in messages \/ m.type = "VoteRequest"
    BY <1>3 DEF Send
  <2>3. NumbersGrow(n) /\ AnswersRequests(n)
    <3>1. AnswersRequests(n)
      BY <2>2, NoAnswers
    <3> QED
      BY <1>3, <3>1 DEF NumbersGrow, TypeOK, FieldTypes
  <2> QED
    BY <1>1, <2>1, <2>3, QuietRead
<1> QED
  BY <1>2, <1>3 DEF ElectionTimeout

\* HandleVoteResponse.
LEMMA HandleVoteResponseRead ==
  ASSUME TypeOK, NEW m \in messages, HandleVoteResponse(m.to, m)
  PROVE  ReadStep(m.to)
<1>1. PICK n \in Members : n = m.to
  BY MessageFields DEF TypeOK, FieldTypes
<1>2. ready' = {} /\ role[n] = "Candidate"
  BY <1>1 DEF HandleVoteResponse, NoneReady
<1>3. CASE BecomeLeader(n, m.term)
  BY <1>1, <1>2, <1>3, BecomeLeaderRead
<1>4. CASE UNCHANGED <<role, leader, next_append_probe_id, messages>>
  <2>1. NumbersGrow(n) /\ AnswersRequests(n)
    BY <1>4, NoAnswers DEF NumbersGrow, TypeOK, FieldTypes
  <2> QED
    BY <1>1, <1>2, <1>4, <2>1, QuietRead
<1> QED
  BY <1>1, <1>3, <1>4 DEF HandleVoteResponse

\* A leader that sends a round and keeps its barriers.
LEMMA RoundRead ==
  ASSUME TypeOK, NEW n \in Members, role[n] = "Leader", NEW ls \in LeaderState, NEW requests,
         ls.read_barriers = leader[n].read_barriers,
         leader' = [leader EXCEPT ![n] = Sent(ls, requests)], ready' = {},
         NEW sent, Send(sent), \A m \in sent : m.type = "AppendRequest",
         commit_index'[n] >= commit_index[n], NumbersGrow(n)
  PROVE  ReadStep(n)
<1>1. leader'[n] = Sent(ls, requests)
  BY DEF TypeOK, FieldTypes
<1>2. leader'[n].read_barriers = leader[n].read_barriers
  BY <1>1, SentBarriers
<1>3. AnswersRequests(n)
  BY NoAnswers DEF Send
<1> QED
  BY <1>2, <1>3, QuietRead

\* Heartbeat.
LEMMA HeartbeatRead ==
  ASSUME TypeOK, NEW n \in Members, Heartbeat(n)
  PROVE  ReadStep(n)
<1> DEFINE ls == leader[n]
           lagging == {p \in Peers(n) : ls.matched[p] < Len(log[n])}
           requests == Replicate(n, current_term[n], log[n], commit_index[n], ls, lagging)
           contacts == Contact(n, current_term[n], log[n], commit_index[n], ls, Peers(n), None, None)
           sent == requests \cup contacts
<1>1. /\ role[n] = "Leader" /\ leader' = [leader EXCEPT ![n] = Sent(ls, requests)]
      /\ Send(sent) /\ NumberRounds(n, ReplicationRound(n, requests) + 1)
      /\ UNCHANGED commit_index /\ ready' = {}
  BY DEF Heartbeat, NoneReady
<1>2. \A m \in sent : m.type = "AppendRequest"
  BY ReplicateSender, ContactSender
<1>3. ls \in LeaderState /\ commit_index'[n] >= commit_index[n]
  BY <1>1 DEF TypeOK, FieldTypes, LeaderTyped
<1> HIDE DEF requests, sent
<1>4. NumbersGrow(n)
  BY <1>1, RoundsGrow
<1> QED
  BY <1>1, <1>2, <1>3, <1>4, RoundRead

\* HandleReplicationResponse.
LEMMA HandleReplicationResponseRead ==
  ASSUME TypeOK, NEW m \in messages, HandleReplicationResponse(m.to, m)
  PROVE  ReadStep(m.to)
<1>0. PICK n \in Members, from \in Members : n = m.to /\ from = m.from
  BY MessageFields DEF TypeOK, FieldTypes
<1>1. role[n] = "Leader" /\ m.type = "AppendResponse" /\ m.next_index_hint \in Nat /\ ready' = {}
  BY <1>0, MessageFields DEF TypeOK, FieldTypes, HandleReplicationResponse, NoneReady
<1>2. PICK old \in LeaderState, s \in Seq(Entry), ci \in Nat :
        /\ old = leader[n] /\ s = log[n] /\ ci = commit_index[n]
        /\ WithinLog(old, Len(s)) /\ ci <= Len(s) /\ Len(s) \in Nat
  BY <1>1 DEF TypeOK, FieldTypes, LeaderTyped
<1>3. PICK probe, ls, commit, peers, rs :
        /\ probe \in old.probes[from]
        /\ ls = Progress(old, from, probe, m)
        /\ commit = LeaderCommit(current_term[n], s, ci, ls.matched)
        /\ rs = Replicate(n, current_term[n], s, commit, ls, peers)
        /\ leader' = [leader EXCEPT ![n] = Sent(ls, rs)]
        /\ CommitThrough(n, s, commit)
        /\ Send(rs) /\ NumberRounds(n, ReplicationRound(n, rs))
  BY <1>0, <1>2 DEF HandleReplicationResponse
<1>4. ls \in LeaderState /\ ls.read_barriers = leader[n].read_barriers
  BY <1>1, <1>2, <1>3, ProgressType, ProgressBarriers
<1>5. commit_index'[n] >= commit_index[n]
  <2>1. commit >= ci /\ commit \in Nat
    BY <1>2, <1>3, LeaderCommitType
  <2> QED
    BY <1>2, <1>3, <2>1 DEF CommitThrough, TypeOK, FieldTypes
<1>6. \A r \in rs : r.type = "AppendRequest"
  BY <1>3, ReplicateSender
<1>7. NumbersGrow(n)
  BY <1>3, RoundsGrow
<1> QED
  BY <1>0, <1>1, <1>3, <1>4, <1>5, <1>6, <1>7, RoundRead

\* Propose and ConfirmTerm.
LEMMA Append1Read ==
  ASSUME TypeOK, NEW n \in Members, NEW command \in Commands \cup {TermConfirmation},
         Append1(n, command)
  PROVE  ReadStep(n)
<1>1. role[n] = "Leader" /\ ready' = {}
  BY DEF Append1, NoneReady
<1>2. PICK old \in LeaderState, b \in Seq(Entry), t \in Nat, ci \in Nat :
        /\ old = leader[n] /\ b = log[n] /\ t = current_term[n] /\ ci = commit_index[n] /\ ci <= Len(b)
  BY <1>1 DEF TypeOK, FieldTypes, LeaderTyped
<1>3. PICK s \in Seq(Entry), index \in Nat :
        s = Append(b, [term |-> t, command |-> command]) /\ index = Len(b) + 1 /\ Len(s) = index
  <2>1. PICK e \in Entry : e = [term |-> t, command |-> command]
    BY DEF Entry
  <2>2. Append(b, e) \in Seq(Entry) /\ Len(Append(b, e)) = Len(b) + 1 /\ Len(b) + 1 \in Nat
    BY AppendFacts
  <2> QED
    BY <2>1, <2>2
<1>4. PICK ls, rs, commit :
        /\ ls = [old EXCEPT !.matched[n] = index, !.next[n] = index + 1]
        /\ rs = Replicate(n, t, s, ci, ls, Peers(n))
        /\ commit = LeaderCommit(t, s, ci, ls.matched)
        /\ leader' = [leader EXCEPT ![n] = Sent(ls, rs)]
        /\ Send(rs) /\ NumberRounds(n, ReplicationRound(n, rs))
        /\ CommitThrough(n, s, commit)
  BY <1>2, <1>3 DEF Append1
<1>5. ls \in LeaderState /\ ls.read_barriers = leader[n].read_barriers
  <2>1. /\ [old.matched EXCEPT ![n] = index] \in [Members -> Nat]
        /\ [old.next EXCEPT ![n] = index + 1] \in [Members -> Nat \ {0}]
    BY DEF LeaderState
  <2> QED
    BY <1>2, <1>4, <2>1 DEF LeaderState
<1>6. commit_index'[n] >= commit_index[n]
  <2>1. ci <= Len(s)
    BY <1>2, <1>3
  <2>2. commit >= ci /\ commit \in Nat
    BY <1>4, <2>1, LeaderCommitType
  <2> QED
    BY <1>2, <1>4, <2>2 DEF CommitThrough, TypeOK, FieldTypes
<1>7. \A r \in rs : r.type = "AppendRequest"
  BY <1>4, ReplicateSender
<1>8. NumbersGrow(n)
  BY <1>4, RoundsGrow
<1> QED
  BY <1>1, <1>4, <1>5, <1>6, <1>7, <1>8, RoundRead

\* complete_read_barriers: a barrier learns the frontier, or stays.
LEMMA FixKeeps ==
  ASSUME TypeOK, NEW n \in Members, NEW b, NEW q \in Barrier, From(n, b, q),
         NEW f, f = IF q.required = None /\ Confirmed(n) THEN [q EXCEPT !.required = commit_index[n]]
                    ELSE q
  PROVE  From(n, b, f) /\ f.quorum_confirmed = q.quorum_confirmed /\ (Confirmed(n) => f.required # None)
<1>1. CASE q.required = None /\ Confirmed(n)
  <2>1. /\ f.floor = q.floor /\ f.probe_id = q.probe_id /\ f.acknowledgements = q.acknowledgements
        /\ f.quorum_confirmed = q.quorum_confirmed /\ f.required = commit_index[n]
    BY <1>1 DEF Barrier
  <2>2. commit_index[n] # None
    BY ValueAssumption DEF TypeOK, FieldTypes
  <2>3. Kept(n, b, q) => Kept(n, b, f)
    BY <1>1, <2>1 DEF Kept, Moves
  <2>4. Begun(n, q) => Begun(n, f)
    BY <1>1, <2>1 DEF Begun
  <2> QED
    BY <2>1, <2>2, <2>3, <2>4 DEF From
<1>2. CASE ~(q.required = None /\ Confirmed(n))
  BY <1>2
<1> QED
  BY <1>1, <1>2

\* Completing barriers that n keeps or begins.
LEMMA CompletesRead ==
  ASSUME TypeOK, NEW n \in Members, role[n] = "Leader", role'[n] = "Leader",
         commit_index'[n] = commit_index[n], NEW ls \in LeaderState, NEW applied,
         CompleteReadBarriers(n, current_term[n], log[n], commit_index[n], applied, ls),
         \A b \in ReadBarrierId : ls.read_barriers[b] = None \/ From(n, b, ls.read_barriers[b]),
         NumbersGrow(n), AnswersRequests(n)
  PROVE  ReadStep(n)
<1> DEFINE bs == ls.read_barriers
           fixed == FixRequired(current_term[n], log[n], commit_index[n], bs)
           completed == ReadyBarriers(current_term[n], log[n], commit_index[n], applied, fixed)
           after == [b \in ReadBarrierId |-> IF b \in completed THEN None ELSE fixed[b]]
<1>1. /\ leader' = [leader EXCEPT ![n] = [ls EXCEPT !.read_barriers = after]]
      /\ ready' = {[floor |-> fixed[b].floor, index |-> fixed[b].required] : b \in completed}
  BY DEF CompleteReadBarriers
<1>2. leader'[n].read_barriers = after
  BY <1>1 DEF TypeOK, FieldTypes, LeaderState
<1>3. commit_index'[n] >= commit_index[n]
  BY DEF TypeOK, FieldTypes
<1>4. ASSUME NEW b \in ReadBarrierId, fixed[b] # None
      PROVE  From(n, b, fixed[b]) /\ (Confirmed(n) => fixed[b].required # None)
  <2>1. fixed[b] = IF bs[b] # None /\ bs[b].required = None /\ Confirmed(n)
                   THEN [bs[b] EXCEPT !.required = commit_index[n]] ELSE bs[b]
    BY DEF FixRequired, Confirmed
  <2>2. bs[b] # None
    BY <1>4, <2>1
  <2>3. bs[b] \in Barrier /\ From(n, b, bs[b])
    BY <2>2 DEF LeaderState
  <2>4. PICK q \in Barrier : q = bs[b]
    BY <2>3
  <2>5. PICK f : f = fixed[b]
    OBVIOUS
  <2>6. f = IF q.required = None /\ Confirmed(n) THEN [q EXCEPT !.required = commit_index[n]] ELSE q
    BY <2>1, <2>2, <2>4, <2>5
  <2>7. From(n, b, q)
    BY <2>3, <2>4
  <2>8. From(n, b, f) /\ (Confirmed(n) => f.required # None)
    BY ONLY TypeOK, n \in Members, <2>6, <2>7, FixKeeps
  <2> HIDE DEF fixed, bs
  <2> QED
    BY <2>5, <2>8
<1>5. \A b \in completed : /\ b \in ReadBarrierId /\ fixed[b] # None /\ Confirmed(n)
                           /\ fixed[b].quorum_confirmed
  BY DEF ReadyBarriers, Confirmed
<1> HIDE DEF fixed, completed
<1>6. BarriersCome(n)
  <2>1. SUFFICES ASSUME NEW b, Pends(n, b)'
                 PROVE  From(n, b, leader'[n].read_barriers[b])
    BY DEF BarriersCome
  <2>2. b \in ReadBarrierId /\ after[b] # None
    BY <1>2, <2>1 DEF Pends
  <2>3. after[b] = fixed[b]
    BY <2>2
  <2> QED
    BY <1>2, <1>4, <2>2, <2>3
<1>7. AnswersCome(n)
  <2>1. SUFFICES ASSUME NEW a \in ready' PROVE Answered(n, a)
    BY DEF AnswersCome
  <2>2. PICK b \in completed : a = [floor |-> fixed[b].floor, index |-> fixed[b].required]
    BY <1>1
  <2>3. From(n, b, fixed[b]) /\ fixed[b].quorum_confirmed /\ fixed[b].required # None
    BY <1>4, <1>5
  <2> QED
    BY <2>2, <2>3 DEF Answered
<1> QED
  BY <1>3, <1>6, <1>7 DEF ReadStep, CommitsOn

\* A barrier that stays as it is.
LEMMA StaysFrom ==
  ASSUME NEW n, NEW b \in ReadBarrierId, role[n] = "Leader", leader[n].read_barriers[b] # None
  PROVE  From(n, b, leader[n].read_barriers[b])
BY DEF From, Kept, Moves, Pends

\* AppliedThrough.
LEMMA AppliedThroughRead ==
  ASSUME TypeOK, NEW n \in Members, AppliedThrough(n)
  PROVE  ReadStep(n)
<1>1. UNCHANGED <<role, commit_index, next_append_probe_id, messages>>
  BY DEF AppliedThrough, counterVars
<1>2. NumbersGrow(n) /\ AnswersRequests(n)
  BY <1>1 DEF NumbersGrow, AnswersRequests, TypeOK, FieldTypes
<1>3. CASE role[n] = "Leader"
  <2>1. leader[n] \in LeaderState
    BY <1>3 DEF TypeOK, LeaderTyped
  <2>2. CompleteReadBarriers(n, current_term[n], log[n], commit_index[n], applied_index[n] + 1, leader[n])
    BY <1>3 DEF AppliedThrough
  <2>3. \A b \in ReadBarrierId : \/ leader[n].read_barriers[b] = None
                                 \/ From(n, b, leader[n].read_barriers[b])
    BY <1>3, StaysFrom
  <2> QED
    BY <1>1, <1>2, <1>3, <2>1, <2>2, <2>3, CompletesRead
<1>4. CASE role[n] # "Leader"
  <2>1. role'[n] # "Leader" /\ ready' = {}
    BY <1>1, <1>4 DEF AppliedThrough, NoneReady
  <2> QED
    BY <1>2, <2>1, QuietRead
<1> QED
  BY <1>3, <1>4

\* HandleContactResponse.
LEMMA HandleContactResponseRead ==
  ASSUME TypeOK, NEW m \in messages, HandleContactResponse(m.to, m)
  PROVE  ReadStep(m.to)
<1>0. PICK n \in Members : n = m.to
  BY MessageFields DEF TypeOK, FieldTypes
<1>1. /\ role[n] = "Leader" /\ UNCHANGED <<role, commit_index, next_append_probe_id, messages>>
      /\ m.type = "AppendResponse" /\ m.term = current_term[n]
  BY <1>0 DEF HandleContactResponse, counterVars
<1>2. NumbersGrow(n) /\ AnswersRequests(n)
  BY <1>1 DEF NumbersGrow, AnswersRequests, TypeOK, FieldTypes
<1>3. PICK old \in LeaderState : old = leader[n]
  BY <1>1 DEF TypeOK, LeaderTyped
<1>4. PICK b, acks, bs, ls :
        /\ b # None /\ b = m.read_barrier_id
        /\ old.read_barriers[b] # None /\ old.read_barriers[b].probe_id = m.probe_id
        /\ acks = old.read_barriers[b].acknowledgements \cup {m.from}
        /\ bs = [old.read_barriers EXCEPT ![b].acknowledgements = acks,
                                          ![b].quorum_confirmed = Satisfies(ReadQuorums, acks)]
        /\ ls = [old EXCEPT !.read_barriers = bs]
        /\ CompleteReadBarriers(n, current_term[n], log[n], commit_index[n], applied_index[n], ls)
  BY <1>0, <1>3 DEF HandleContactResponse
<1>5. b \in ReadBarrierId /\ acks \in SUBSET Members
  <2>1. m.read_barrier_id \in ReadBarrierId \cup {None} /\ m.from \in Members
    BY <1>1, MessageFields DEF TypeOK, FieldTypes
  <2>2. b \in ReadBarrierId
    BY <1>4, <2>1
  <2>3. old.read_barriers[b] \in Barrier
    BY <1>4, <2>2 DEF LeaderState
  <2> QED
    BY <1>4, <2>1, <2>2, <2>3 DEF Barrier
<1>6. PICK p \in Barrier, confirmed \in BOOLEAN :
        p = old.read_barriers[b] /\ confirmed = Satisfies(ReadQuorums, acks)
  BY <1>4, <1>5 DEF LeaderState, Satisfies
<1>7. PICK q : q = [p EXCEPT !.acknowledgements = acks, !.quorum_confirmed = confirmed]
  OBVIOUS
<1>8. /\ q \in Barrier
      /\ q.floor = p.floor /\ q.probe_id = p.probe_id /\ q.acknowledgements = acks
      /\ q.quorum_confirmed = confirmed /\ q.required = p.required
  BY <1>5, <1>7 DEF Barrier
<1>9. bs = [old.read_barriers EXCEPT ![b] = q]
  BY <1>4, <1>5, <1>6, <1>7 DEF LeaderState
<1>10. bs \in [ReadBarrierId -> Barrier \cup {None}]
  BY <1>8, <1>9 DEF LeaderState
<1>11. ls \in LeaderState /\ ls.read_barriers = bs
  BY <1>4, <1>10 DEF LeaderState
<1>12. Kept(n, b, q)
  <2>1. leader[n].read_barriers[b] = p /\ p # None /\ p.probe_id = m.probe_id
        /\ acks = p.acknowledgements \cup {m.from}
    BY <1>3, <1>4, <1>6
  <2>2. Pends(n, b)
    BY <1>1, <1>5, <2>1 DEF Pends
  <2> QED
    BY <1>0, <1>1, <1>6, <1>8, <2>1, <2>2 DEF Kept, Moves
<1>13. \A c \in ReadBarrierId : bs[c] = None \/ From(n, c, bs[c])
  <2>1. SUFFICES ASSUME NEW c \in ReadBarrierId, bs[c] # None PROVE From(n, c, bs[c])
    OBVIOUS
  <2>2. CASE c = b
    <3>1. bs[c] = q
      BY <1>5, <1>9, <2>2 DEF LeaderState
    <3> QED
      BY <1>12, <2>2, <3>1 DEF From
  <2>3. CASE c # b
    <3>1. bs[c] = leader[n].read_barriers[c]
      BY <1>3, <1>9, <2>3 DEF LeaderState
    <3> QED
      BY <1>1, <2>1, <3>1, StaysFrom
  <2> QED
    BY <2>2, <2>3
<1>14. role'[n] = "Leader" /\ commit_index'[n] = commit_index[n]
  BY <1>1
<1>15. \A c \in ReadBarrierId : ls.read_barriers[c] = None \/ From(n, c, ls.read_barriers[c])
  BY <1>11, <1>13
<1>16. ReadStep(n)
  BY ONLY TypeOK, n \in Members, <1>1, <1>2, <1>4, <1>11, <1>14, <1>15, CompletesRead
<1> QED
  BY <1>0, <1>16

\* A handler that answers no read, and has barriers of those kinds.
LEMMA WaitsRead ==
  ASSUME TypeOK, NEW n \in Members, commit_index'[n] = commit_index[n], ready' = {},
         \A b \in ReadBarrierId : \/ leader'[n].read_barriers[b] = None
                                  \/ From(n, b, leader'[n].read_barriers[b]),
         NumbersGrow(n), AnswersRequests(n)
  PROVE  ReadStep(n)
<1>1. commit_index'[n] >= commit_index[n]
  BY DEF TypeOK, FieldTypes
<1>2. BarriersCome(n)
  <2>1. SUFFICES ASSUME NEW b, Pends(n, b)'
                 PROVE  From(n, b, leader'[n].read_barriers[b])
    BY DEF BarriersCome
  <2> QED
    BY <2>1 DEF Pends
<1>3. AnswersCome(n)
  BY DEF AnswersCome
<1> QED
  BY <1>1, <1>2, <1>3 DEF ReadStep, CommitsOn

\* CancelReadBarrier.
LEMMA CancelReadBarrierRead ==
  ASSUME TypeOK, NEW n \in Members, NEW b \in ReadBarrierId, CancelReadBarrier(n, b)
  PROVE  ReadStep(n)
<1>1. /\ role[n] = "Leader" /\ UNCHANGED <<commit_index, next_append_probe_id, messages>> /\ ready' = {}
      /\ leader' = [leader EXCEPT ![n].read_barriers[b] = None]
  BY DEF CancelReadBarrier, counterVars, NoneReady
<1>2. NumbersGrow(n) /\ AnswersRequests(n)
  BY <1>1 DEF NumbersGrow, AnswersRequests, TypeOK, FieldTypes
<1>3. leader[n] \in LeaderState
  BY <1>1 DEF TypeOK, LeaderTyped
<1>4. leader'[n].read_barriers = [leader[n].read_barriers EXCEPT ![b] = None]
  BY <1>1, <1>3 DEF TypeOK, FieldTypes, LeaderState
<1>5. \A c \in ReadBarrierId : \/ leader'[n].read_barriers[c] = None
                               \/ From(n, c, leader'[n].read_barriers[c])
  <2>1. SUFFICES ASSUME NEW c \in ReadBarrierId, leader'[n].read_barriers[c] # None
                 PROVE  From(n, c, leader'[n].read_barriers[c])
    OBVIOUS
  <2>2. leader'[n].read_barriers[c] = leader[n].read_barriers[c]
    BY <1>3, <1>4, <2>1 DEF LeaderState
  <2> QED
    BY <1>1, <2>1, <2>2, StaysFrom
<1> QED
  BY <1>1, <1>2, <1>5, WaitsRead

\* BeginReadBarrier.
LEMMA BeginReadBarrierRead ==
  ASSUME TypeOK, NEW n \in Members, BeginReadBarrier(n)
  PROVE  ReadStep(n)
<1>1. /\ role[n] = "Leader" /\ n \in Readers /\ UNCHANGED <<role, commit_index>>
      /\ next_read_id[n] \in ReadBarrierId
  BY DEF BeginReadBarrier
<1>2. PICK old \in LeaderState, b \in ReadBarrierId, id \in Nat, commit \in Nat :
        /\ old = leader[n] /\ b = next_read_id[n] /\ id = next_append_probe_id[n]
        /\ commit = commit_index[n]
  BY <1>1 DEF TypeOK, FieldTypes, LeaderTyped
<1>3. PICK q, ls :
        /\ q = [probe_id |-> id, acknowledgements |-> {n},
                required |-> IF Confirmed(n) THEN commit ELSE None,
                quorum_confirmed |-> Satisfies(ReadQuorums, {n}), floor |-> Len(committed)]
        /\ ls = [old EXCEPT !.read_barriers[b] = q]
        /\ \/ /\ CompleteReadBarriers(n, current_term[n], log[n], commit_index[n], applied_index[n], ls)
              /\ UNCHANGED <<next_append_probe_id, messages>>
           \/ /\ leader' = [leader EXCEPT ![n] = ls]
              /\ Send(Contact(n, current_term[n], log[n], commit_index[n], ls, Peers(n), id, b))
              /\ NumberRounds(n, 1)
              /\ ready' = {}
  BY <1>2 DEF BeginReadBarrier, Confirmed, NoneReady
<1>4. q \in Barrier
  <2>1. Len(committed) \in Nat /\ Satisfies(ReadQuorums, {n}) \in BOOLEAN
    BY DEF TypeOK, FieldTypes, Satisfies
  <2>2. (IF Confirmed(n) THEN commit ELSE None) \in Nat \cup {None}
    OBVIOUS
  <2> QED
    BY <1>3, <2>1, <2>2 DEF Barrier
<1>5. Begun(n, q)
  BY <1>1, <1>2, <1>3 DEF Begun
<1>6. ls \in LeaderState /\ ls.read_barriers = [old.read_barriers EXCEPT ![b] = q]
  <2>1. [old.read_barriers EXCEPT ![b] = q] \in [ReadBarrierId -> Barrier \cup {None}]
    BY <1>4 DEF LeaderState
  <2> QED
    BY <1>3, <2>1 DEF LeaderState
<1>7. \A c \in ReadBarrierId : ls.read_barriers[c] = None \/ From(n, c, ls.read_barriers[c])
  <2>1. SUFFICES ASSUME NEW c \in ReadBarrierId, ls.read_barriers[c] # None
                 PROVE  From(n, c, ls.read_barriers[c])
    OBVIOUS
  <2>2. CASE c = b
    <3>1. ls.read_barriers[c] = q
      BY <1>6, <2>2 DEF LeaderState
    <3> QED
      BY <1>5, <3>1 DEF From
  <2>3. CASE c # b
    <3>1. ls.read_barriers[c] = leader[n].read_barriers[c]
      BY <1>2, <1>6, <2>3 DEF LeaderState
    <3> QED
      BY <1>1, <2>1, <3>1, StaysFrom
  <2> QED
    BY <2>2, <2>3
<1>8. role'[n] = "Leader" /\ commit_index'[n] = commit_index[n]
  BY <1>1
<1>9. CASE /\ CompleteReadBarriers(n, current_term[n], log[n], commit_index[n], applied_index[n], ls)
           /\ UNCHANGED <<next_append_probe_id, messages>>
  <2>1. NumbersGrow(n) /\ AnswersRequests(n)
    BY <1>9 DEF NumbersGrow, AnswersRequests, TypeOK, FieldTypes
  <2> QED
    BY ONLY TypeOK, n \in Members, <1>1, <1>6, <1>7, <1>8, <1>9, <2>1, CompletesRead
<1>10. CASE /\ leader' = [leader EXCEPT ![n] = ls]
            /\ Send(Contact(n, current_term[n], log[n], commit_index[n], ls, Peers(n), id, b))
            /\ NumberRounds(n, 1)
            /\ ready' = {}
  <2>1. NumbersGrow(n)
    BY <1>10 DEF NumbersGrow, NumberRounds, TypeOK, FieldTypes
  <2>2. \A m \in messages' : m \in messages \/ m.type = "AppendRequest"
    BY <1>10, ContactSender DEF Send
  <2>3. AnswersRequests(n)
    BY <2>2, NoAnswers
  <2>4. leader'[n] = ls
    BY <1>10 DEF TypeOK, FieldTypes
  <2>5. \A c \in ReadBarrierId : \/ leader'[n].read_barriers[c] = None
                                 \/ From(n, c, leader'[n].read_barriers[c])
    BY <1>7, <2>4
  <2> QED
    BY ONLY TypeOK, n \in Members, <1>8, <1>10, <2>1, <2>3, <2>5, WaitsRead
<1> QED
  BY <1>3, <1>9, <1>10

\* Every step leaves everything alone, or is a step of one member.
LEMMA NextRead ==
  ASSUME TypeOK, [Next]_vars
  PROVE  UNCHANGED vars \/ \E n \in Members : LogStep(n) /\ ReadStep(n)
<1>1. CASE UNCHANGED vars
  BY <1>1
<1>2. CASE Next
  <2>1. \A m \in messages : m.to \in Members
    BY MessageFields DEF TypeOK, FieldTypes
  <2>2. CASE \E n \in Members : \/ ElectionTimeout(n) \/ Heartbeat(n) \/ AppliedThrough(n)
                                \/ BeginReadBarrier(n) \/ Restart(n)
    BY <2>2, ElectionTimeoutLog, HeartbeatLog, AppliedThroughLog, BeginReadBarrierLog, RestartLog,
       ElectionTimeoutRead, HeartbeatRead, AppliedThroughRead, BeginReadBarrierRead, RestartRead
  <2>3. CASE \E n \in Members : \/ ConfirmTerm(n) \/ \E c \in Commands : Propose(n, c)
                                \/ \E b \in ReadBarrierId : CancelReadBarrier(n, b)
    BY <2>3, Append1Log, Append1Read, CancelReadBarrierLog, CancelReadBarrierRead
    DEF Propose, ConfirmTerm
  <2>4. CASE \E m \in messages : \/ HandleVoteRequest(m.to, m) \/ HandleVoteResponse(m.to, m)
                                 \/ StepDown(m.to, m) \/ RejectStaleAppend(m.to, m)
    BY <2>1, <2>4, HandleVoteRequestLog, HandleVoteResponseLog, StepDownLog, RejectStaleAppendLog,
       HandleVoteRequestRead, HandleVoteResponseRead, StepDownRead, RejectStaleAppendRead
  <2>5. CASE \E m \in messages : \/ RejectAppend(m.to, m) \/ AcceptAppend(m.to, m)
                                 \/ HandleContactResponse(m.to, m) \/ HandleReplicationResponse(m.to, m)
    BY <2>1, <2>5, RejectAppendLog, AcceptAppendLog, HandleContactResponseLog,
       HandleReplicationResponseLog, RejectAppendRead, AcceptAppendRead, HandleContactResponseRead,
       HandleReplicationResponseRead
  <2> QED
    BY <1>2, <2>2, <2>3, <2>4, <2>5 DEF Next
<1> QED
  BY <1>1, <1>2
-----------------------------------------------------------------------------
(* What a step does to the history.                                         *)

\* n commits, as the leader of the last entry's term.
CommitsOwn(n) ==
  /\ role[n] = "Leader" /\ role'[n] = "Leader" /\ current_term'[n] = current_term[n]
  /\ commit_index'[n] = Len(committed') /\ committed' # <<>>
  /\ committed'[Len(committed')].term = current_term'[n]

\* What a follower commits was committed before.
LEMMA FollowerKeepsHistory ==
  ASSUME TypeOK, NEW n \in Members, SafeStep(n), LogInv, NEW m \in Requests, Follows(n, m)
  PROVE  committed' = committed
<1>1. /\ Len(committed) \in Nat /\ commit_index[n] \in Nat /\ Len(log'[n]) \in Nat
      /\ m.leader_commit_index \in Nat /\ IsPiece(m) /\ m.term \in Nat
      /\ Through(m.previous, m.entries).index = End(m)
  BY DEF SafeStep, PiecesAreTyped, LogsAreTyped, RequestsAreTyped
<1>2. commit_index[n] <= Len(committed)
  BY CommittedKept DEF LogInv
<1>3. m.leader_commit_index <= Len(committed)
  <2>1. Backed(m.leader_commit_index, m.term)
    BY DEF LogInv, CommitsAreBacked
  <2> QED
    BY <1>1, <2>1 DEF Backed
<1>4. End(m) \in Nat
  BY <1>1, PieceFacts
<1>5. FollowerCommit(m, log'[n]) \in Nat /\ FollowerCommit(m, log'[n]) <= m.leader_commit_index
  BY <1>1, <1>4 DEF FollowerCommit, Min2
<1>6. commit_index'[n] \in Nat /\ commit_index'[n] <= Len(committed)
  BY <1>1, <1>2, <1>3, <1>5 DEF Follows, Max2
<1> QED
  BY <1>1, <1>6 DEF Follows

\* The history only grows, and only a leader that commits in its own term
\* makes it grow.
LEMMA HistoryStep ==
  ASSUME TypeOK, TypeOK', NEW n \in Members, SafeStep(n), LogInv, LogInv'
  PROVE  HistoryGrows /\ (committed' = committed \/ CommitsOwn(n))
<1>1. /\ committed \in Seq(Entry) /\ committed' \in Seq(Entry)
      /\ Len(committed) \in Nat /\ Len(committed') \in Nat
      /\ commit_index[n] \in Nat /\ commit_index'[n] \in Nat /\ commit_index'[n] <= Len(log'[n])
      /\ Len(log'[n]) \in Nat
  BY DEF SafeStep, PiecesAreTyped, LogsAreTyped
<1>2. CASE committed' = committed
  BY <1>1, <1>2 DEF HistoryGrows
<1>3. CASE committed' # committed
  <2>1. Leads(n)
    BY <1>3, FollowerKeepsHistory DEF SafeStep, LogStep, Rests, Campaigns, Wins
  <2>2. role[n] = "Leader" /\ role'[n] = "Leader" /\ current_term'[n] = current_term[n] /\ Commits(n)
    BY <2>1 DEF Leads
  <2>3. commit_index[n] <= Len(committed)
    BY CommittedKept DEF LogInv
  <2>4. PICK c \in Nat : c = commit_index'[n]
    BY <1>1
  <2>5. /\ c > commit_index[n] /\ c <= Len(log'[n]) /\ log'[n][c].term = current_term[n]
        /\ committed' = IF c > Len(committed) THEN Prefix(log'[n], c) ELSE committed
    BY <1>1, <1>3, <2>2, <2>3, <2>4 DEF Commits
  <2>6. PICK W \in CommitQuorums : \A v \in W : leader'[n].matched[v] >= c
    BY <1>1, <1>3, <2>2, <2>3, <2>4 DEF Commits
  <2>7. c \in 1..Len(log'[n])
    BY <1>1, <2>4, <2>5
  <2>8. /\ ReplicationInv /\ ReplicationInv' /\ WhatMayBeChosenIsSafe' /\ CommitsAreBacked
    BY DEF LogInv
  <2>9. /\ HistoryGrows /\ committed'[c].term = current_term'[n]
        /\ committed' = committed \/ c = Len(committed')
    BY <2>2, <2>5, <2>6, <2>7, <2>8, LeaderCommitsSafely
  <2>10. c = Len(committed') /\ committed' # <<>>
    BY <1>1, <1>3, <2>7, <2>9
  <2> QED
    BY <2>2, <2>4, <2>9, <2>10 DEF CommitsOwn
<1> QED
  BY <1>2, <1>3

\* A leader of the last committed entry's term has committed that entry.
LEMMA CommitsStayOwn ==
  ASSUME TypeOK, TypeOK', NEW n \in Members, SafeStep(n), LogInv, LogInv', ReadStep(n), CommitsAreOwn
  PROVE  CommitsAreOwn'
<1>1. SUFFICES ASSUME NEW x \in Members, role'[x] = "Leader", committed' # <<>>,
                      committed'[Len(committed')].term = current_term'[x]
               PROVE  Len(committed') <= commit_index'[x]
  BY DEF CommitsAreOwn
<1>2. /\ committed \in Seq(Entry) /\ committed' \in Seq(Entry)
      /\ Len(committed) \in Nat /\ Len(committed') \in Nat
      /\ commit_index[x] \in Nat /\ commit_index'[x] \in Nat
      /\ current_term'[x] \in Nat /\ current_term'[n] \in Nat
  BY DEF SafeStep, PiecesAreTyped, LogsAreTyped
<1>3. CASE committed' = committed
  <2>1. CASE x = n /\ Wins(n)
    <3>1. LogPiece(committed) \in Pieces
      BY DEF SafeStep, PiecesAreTyped, LogsAreTyped
    <3>2. Len(committed) \in 1..Len(committed)
      BY <1>1, <1>2, <1>3
    <3>3. /\ Covers(LogPiece(committed), Len(committed)) /\ Len(committed) > 0
          /\ TermAt(LogPiece(committed), Len(committed)) = committed[Len(committed)].term
      BY <1>2, <3>2, LogPieceFacts
    <3>4. TermAt(LogPiece(committed), Len(committed)) # current_term'[n]
      BY <2>1, <3>1, <3>3, NewLeaderIsFirst DEF LogInv, ReplicationInv
    <3> QED
      BY <1>1, <1>3, <2>1, <3>3, <3>4
  <2>2. CASE role[x] = "Leader" /\ current_term'[x] = current_term[x]
    <3>1. Len(committed) <= commit_index[x]
      BY <1>1, <1>3, <2>2 DEF CommitsAreOwn
    <3>2. commit_index'[x] >= commit_index[x]
      BY <1>1, <1>2, <2>2 DEF ReadStep, CommitsOn, SafeStep, LogStep, Others
    <3> QED
      BY <1>2, <1>3, <3>1, <3>2
  <2> QED
    BY <1>1, <2>1, <2>2, LeadersLed
<1>4. CASE committed' # committed
  <2>1. CommitsOwn(n)
    BY <1>4, HistoryStep
  <2>2. current_term'[x] = current_term'[n]
    BY <1>1, <2>1 DEF CommitsOwn
  <2>3. Origin(x, current_term[x])' /\ Origin(n, current_term[n])'
    BY <1>1, <2>1 DEF CommitsOwn, SafeStep, OriginFacts, LeadersAreOrigins
  <2>4. x = n
    <3>1. PICK t \in Nat : t = current_term'[x]
      BY <1>2
    <3>2. Origin(x, t)' /\ Origin(n, t)'
      BY <2>2, <2>3, <3>1
    <3> QED
      BY <3>2 DEF SafeStep, OriginFacts, OriginsAreUnique
  <2> QED
    BY <1>2, <2>1, <2>4 DEF CommitsOwn
<1> QED
  BY <1>3, <1>4
-----------------------------------------------------------------------------
(* Numbers.                                                                 *)

\* A reader's numbers never start over.
LEMMA ReadersCountOn ==
  ASSUME NEW n \in Members, SafeStep(n), ReadStep(n), NoReaderRestarts,
         NEW x \in Members, x \in Readers
  PROVE  /\ next_append_probe_id[x] \in Nat /\ next_append_probe_id'[x] \in Nat
         /\ next_append_probe_id'[x] >= next_append_probe_id[x]
<1>1. next_append_probe_id[x] \in Nat /\ next_append_probe_id'[x] \in Nat
  BY DEF SafeStep, PiecesAreTyped, LogsAreTyped
<1>2. CASE x = n
  BY <1>1, <1>2 DEF ReadStep, NumbersGrow, NoReaderRestarts
<1>3. CASE x # n
  BY <1>1, <1>3 DEF SafeStep, LogStep, Others
<1> QED
  BY <1>2, <1>3

\* Every number a request carries was taken.
LEMMA RequestNumbers ==
  ASSUME TypeOK', NEW n \in Members, SafeStep(n), ReadStep(n), ProbesAreSent, NumbersAreTaken,
         NoReaderRestarts, NEW m \in Requests', m.from \in Readers, m.probe_id # None
  PROVE  m.probe_id < next_append_probe_id'[m.from]
<1>1. m.from \in Members /\ m.to \in Members /\ m.probe_id \in Nat
  BY DEF SafeStep, PiecesAreTyped, RequestsAreTyped
<1>2. PICK x \in Members, id \in Nat : x = m.from /\ id = m.probe_id
  BY <1>1
<1>3. /\ next_append_probe_id[x] \in Nat /\ next_append_probe_id'[x] \in Nat
      /\ next_append_probe_id'[x] >= next_append_probe_id[x]
  BY <1>2, ReadersCountOn
<1>4. CASE m \in Requests
  <2>1. id < next_append_probe_id[x]
    BY <1>2, <1>4 DEF NumbersAreTaken, Requests
  <2> QED
    BY <1>2, <1>3, <2>1
<1>5. CASE m \notin Requests
  <2>1. SentBy(n, m) /\ Numbered(n, m)
    BY <1>5, NewRequests
  <2>2. x = n
    BY <1>2, <2>1 DEF SentBy
  <2>3. CASE m.probe_id < next_append_probe_id'[n]
    BY <1>2, <2>2, <2>3
  <2>4. CASE role[n] = "Leader" /\ \E probe \in leader[n].probes[m.to] : m.probe_id = probe.id
    <3>1. PICK r \in Requests : r.from = n /\ r.probe_id = id
      BY <1>1, <1>2, <2>4 DEF ProbesAreSent, IsProbe
    <3>2. id < next_append_probe_id[n]
      BY <1>2, <2>2, <3>1 DEF NumbersAreTaken, Requests
    <3> QED
      BY <1>2, <1>3, <2>2, <3>2
  <2> QED
    BY <2>1, <2>3, <2>4 DEF Numbered
<1> QED
  BY <1>4, <1>5

\* NumbersAreTaken is preserved.
LEMMA NumbersStayTaken ==
  ASSUME TypeOK, TypeOK', NEW n \in Members, SafeStep(n), ReadStep(n), ProbesAreSent, NumbersAreTaken,
         NoReaderRestarts
  PROVE  NumbersAreTaken'
<1>1. ASSUME NEW m \in messages', m.type = "AppendRequest", m.from \in Readers, m.probe_id # None
      PROVE  m.probe_id < next_append_probe_id'[m.from]
  BY <1>1, RequestNumbers DEF Requests
<1>2. ASSUME NEW a \in messages', a.type = "AppendResponse", a.to \in Readers, a.probe_id # None
      PROVE  a.probe_id < next_append_probe_id'[a.to]
  <2>1. a.to \in Members /\ a.probe_id \in Nat
    <3>1. a \in Message
      BY DEF TypeOK, FieldTypes
    <3> QED
      BY <1>2, <3>1, MessageFields
  <2>2. PICK x \in Members, id \in Nat : x = a.to /\ id = a.probe_id
    BY <2>1
  <2>3. /\ next_append_probe_id[x] \in Nat /\ next_append_probe_id'[x] \in Nat
        /\ next_append_probe_id'[x] >= next_append_probe_id[x]
    BY <1>2, <2>2, ReadersCountOn
  <2>4. id < next_append_probe_id[x]
    <3>1. CASE a \in messages
      BY <1>2, <2>2, <3>1 DEF NumbersAreTaken
    <3>2. CASE a \notin messages
      <4>1. PICK m \in Requests : m.from = a.to /\ a.probe_id = m.probe_id
        BY <1>2, <3>2 DEF ReadStep, AnswersRequests
      <4> QED
        BY <1>2, <2>2, <4>1 DEF NumbersAreTaken, Requests
    <3> QED
      BY <3>1, <3>2
  <2> QED
    BY <2>2, <2>3, <2>4
<1> QED
  BY <1>1, <1>2 DEF NumbersAreTaken
-----------------------------------------------------------------------------
(* Barriers.                                                                *)

\* Once its term has committed, a leader that holds everything up to f has
\* committed up to f.
LEMMA FrontierIsAhead ==
  ASSUME PiecesAreTyped, PiecesAreOrdered, NEW x \in Members, NEW f \in Nat, f # 0, f <= Len(committed),
         committed[f].term <= current_term[x], Holds(committed, f, log[x]),
         committed[f].term = current_term[x] => f <= commit_index[x], Confirmed(x)
  PROVE  f <= commit_index[x]
<1>1. PICK s \in Seq(Entry), C \in Seq(Entry), c \in Nat, t \in Nat :
        s = log[x] /\ C = committed /\ c = commit_index[x] /\ t = current_term[x]
  BY DEF PiecesAreTyped, LogsAreTyped
<1>2. c > 0 /\ c <= Len(s) /\ s[c].term = t /\ f \in 1..Len(C) /\ f \in 1..Len(s) /\ s[f] = C[f]
  BY <1>1 DEF Confirmed, CommittedThisTerm, PiecesAreTyped, LogsAreTyped, Holds
<1>3. Ordered(LogPiece(s))
  BY <1>1 DEF PiecesAreOrdered, PiecesAreTyped, LogsAreTyped
<1>4. SUFFICES ASSUME c < f PROVE FALSE
  BY <1>1
<1>5. Covers(LogPiece(s), c) /\ Covers(LogPiece(s), f)
  BY <1>2, LogPieceFacts
<1>6. c \in 1..Len(s) /\ TermAt(LogPiece(s), c) = s[c].term /\ TermAt(LogPiece(s), f) = s[f].term
  BY <1>2, LogPieceFacts
<1>7. s[c].term <= s[f].term
  BY <1>3, <1>4, <1>5, <1>6 DEF Ordered
<1>8. s[f].term \in Nat
  BY <1>2, LogPieceFacts
<1>9. s[f].term = t
  BY <1>1, <1>2, <1>7, <1>8
<1> QED
  BY <1>1, <1>2, <1>4, <1>9

\* A member that left the leader's term without an answer stays silent.
LEMMA SilenceStays ==
  ASSUME NEW n \in Members, SafeStep(n), ReadStep(n), NEW x \in Members, NEW v \in Members,
         current_term'[x] = current_term[x], NEW p, NEW q, Moves(x, p, q), Silent(x, p, v)
  PROVE  Silent(x, q, v)'
<1>1. /\ current_term[x] \in Nat /\ current_term[v] \in Nat /\ current_term'[v] \in Nat
      /\ current_term'[v] >= current_term[v]
  BY TermsGrow
<1>2. q.probe_id = p.probe_id /\ v \notin q.acknowledgements
  BY DEF Moves, Silent
<1>3. current_term'[v] > current_term'[x]
  BY <1>1 DEF Silent
<1>4. ASSUME NEW a \in messages', a.type = "AppendResponse", a.from = v, a.to = x, a.probe_id = q.probe_id
      PROVE  a.term # current_term'[x]
  <2>1. CASE a \in messages
    BY <1>2, <1>4, <2>1 DEF Silent
  <2>2. CASE a \notin messages
    <3>1. v = n /\ a.term = current_term'[n]
      BY <1>4, <2>2 DEF ReadStep, AnswersRequests
    <3> QED
      BY <1>1, <1>3, <3>1
  <2> QED
    BY <2>1, <2>2
<1> QED
  BY <1>2, <1>3, <1>4 DEF Silent

\* x leads on.
LeadsOn(n, x) ==
  /\ role[x] = "Leader" /\ role'[x] = "Leader" /\ current_term'[x] = current_term[x]
  /\ log'[x] = log[x] \/ (x = n /\ Extends(n))
  /\ commit_index'[x] >= commit_index[x]

\* A safe barrier of a leader that leads on stays safe.
LEMMA SafeMoves ==
  ASSUME TypeOK, TypeOK', NEW n \in Members, SafeStep(n), ReadStep(n), LogInv, LogInv',
         NEW x \in Members, LeadsOn(n, x), NEW p, NEW q, Moves(x, p, q), Safe(x, p)
  PROVE  Safe(x, q)'
<1>1. /\ commit_index[x] \in Nat /\ commit_index'[x] \in Nat /\ commit_index'[x] >= commit_index[x]
      /\ committed \in Seq(Entry) /\ committed' \in Seq(Entry)
      /\ Len(committed) \in Nat /\ Len(committed') \in Nat
      /\ current_term[x] \in Nat /\ current_term'[x] = current_term[x]
  BY DEF SafeStep, PiecesAreTyped, LogsAreTyped, LeadsOn
<1>2. HistoryGrows
  BY HistoryStep
<1>3. PICK f \in Nat : f = q.floor /\ f = p.floor /\ f <= Len(committed)
  BY DEF Safe, Moves
<1>4. f <= Len(committed')
  BY <1>1, <1>2, <1>3 DEF HistoryGrows
<1>5. q.quorum_confirmed => Satisfies(ReadQuorums, q.acknowledgements)
  BY DEF Safe, Moves
<1>6. q.required # None => q.required \in Nat /\ q.required <= commit_index'[x]
  <2>1. q.required # None => q.required \in Nat /\ q.required <= commit_index[x]
    BY <1>1 DEF Safe, Moves
  <2> QED
    BY <1>1, <2>1
<1>7. ASSUME Fenced(x, p)
      PROVE  Fenced(x, q)'
  <2>1. PICK Q \in ElectionQuorums : \A v \in Q : Silent(x, p, v)
    BY <1>7 DEF Fenced
  <2>2. \A v \in Q : v \in Members
    BY PlanAssumption DEF Members
  <2>3. \A v \in Q : Silent(x, q, v)'
    BY <1>1, <2>1, <2>2, SilenceStays
  <2> QED
    BY <2>3 DEF Fenced
<1>8. ASSUME f # 0, Ahead(x, p)
      PROVE  Ahead(x, q)'
  <2>1. committed'[f] = committed[f]
    BY <1>1, <1>2, <1>3, <1>8 DEF HistoryGrows
  <2>2. committed[f].term <= current_term[x] /\ Holds(committed, f, log[x])
        /\ (committed[f].term = current_term[x] => f <= commit_index[x])
        /\ (p.required # None => f <= p.required)
    BY <1>3, <1>8 DEF Ahead
  <2>3. Holds(committed', f, log'[x])
    <3>1. /\ Len(log[x]) \in Nat /\ Len(log'[x]) \in Nat /\ Len(log[x]) <= Len(log'[x])
          /\ \A j \in 1..Len(log[x]) : log'[x][j] = log[x][j]
      BY LeadersGrow DEF LeadsOn
    <3>2. f <= Len(log[x]) /\ \A j \in 1..f : log[x][j] = committed[j]
      BY <2>2 DEF Holds
    <3>3. \A j \in 1..f : committed'[j] = committed[j]
      BY <1>1, <1>2, <1>3 DEF HistoryGrows
    <3> QED
      BY <3>1, <3>2, <3>3 DEF Holds
  <2>4. q.required # None => f <= q.required
    <3>1. Confirmed(x) => f <= commit_index[x]
      BY <1>3, <1>8, <2>2, FrontierIsAhead DEF SafeStep, LogInv, ReplicationInv
    <3> QED
      BY <2>2, <3>1 DEF Moves
  <2>5. committed[f].term = current_term[x] => f <= commit_index'[x]
    BY <1>1, <2>2
  <2> QED
    BY <1>1, <1>3, <2>1, <2>2, <2>3, <2>4, <2>5 DEF Ahead
<1> QED
  BY <1>3, <1>4, <1>5, <1>6, <1>7, <1>8 DEF Safe

\* A barrier begins safe: the leader holds everything that is committed, or an
\* election quorum has moved to a newer term and will not answer.
LEMMA BegunIsSafe ==
  ASSUME TypeOK, PiecesAreTyped, OriginFacts, LogInv, NumbersAreTaken, CommitsAreOwn,
         NEW n \in Members, NEW q, Begun(n, q)
  PROVE  Safe(n, q)
<1>1. PICK C \in Seq(Entry), f \in Nat, t \in Nat :
        C = committed /\ f = Len(C) /\ t = current_term[n] /\ LogPiece(C) \in Pieces
  BY DEF PiecesAreTyped, LogsAreTyped
<1>2. /\ q.floor = f /\ f <= Len(committed) /\ q.acknowledgements = {n}
      /\ q.quorum_confirmed => Satisfies(ReadQuorums, q.acknowledgements)
      /\ role[n] = "Leader" /\ n \in Readers /\ q.probe_id = next_append_probe_id[n]
  BY <1>1 DEF Begun
<1>3. q.required # None => q.required \in Nat /\ q.required = commit_index[n] /\ Confirmed(n)
  BY DEF Begun, PiecesAreTyped, LogsAreTyped
<1>4. commit_index[n] \in Nat /\ next_append_probe_id[n] \in Nat
  BY DEF PiecesAreTyped, LogsAreTyped
<1>5. ASSUME f # 0 PROVE Fenced(n, q) \/ Ahead(n, q)
  <2>1. f \in 1..Len(C) /\ C # <<>>
    BY <1>1, <1>5
  <2>2. Covers(LogPiece(C), f) /\ TermAt(LogPiece(C), f) = C[f].term /\ C[f].term \in Nat
    BY <1>1, <2>1, LogPieceFacts
  <2>3. PICK u \in Nat : u = C[f].term
    BY <2>2
  <2>4. CASE u > t
    <3>1. PICK c \in Members : Origin(c, u)
      BY <1>1, <1>5, <2>2, <2>3 DEF LogInv, ReplicationInv, EntriesHaveOrigins
    <3>2. PICK Q \in ElectionQuorums : \A v \in Q : current_term[v] >= u
      BY <3>1 DEF OriginFacts, OriginsAreReached
    <3>3. ASSUME NEW v \in Q PROVE Silent(n, q, v)
      <4>1. v \in Members
        BY PlanAssumption DEF Members
      <4>2. current_term[v] \in Nat /\ current_term[v] > current_term[n]
        BY <1>1, <2>4, <3>2, <4>1 DEF PiecesAreTyped, LogsAreTyped
      <4>3. v \notin q.acknowledgements
        BY <1>1, <1>2, <4>2
      <4>4. ASSUME NEW m \in messages, m.type = "AppendResponse", m.to = n, m.probe_id = q.probe_id
            PROVE  FALSE
        <5>1. m.probe_id # None
          BY <1>2, <1>4, <4>4, ValueAssumption
        <5>2. m.probe_id < next_append_probe_id[n]
          BY <1>2, <4>4, <5>1 DEF NumbersAreTaken
        <5> QED
          BY <1>2, <1>4, <4>4, <5>2
      <4> QED
        BY <4>2, <4>3, <4>4 DEF Silent
    <3> QED
      BY <3>3 DEF Fenced
  <2>5. CASE u <= t
    <3>1. ChosenAt(committed, Len(committed))
      BY <1>1, <2>1 DEF LogInv, CommitsAreBacked
    <3>2. LeadersHold(C, f)
      BY <1>1, <3>1 DEF ChosenAt, Chosen
    <3>3. Holds(C, f, log[n])
      BY <1>1, <1>2, <2>3, <2>5, <3>2 DEF LeadersHold
    <3>4. committed[f].term = current_term[n] => f <= commit_index[n]
      BY <1>1, <1>2, <2>1 DEF CommitsAreOwn
    <3>5. PiecesAreOrdered /\ committed[f].term <= current_term[n] /\ Holds(committed, f, log[n])
      BY <1>1, <2>3, <2>5, <3>3 DEF LogInv, ReplicationInv
    <3>6. Confirmed(n) => f <= commit_index[n]
      BY <1>2, <1>5, <3>4, <3>5, FrontierIsAhead
    <3> QED
      BY <1>2, <1>3, <3>4, <3>5, <3>6 DEF Ahead
  <2> QED
    BY <1>1, <2>3, <2>4, <2>5
<1>6. q.required # None => q.required \in Nat /\ q.required <= commit_index[n]
  BY <1>3, <1>4
<1> QED
  BY <1>2, <1>5, <1>6 DEF Safe

\* Every barrier of a step comes from a safe one.
LEMMA FromIsSafe ==
  ASSUME TypeOK, PiecesAreTyped, OriginFacts, LogInv, ReadInv, NEW n \in Members, NEW b, NEW q, From(n, b, q)
  PROVE  \E p : Safe(n, p) /\ Moves(n, p, q)
<1>1. CASE Kept(n, b, q)
  BY <1>1 DEF Kept, Pends, ReadInv, BarriersAreSafe
<1>2. CASE Begun(n, q)
  <2>1. Safe(n, q)
    BY <1>2, BegunIsSafe DEF ReadInv
  <2>2. Moves(n, q, q)
    BY DEF Moves
  <2> QED
    BY <2>1, <2>2
<1> QED
  BY <1>1, <1>2 DEF From

\* A barrier of a leader that leads on is safe after the step.
LEMMA FromStaysSafe ==
  ASSUME TypeOK, TypeOK', NEW n \in Members, SafeStep(n), ReadStep(n), LogInv, LogInv', ReadInv,
         LeadsOn(n, n), NEW b, NEW q, From(n, b, q)
  PROVE  Safe(n, q)'
<1>1. PICK p : Safe(n, p) /\ Moves(n, p, q)
  BY FromIsSafe DEF SafeStep
<1> QED
  BY <1>1, SafeMoves

\* BarriersAreSafe is preserved.
LEMMA BarriersStaySafe ==
  ASSUME TypeOK, TypeOK', NEW n \in Members, SafeStep(n), ReadStep(n), LogInv, LogInv', ReadInv
  PROVE  BarriersAreSafe'
<1>1. SUFFICES ASSUME NEW x \in Members, NEW b, Pends(x, b)'
               PROVE  Safe(x, leader[x].read_barriers[b])'
  BY DEF BarriersAreSafe
<1>2. PICK q : q = leader'[x].read_barriers[b]
  OBVIOUS
<1>3. commit_index[x] \in Nat /\ commit_index'[x] \in Nat
  BY DEF SafeStep, PiecesAreTyped, LogsAreTyped
<1>4. CASE x = n
  <2>1. From(n, b, q)
    BY <1>1, <1>2, <1>4 DEF ReadStep, BarriersCome
  <2>2. role[n] = "Leader" /\ role'[n] = "Leader"
    BY <1>1, <1>4, <2>1 DEF From, Kept, Begun, Pends
  <2>3. LeadsOn(n, n)
    BY <1>3, <1>4, <2>2, LeadersLed DEF LeadsOn, Wins, ReadStep, CommitsOn
  <2>4. Safe(n, q)'
    BY <2>1, <2>3, FromStaysSafe
  <2> QED
    BY <1>2, <1>4, <2>4 DEF Safe, Fenced, Silent, Ahead
<1>5. CASE x # n
  <2>1. /\ role'[x] = role[x] /\ current_term'[x] = current_term[x] /\ log'[x] = log[x]
        /\ leader'[x] = leader[x] /\ commit_index'[x] = commit_index[x]
    BY <1>5 DEF SafeStep, LogStep, Others
  <2>2. Pends(x, b) /\ LeadsOn(n, x)
    BY <1>1, <1>3, <2>1 DEF Pends, LeadsOn
  <2>3. Safe(x, q)
    BY <1>2, <2>1, <2>2 DEF ReadInv, BarriersAreSafe
  <2>4. Moves(x, q, q)
    BY DEF Moves
  <2>5. Safe(x, q)'
    BY <2>2, <2>3, <2>4, SafeMoves
  <2> QED
    BY <1>2, <2>5 DEF Safe, Fenced, Silent, Ahead
<1> QED
  BY <1>4, <1>5

\* ReadInv is preserved.
LEMMA ReadStays ==
  ASSUME TypeOK, TypeOK', NEW n \in Members, SafeStep(n), ReadStep(n), LogInv, LogInv', ReadInv,
         NoReaderRestarts
  PROVE  ReadInv'
<1>1. NumbersAreTaken'
  BY NumbersStayTaken DEF ReadInv, LogInv, ReplicationInv
<1>2. BarriersAreSafe'
  BY BarriersStaySafe
<1>3. CommitsAreOwn'
  BY CommitsStayOwn DEF ReadInv
<1> QED
  BY <1>1, <1>2, <1>3 DEF ReadInv

\* ReadInv holds at the start.
LEMMA InitRead == Init => ReadInv
<1>1. SUFFICES ASSUME Init PROVE ReadInv
  OBVIOUS
<1>2. messages = {} /\ committed = <<>>
  BY <1>1 DEF Init
<1>3. \A n \in Members : role[n] # "Leader"
  BY <1>1 DEF Init
<1> QED
  BY <1>2, <1>3 DEF ReadInv, NumbersAreTaken, BarriersAreSafe, CommitsAreOwn, Pends

\* A stuttering step keeps it.
LEMMA StutterRead ==
  ASSUME ReadInv, UNCHANGED vars
  PROVE  ReadInv'
<1>1. UNCHANGED <<current_term, log, commit_index, role, leader, next_append_probe_id, messages, committed>>
  BY DEF vars
<1>2. NumbersAreTaken' /\ CommitsAreOwn'
  BY <1>1 DEF ReadInv, NumbersAreTaken, CommitsAreOwn
<1>3. \A n, q, v : Silent(n, q, v) => Silent(n, q, v)'
  BY <1>1 DEF Silent
<1>4. \A n, q : Safe(n, q) => Safe(n, q)'
  <2>1. \A n, q : Ahead(n, q) => Ahead(n, q)'
    BY <1>1 DEF Ahead, Holds
  <2>2. \A n, q : Fenced(n, q) => Fenced(n, q)'
    BY <1>3 DEF Fenced
  <2> QED
    BY <1>1, <2>1, <2>2 DEF Safe
<1>5. BarriersAreSafe'
  <2>1. SUFFICES ASSUME NEW n \in Members, NEW b, Pends(n, b)'
                 PROVE  Safe(n, leader[n].read_barriers[b])'
    BY DEF BarriersAreSafe
  <2>2. PICK q : q = leader[n].read_barriers[b]
    OBVIOUS
  <2>3. Safe(n, q)
    BY <1>1, <2>1, <2>2 DEF Pends, ReadInv, BarriersAreSafe
  <2>4. Safe(n, q)' /\ q = leader'[n].read_barriers[b]
    BY <1>1, <1>4, <2>2, <2>3
  <2> QED
    BY <2>4 DEF Safe, Fenced, Silent, Ahead
<1> QED
  BY <1>2, <1>5 DEF ReadInv
-----------------------------------------------------------------------------
(* The refinement.                                                          *)

\* The reads in progress, as LinearizableLog sees them.
PendingReads ==
  UNION {{[caller |-> n, id |-> b, floor |-> leader[n].read_barriers[b].floor] :
            b \in {i \in ReadBarrierId : leader[n].read_barriers[i] # None}} :
         n \in {l \in Members : role[l] = "Leader"}}

\* One of them, for barrier b of n.
ReadOf(n, b) == [caller |-> n, id |-> b, floor |-> leader[n].read_barriers[b].floor]

\* They are the pending barriers.
ReadsAreBarriers == \A r : r \in PendingReads <=> \E n \in Members : \E b : Pends(n, b) /\ r = ReadOf(n, b)

\* By definition,
LEMMA PendingAreReads == ReadsAreBarriers
BY DEF ReadsAreBarriers, PendingReads, Pends, ReadOf

\* and so after every step.
LEMMA PendingAreReadsNext == ReadsAreBarriers'
BY PendingAreReads, PTL

\* A barrier that is confirmed and knows its frontier is answered at its floor
\* or later: an election quorum that would not answer meets every read quorum.
ConfirmedAreAhead ==
  \A n \in Members : \A q : Safe(n, q) /\ q.quorum_confirmed /\ q.required # None =>
     q.floor <= q.required /\ q.required <= commit_index[n]

\* This follows from Safe,
LEMMA ConfirmedIsAhead == ConfirmedAreAhead
<1>1. SUFFICES ASSUME NEW n \in Members, NEW q, Safe(n, q), q.quorum_confirmed, q.required # None
               PROVE  q.floor <= q.required /\ q.required <= commit_index[n]
  BY DEF ConfirmedAreAhead
<1>2. PICK R \in ReadQuorums : R \subseteq q.acknowledgements
  BY <1>1 DEF Safe, Satisfies
<1>3. ~Fenced(n, q)
  BY <1>2, PlanAssumption DEF Fenced, Silent
<1> QED
  BY <1>1, <1>3 DEF Safe, Ahead

\* after every step too.
LEMMA ConfirmedIsAheadNext == ConfirmedAreAhead'
BY ConfirmedIsAhead, PTL

\* The decided sequence only grows.
LEMMA DecideStep ==
  ASSUME TypeOK, TypeOK', HistoryGrows
  PROVE  Len(committed) <= Len(committed') /\ committed = SubSeq(committed', 1, Len(committed))
<1>1. PICK C \in Seq(Entry), D \in Seq(Entry) : C = committed /\ D = committed'
  BY DEF TypeOK, FieldTypes
<1>2. Len(C) <= Len(D) /\ \A j \in 1..Len(C) : D[j] = C[j]
  BY <1>1 DEF HistoryGrows
<1>3. Prefix(D, Len(C)) \in Seq(Entry) /\ Len(Prefix(D, Len(C))) = Len(C)
      /\ \A i \in 1..Len(C) : Prefix(D, Len(C))[i] = D[i]
  BY <1>2, PrefixFacts
<1>4. Prefix(D, Len(C)) = C
  BY <1>2, <1>3
<1> QED
  BY <1>1, <1>2, <1>4 DEF Prefix

\* Reads begin at what is committed, or are abandoned.
LEMMA ReadsStep ==
  ASSUME TypeOK, TypeOK', NEW n \in Members, SafeStep(n), ReadStep(n), NEW r \in PendingReads'
  PROVE  \/ r \in PendingReads
         \/ r.caller \in Members /\ r.id \in ReadBarrierId /\ r.floor = Len(committed)
            /\ r = [caller |-> r.caller, id |-> r.id, floor |-> Len(committed)]
<1>1. PICK x \in Members, b \in ReadBarrierId : Pends(x, b)' /\ r = ReadOf(x, b)'
  BY PendingAreReadsNext DEF ReadsAreBarriers, Pends
<1>2. CASE x = n
  <2>1. From(n, b, leader'[n].read_barriers[b])
    BY <1>1, <1>2 DEF ReadStep, BarriersCome
  <2>2. CASE Kept(n, b, leader'[n].read_barriers[b])
    <3>1. Pends(n, b) /\ r = ReadOf(n, b)
      BY <1>1, <1>2, <2>2 DEF Kept, Moves, ReadOf
    <3> QED
      BY <3>1, PendingAreReads DEF ReadsAreBarriers
  <2>3. CASE Begun(n, leader'[n].read_barriers[b])
    BY <1>1, <1>2, <2>3 DEF Begun, ReadOf
  <2> QED
    BY <2>1, <2>2, <2>3 DEF From
<1>3. CASE x # n
  <2>1. role'[x] = role[x] /\ leader'[x] = leader[x]
    BY <1>3 DEF SafeStep, LogStep, Others
  <2>2. Pends(x, b) /\ r = ReadOf(x, b)
    BY <1>1, <2>1 DEF Pends, ReadOf
  <2> QED
    BY <2>2, PendingAreReads DEF ReadsAreBarriers
<1> QED
  BY <1>2, <1>3

\* What is answered was asked for, and lies between its floor and the end.
LEMMA AnswersStep ==
  ASSUME TypeOK, TypeOK', NEW n \in Members, SafeStep(n), ReadStep(n), LogInv, LogInv', ReadInv,
         NEW a \in ready'
  PROVE  /\ a \in [floor : Nat, index : Nat]
         /\ a.floor = Len(committed) \/ \E r \in PendingReads : r.floor = a.floor
         /\ a.floor <= a.index /\ a.index <= Len(committed')
<1>1. a \in [floor : Nat, index : Nat]
  BY DEF TypeOK, FieldTypes
<1>2. role[n] = "Leader" /\ role'[n] = "Leader" /\ Answered(n, a)
  BY DEF ReadStep, AnswersCome
<1>3. PICK b, q : /\ From(n, b, q) /\ q.quorum_confirmed /\ q.required # None
                  /\ a.floor = q.floor /\ a.index = q.required
  BY <1>2 DEF Answered
<1>4. LeadsOn(n, n)
  BY <1>2, LeadersLed DEF LeadsOn, Wins, ReadStep, CommitsOn
<1>5. Safe(n, q)'
  BY <1>3, <1>4, FromStaysSafe
<1>6. a.floor <= a.index /\ a.index <= commit_index'[n]
  BY <1>3, <1>5, ConfirmedIsAheadNext DEF ConfirmedAreAhead
<1>7. /\ commit_index'[n] \in Nat /\ Len(committed') \in Nat /\ commit_index'[n] <= Len(committed')
  <2>1. Backed(commit_index[n], current_term[n])'
    BY DEF LogInv, CommitsAreBacked
  <2>2. commit_index'[n] \in Nat /\ Len(committed') \in Nat
    BY DEF SafeStep, PiecesAreTyped, LogsAreTyped
  <2> QED
    BY <2>1, <2>2 DEF Backed
<1>8. a.floor = Len(committed) \/ \E r \in PendingReads : r.floor = a.floor
  <2>1. CASE Kept(n, b, q)
    <3>1. Pends(n, b) /\ ReadOf(n, b).floor = a.floor
      BY <1>3, <2>1 DEF Kept, Moves, ReadOf
    <3> QED
      BY <3>1, PendingAreReads DEF ReadsAreBarriers
  <2>2. CASE Begun(n, q)
    BY <1>3, <2>2 DEF Begun
  <2> QED
    BY <1>3, <2>1, <2>2 DEF From
<1> QED
  BY <1>1, <1>6, <1>7, <1>8

\* A step of the core is a step of the linearizable log, or none.
LEMMA PromiseStep ==
  ASSUME TypeOK, TypeOK', ElectionEvidence, ElectionEvidence', LogInv, LogInv', ReadInv, [Next]_vars
  PROVE  [Promise!Next]_<<committed, PendingReads, ready>>
<1>1. CASE UNCHANGED vars
  BY <1>1 DEF vars, PendingReads
<1>2. ASSUME NEW n \in Members, LogStep(n), ReadStep(n)
      PROVE  Promise!Next
  <2>1. SafeStep(n)
    BY <1>2, NextStep, PiecesTyped, PiecesTypedNext, OriginsFollow, OriginsFollowNext
    DEF SafeStep, ElectionEvidence
  <2>2. Promise!Decide
    BY <2>1, HistoryStep, DecideStep DEF Promise!Decide
  <2>3. Promise!Reads
    <3>1. SUFFICES ASSUME NEW r \in PendingReads'
                   PROVE  r \in PendingReads \/ (r \in Promise!Read /\ r.floor = Len(committed))
      BY DEF Promise!Reads, PendingReads
    <3>2. Len(committed) \in Nat
      BY DEF TypeOK, FieldTypes
    <3> QED
      BY <1>2, <2>1, <3>1, <3>2, ReadsStep DEF Promise!Read
  <2>4. Promise!Answers
    <3>1. SUFFICES ASSUME NEW a \in ready'
                   PROVE  /\ a \in Promise!Answer
                          /\ a.floor = Len(committed) \/ \E r \in PendingReads : r.floor = a.floor
                          /\ a.floor <= a.index
                          /\ a.index <= Len(committed')
      BY DEF Promise!Answers, PendingReads
    <3> QED
      BY <1>2, <2>1, <3>1, AnswersStep DEF Promise!Answer
  <2> QED
    BY <2>2, <2>3, <2>4 DEF Promise!Next
<1> QED
  BY <1>1, <1>2, NextRead

\* ReadInv is inductive as long as no member that serves reads restarts.
LEMMA NextReadInv ==
  ASSUME NoReaderRestarts, TypeOK, TypeOK', ElectionEvidence, ElectionEvidence', LogInv, LogInv', ReadInv,
         [Next]_vars
  PROVE  ReadInv'
<1>1. CASE UNCHANGED vars
  BY <1>1, StutterRead
<1>2. ASSUME NEW n \in Members, LogStep(n), ReadStep(n)
      PROVE  ReadInv'
  <2>1. SafeStep(n)
    BY <1>2, NextStep, PiecesTyped, PiecesTypedNext, OriginsFollow, OriginsFollowNext
    DEF SafeStep, ElectionEvidence
  <2> QED
    BY <1>2, <2>1, ReadStays
<1> QED
  BY <1>1, <1>2, NextRead

\* The core is a linearizable log for the callers of its reads: what is
\* committed is one sequence that only grows, and a read barrier is reported
\* ready at an index no older than anything committed anywhere when the read
\* began (begin_read_barrier, acknowledge_read_barrier, complete_read_barriers),
\* for every quorum plan compile_plan accepts, whatever is lost, repeated or
\* reordered and whoever else crashes, unless a member that serves reads restarts.
THEOREM ReadsAreLinearizable ==
  ASSUME NoReaderRestarts
  PROVE  Spec => ImplementsLinearizableLog
<1>1. Init => ReadInv
  BY InitRead
<1>2. TypeOK /\ TypeOK' /\ ElectionEvidence /\ ElectionEvidence' /\ LogInv /\ LogInv' /\ ReadInv /\ [Next]_vars
        => ReadInv'
  BY NextReadInv
<1>3. Init => Promise!Init
  <2>1. SUFFICES ASSUME Init PROVE Promise!Init
    OBVIOUS
  <2>2. committed = <<>> /\ ready = {} /\ \A n \in Members : role[n] # "Leader"
    BY <2>1 DEF Init
  <2> QED
    BY <2>2 DEF Promise!Init
<1>4. TypeOK /\ TypeOK' /\ ElectionEvidence /\ ElectionEvidence' /\ LogInv /\ LogInv' /\ ReadInv /\ [Next]_vars
        => [Promise!Next]_<<committed, PendingReads, ready>>
  BY PromiseStep
<1> QED
  BY <1>1, <1>2, <1>3, <1>4, TypeCorrect, ElectionsAreEvident, LogsAreSafe, PTL
  DEF Spec, ImplementsLinearizableLog, Promise!Spec, PendingReads
=============================================================================
