-------------------------- MODULE MCConsensusCore --------------------------
(***************************************************************************)
(* TLC instances of ConsensusCore: the quorum families of a flat plan, and *)
(* those of a plan of predicates Voter(Anchor), which compile_plan accepts *)
(* as well: one voter is a quorum of every family and belongs to all.      *)
(***************************************************************************)
EXTENDS ConsensusCore, TLC

CONSTANT Anchor

P == INSTANCE QuorumPlan

FlatElectionQuorums == P!FlatElection(Voters)
FlatCommitQuorums == P!FlatCommit(Voters)
FlatReadQuorums == P!FlatRead(Voters)
AnchorQuorums == {{Anchor}}

CandidateSymmetry == Permutations(EligibleLeaders)
-----------------------------------------------------------------------------
(* The state after First was elected in term 1 by Anchor's vote, sent one    *)
(* heartbeat, began one read and restarted, with no message delivered since: *)
(* a reachable state of Spec, where the run about reads and restarts begins. *)

CONSTANT First

LedAppend(kind, id) ==
  AppendRequest(First, Anchor, 1, kind, id, Position(<<>>, 0), <<>>, 0, None)

LedElection ==
  {[type |-> "VoteRequest", from |-> First, to |-> Anchor, term |-> 1,
    last_log |-> Position(<<>>, 0)],
   [type |-> "VoteResponse", from |-> Anchor, to |-> First, term |-> 1, granted |-> TRUE]}

LedRead == AppendRequest(First, Anchor, 1, "Contact", 3, Position(<<>>, 0), <<>>, 0, 1)

LedInit ==
  /\ current_term = [n \in Members |-> 1]
  /\ voted_for = [n \in Members |-> First]
  /\ log = [n \in Members |-> <<>>]
  /\ applied_index = [n \in Members |-> 0]
  /\ commit_index = [n \in Members |-> 0]
  /\ role = [n \in Members |-> "Follower"]
  /\ votes = [n \in Members |-> {}]
  /\ leader = [n \in Members |-> None]
  /\ next_append_probe_id = [n \in Members |-> 1]
  /\ next_read_id = [n \in Members |-> 1]
  /\ heartbeats = 1
  /\ restarts = 1
  /\ messages = LedElection \cup {LedAppend("Replication", 1), LedAppend("Contact", None), LedRead}
  /\ committed = <<>>
  /\ ready = {}

LedSpec == LedInit /\ [][Next]_vars
-----------------------------------------------------------------------------
(* The state after First was elected in term 1 by Anchor's vote, proposed a *)
(* command that reached nobody, and Anchor elected itself in term 2: the    *)
(* shortest reachable state with a tail that will have to be replaced.      *)

LostTail == <<[term |-> 1, command |-> CHOOSE c \in Commands : TRUE]>>

LedProposal ==
  AppendRequest(First, Anchor, 1, "Replication", 2, Position(<<>>, 0), LostTail, 0, None)

DivergedRequest ==
  AppendRequest(Anchor, First, 2, "Replication", 1, Position(<<>>, 0), <<>>, 0, None)

DivergedInit ==
  /\ current_term = [n \in Members |-> IF n = Anchor THEN 2 ELSE 1]
  /\ voted_for = [n \in Members |-> n]
  /\ log = [n \in Members |-> IF n = First THEN LostTail ELSE <<>>]
  /\ applied_index = [n \in Members |-> 0]
  /\ commit_index = [n \in Members |-> 0]
  /\ role = [n \in Members |-> "Leader"]
  /\ votes = [n \in Members |-> {}]
  /\ leader = [n \in Members |->
       IF n = Anchor THEN Sent(FreshLeader(Anchor, 0), {DivergedRequest})
       ELSE LET appended == [FreshLeader(First, 0) EXCEPT !.matched[First] = 1,
                                                          !.next[First] = 2]
            IN  Sent(Sent(appended, {LedAppend("Replication", 1)}), {LedProposal})]
  /\ next_append_probe_id = [n \in Members |-> IF n = First THEN 3 ELSE 2]
  /\ next_read_id = [n \in Members |-> 1]
  /\ heartbeats = 0
  /\ restarts = 0
  /\ messages = LedElection \cup {LedAppend("Replication", 1), LedProposal, DivergedRequest}
  /\ committed = <<>>
  /\ ready = {}

DivergedSpec == DivergedInit /\ [][Next]_vars /\ Fairness
=============================================================================
