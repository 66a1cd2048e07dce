------------------------ MODULE MembershipCoordinator ------------------------
(***************************************************************************)
(* How a metadata partition's authority turns enrolment and drain records   *)
(* into quorum plans: the leader's reactor derives the next membership      *)
(* transition from the membership projection in the repository, logs it,    *)
(* and every replica that applies the entry activates the plan and writes   *)
(* the projection back.                                                     *)
(*                                                                         *)
(* Source: crates/meshspan-cluster/src/membership.rs and the membership     *)
(* half of metadata_authority.rs, crates/meshspan-consensus/src/            *)
(* membership.rs, crates/meshspan-metadata/src/repository/quorum_plan.rs    *)
(* and membership.rs, and the commands that edit the projection.            *)
(*                                                                         *)
(* The log is the present leader's: the entries it has applied are folded   *)
(* into plan and db, the others are the tail.  Replaying the log is         *)
(* deterministic, so every replica passes through these states; a leader    *)
(* that knows of fewer commitments than the last one replays entries        *)
(* already decided and accepts less meanwhile.  Process incarnations are    *)
(* fixed at enrolment and left out.                                         *)
(***************************************************************************)
EXTENDS QuorumPlan, Sequences

CONSTANTS
  Nodes,            \* node identities, ordered as the maps of the code order them
  Founder,          \* the node that bootstrapped the mesh
  MaxLeaderChanges  \* bound on elections after the first leader

ASSUME NodesAssumption == Nodes \subseteq Nat /\ IsFiniteSet(Nodes) /\ Founder \in Nodes
ASSUME MaxLeaderChangesAssumption == MaxLeaderChanges \in Nat

VARIABLES
  plan,       \* the active phase: the plans of before and after, equal when stable
  db,         \* membership rows, node states and revision of the repository
  tail,       \* the leader's log beyond its applied index
  spoken,     \* the leader's log ends with an entry of its own term
  pending,    \* the reactor holds the caller of an undecided command
  running,    \* FALSE once applying or planning returned an error
  changes     \* leader changes so far

vars == <<plan, db, tail, spoken, pending, running, changes>>

\* ActiveQuorumPlan: both plans decide during a joint phase.
Stable(p) == [old |-> p, new |-> p]

IsStable(phase) == phase.old = phase.new

PlanMembers(p) == p.voters \cup p.learners

\* JointQuorumPlan::satisfies, by family.
PhaseSatisfies(phase, family, acknowledgements) ==
  /\ FamilySatisfies(phase.old[family], acknowledgements)
  /\ FamilySatisfies(phase.new[family], acknowledgements)

EligibleLeaders(phase) == phase.old.eligible \cap phase.new.eligible

\* The minimum of a set of node identities (first_key_value of an ordered map).
Lowest(nodes) == CHOOSE n \in nodes : \A other \in nodes : n <= other

recommended_voter_count(available) ==
  LET bounded == IF available > 9 THEN 9 ELSE available
  IN  IF available > 2 /\ bounded % 2 = 0 THEN bounded - 1 ELSE bounded
-----------------------------------------------------------------------------
(* The projection: partition_voters, nodes and current_membership_revision. *)

MemberRow == {"Absent", "Voter", "Staged", "Retiring"}
NodeState == {"Absent", "Admitted", "Active", "Draining"}

\* Rows of the projection in one of the given states.
Rows(d, states) == {n \in Nodes : d.member[n] \in states}

\* authoritative_incarnations: every member the projection vouches for.
Authoritative(d) == Rows(d, {"Voter", "Staged", "Retiring"})

\* consume_join_grant: a fresh node, staged when its roles make it eligible.
CanJoin(d, n) == d.node[n] = "Absent"

Joined(d, n, eligible) ==
  [d EXCEPT !.node[n] = "Admitted", !.member[n] = IF eligible THEN "Staged" ELSE @]

\* activate_node.
CanActivate(d, n) == d.node[n] = "Admitted"

Activated(d, n) == [d EXCEPT !.node[n] = "Active"]

\* Mutant: a retiring voter counts as the survivor.
MembershipCanRetire_AnySurvivor(d, n) ==
  d.member[n] = "Voter" => Rows(d, {"Voter", "Retiring"}) # {n}

\* membership_can_retire_node: another active voter survives.
MembershipCanRetire(d, n) == d.member[n] = "Voter" => Rows(d, {"Voter"}) # {n}

\* fence_node_membership, once the node's storage has been evacuated.
CanFence(d, n) == d.node[n] = "Active" /\ MembershipCanRetire(d, n)

Fenced(d, n) ==
  [d EXCEPT !.node[n] = "Draining",
            !.member[n] = IF @ \in {"Voter", "Staged"} THEN "Retiring" ELSE @]

\* A client's command, and what applying it does.
Commands ==
  [kind : {"Join"}, node : Nodes, eligible : BOOLEAN] \cup [kind : {"Activate", "Fence"}, node : Nodes]

CanApply(d, c) ==
  CASE c.kind = "Join"     -> CanJoin(d, c.node)
    [] c.kind = "Activate" -> CanActivate(d, c.node)
    [] c.kind = "Fence"    -> CanFence(d, c.node)

Apply(d, c) ==
  CASE c.kind = "Join"     -> Joined(d, c.node, c.eligible)
    [] c.kind = "Activate" -> Activated(d, c.node)
    [] c.kind = "Fence"    -> Fenced(d, c.node)

\* synchronise_membership_projection accepts a stable plan only when it names
\* exactly the members that are not retiring, one revision on.
ProjectionAccepts(d, p) ==
  /\ d.revision = p.epoch - 1
  /\ Rows(d, {"Voter", "Staged"}) = PlanMembers(p)
  /\ \A n \in p.voters : d.node[n] \in {"Admitted", "Active"}

\* Mutant: the rows of promoted learners are left as they were.
Synchronised_RolesKept(d, p) == [d EXCEPT !.revision = p.epoch]

Synchronised(d, p) ==
  [ member   |-> [n \in Nodes |-> IF n \in p.voters THEN "Voter"
                                  ELSE IF n \in p.learners THEN "Staged" ELSE d.member[n]],
    node     |-> [n \in Nodes |-> IF n \in p.voters THEN "Active" ELSE d.node[n]],
    revision |-> p.epoch ]
-----------------------------------------------------------------------------
(* Membership transitions: MembershipTransitionCommand and the plan each    *)
(* one activates.                                                           *)

Transition(kind, n, phase) == [kind |-> kind, node |-> n, phase |-> phase]

MembershipKinds == {"AdmitLearner", "PromoteLearner", "RemoveMember", "FinaliseStable"}

\* Mutant: the successor plan is activated without a joint phase.
JointWith_Direct(p, voters, learners) == Stable(FlatPlan(p.epoch + 1, voters, learners))

\* JointQuorumPlan::new after flat_plan and compile_plan, which accept every
\* plan of one to nine voters and every successor of such a plan (theorems
\* FlatPlanCompiles and CompiledPlansAreJoinable of MembershipProofs).
JointWith(p, voters, learners) == [old |-> p, new |-> FlatPlan(p.epoch + 1, voters, learners)]

\* Mutant: a promoted learner also stays a learner.
Promotion_KeepsLearner(p, n) == Transition("PromoteLearner", n, JointWith(p, p.voters \cup {n}, p.learners))

\* plan_next_flat_learner_admission, plan_next_flat_promotion and
\* plan_flat_member_removal.
Admission(p, n) == Transition("AdmitLearner", n, JointWith(p, p.voters, p.learners \cup {n}))

Promotion(p, n) == Transition("PromoteLearner", n, JointWith(p, p.voters \cup {n}, p.learners \ {n}))

Removal(p, n) == Transition("RemoveMember", n, JointWith(p, p.voters \ {n}, p.learners \ {n}))

Finalisation(phase) == Transition("FinaliseStable", Founder, Stable(phase.new))

\* Mutant: learners that retire stay in the plan.
RetiringMembers_Voters == Rows(db, {"Retiring"}) \cap plan.new.voters

\* What plan_next_transition finds to do in the projection.
RetiringMembers == Rows(db, {"Retiring"}) \cap PlanMembers(plan.new)

\* Mutant: nodes that are admitted and not yet active are passed over.
LearnerCandidates_Active == {n \in Rows(db, {"Staged"}) \ PlanMembers(plan.new) : db.node[n] = "Active"}

LearnerCandidates == Rows(db, {"Staged"}) \ PlanMembers(plan.new)

Desired == recommended_voter_count(Cardinality(Rows(db, {"Voter", "Staged"})))

\* Mutant: promotion stops one voter short of the target.
Promotable_Short == {n \in plan.new.learners : Desired > Cardinality(plan.new.voters) + 1}

\* plan_promotion: the learners that may be found to have replicated the whole
\* committed log, whatever the projection says of their activation.
Promotable == {n \in plan.new.learners : Desired > Cardinality(plan.new.voters)}

\* A transition is planned whatever the learners have replicated.
TransitionDue == ~IsStable(plan) \/ RetiringMembers # {} \/ LearnerCandidates # {}

\* validate_transition of an entry against the state it is applied to.
ValidTransition(e) ==
  \/ /\ e.kind = "FinaliseStable" /\ ~IsStable(plan)
     /\ e.phase = Stable(plan.new)
     /\ PlanMembers(plan.new) \subseteq Authoritative(db)
  \/ /\ e.kind = "AdmitLearner" /\ IsStable(plan)
     /\ LearnerCandidates # {}
     /\ e = Admission(plan.new, Lowest(LearnerCandidates))
  \/ /\ e.kind = "PromoteLearner" /\ IsStable(plan)
     /\ e.node \in plan.new.learners \cap Authoritative(db)
     /\ e = Promotion(plan.new, e.node)
  \/ /\ e.kind = "RemoveMember" /\ IsStable(plan)
     /\ e.node \in RetiringMembers
     /\ plan.new.voters # {e.node}
     /\ e = Removal(plan.new, e.node)

\* An entry is activated if it is valid and, for a stable plan, the projection
\* accepts it in the same transaction.
Accepted(e) == ValidTransition(e) /\ (IsStable(e.phase) => ProjectionAccepts(db, e.phase.new))
-----------------------------------------------------------------------------
(* The authority.                                                           *)

\* BootstrapMesh and the initial flat plan.
Init ==
  /\ plan = Stable(FlatPlan(1, {Founder}, {}))
  /\ db = [ member   |-> [n \in Nodes |-> IF n = Founder THEN "Voter" ELSE "Absent"],
            node     |-> [n \in Nodes |-> IF n = Founder THEN "Active" ELSE "Absent"],
            revision |-> 1 ]
  /\ tail = <<>>
  /\ spoken = TRUE
  /\ pending = FALSE
  /\ running = TRUE
  /\ changes = 0

Append1(e) == tail' = Append(tail, e) /\ spoken' = TRUE

\* plan_membership_transition proposes when nothing is in flight.
PlanMembershipTransition ==
  /\ running /\ ~pending /\ tail = <<>>
  /\ \/ ~IsStable(plan) /\ Append1(Finalisation(plan))
     \/ /\ IsStable(plan)
        /\ RetiringMembers # {}
        /\ plan.new.voters # {Lowest(RetiringMembers)}
        /\ Append1(Removal(plan.new, Lowest(RetiringMembers)))
     \/ /\ IsStable(plan) /\ RetiringMembers = {}
        /\ LearnerCandidates # {}
        /\ Append1(Admission(plan.new, Lowest(LearnerCandidates)))
     \/ /\ ~TransitionDue
        /\ \E n \in Promotable : Append1(Promotion(plan.new, n))
  /\ UNCHANGED <<plan, db, pending, running, changes>>

\* preflight_authoritative_entry: the command is executed, and rolled back,
\* after the commands that are not applied yet; other entries refuse it.
Preflight(c) ==
  LET after[i \in 0..Len(tail)] == IF i = 0 THEN db ELSE Apply(after[i - 1], tail[i])
  IN  /\ \A i \in 1..Len(tail) : tail[i] \in Commands
      /\ CanApply(after[Len(tail)], c)

\* Mutant: application commands are taken before a transition is planned.
AdmitNext_BeforePlanning(c) ==
  /\ running /\ ~pending
  /\ Preflight(c)
  /\ pending' = TRUE
  /\ Append1(c)
  /\ UNCHANGED <<plan, db, running, changes>>

\* admit_next takes the next queued command once no transition is planned.
\* A promotion waits for the learner, so it may also come after the command.
AdmitNext(c) ==
  /\ running /\ ~pending
  /\ tail = <<>> => ~TransitionDue
  /\ Preflight(c)
  /\ pending' = TRUE
  /\ Append1(c)
  /\ UNCHANGED <<plan, db, running, changes>>

\* confirm_read_term: a read in a term without an entry appends one.
ConfirmReadTerm ==
  /\ running /\ ~spoken
  /\ Append1([kind |-> "TermConfirmation"])
  /\ UNCHANGED <<plan, db, pending, running, changes>>

\* An entry is committed, once the leader has one of its own term, and
\* applied: apply_authoritative_committed and finish_pending.
ApplyCommand ==
  /\ running /\ spoken /\ tail # <<>>
  /\ Head(tail) \in Commands
  /\ CanApply(db, Head(tail))
  /\ db' = Apply(db, Head(tail))
  /\ tail' = Tail(tail)
  /\ pending' = (pending /\ Len(tail) > 1)
  /\ UNCHANGED <<plan, spoken, running, changes>>

\* apply_term_confirmation.
ApplyTermConfirmation ==
  /\ running /\ spoken /\ tail # <<>>
  /\ Head(tail).kind = "TermConfirmation"
  /\ tail' = Tail(tail)
  /\ UNCHANGED <<plan, db, spoken, pending, running, changes>>

\* apply_membership_transition: validated, activated, and for a stable plan
\* written back in the same transaction.
ApplyMembershipTransition ==
  /\ running /\ spoken /\ tail # <<>>
  /\ Head(tail).kind \in MembershipKinds
  /\ Accepted(Head(tail))
  /\ plan' = Head(tail).phase
  /\ db' = IF IsStable(plan') THEN Synchronised(db, plan'.new) ELSE db
  /\ tail' = Tail(tail)
  /\ UNCHANGED <<spoken, pending, running, changes>>

\* What ends the authority: a projection without an active voter or without a
\* member of the plan, the removal of the only voter, a committed command or
\* transition that is refused when it is applied.
PlanningError ==
  /\ ~pending /\ tail = <<>> /\ IsStable(plan)
  /\ \/ Rows(db, {"Voter"}) = {}
     \/ ~(PlanMembers(plan.new) \subseteq Authoritative(db))
     \/ RetiringMembers # {} /\ plan.new.voters = {Lowest(RetiringMembers)}

ApplicationError ==
  /\ spoken /\ tail # <<>>
  /\ \/ Head(tail) \in Commands /\ ~CanApply(db, Head(tail))
     \/ Head(tail).kind \in MembershipKinds /\ ~Accepted(Head(tail))

Stop ==
  /\ running
  /\ PlanningError \/ ApplicationError
  /\ running' = FALSE
  /\ UNCHANGED <<plan, db, tail, spoken, pending, changes>>

\* The leader is lost, or restarts: an eligible one is elected with any of the
\* entries that were not applied, none of them of its own term.  The callers
\* of the former leader are released.
ChangeLeader ==
  /\ running
  /\ changes < MaxLeaderChanges
  /\ EligibleLeaders(plan) # {}
  /\ \E kept \in 0..Len(tail) : tail' = SubSeq(tail, 1, kept)
  /\ spoken' = FALSE
  /\ pending' = FALSE
  /\ changes' = changes + 1
  /\ UNCHANGED <<plan, db, running>>

Next ==
  \/ PlanMembershipTransition
  \/ \E c \in Commands : AdmitNext(c)
  \/ ConfirmReadTerm
  \/ ApplyCommand
  \/ ApplyTermConfirmation
  \/ ApplyMembershipTransition
  \/ Stop
  \/ ChangeLeader

Spec == Init /\ [][Next]_vars

\* Fairness.  The reactor plans, applies and gives up in the turn that made it
\* possible, heartbeats repeat what is not acknowledged, and clients keep reading.
\* Only a learner that runs, as the active ones do, is sure to catch up.
FairPlanning ==
  PlanMembershipTransition /\ (TransitionDue \/ db.node[tail'[1].node] = "Active")

Fairness ==
  /\ WF_vars(FairPlanning)
  /\ WF_vars(ApplyCommand)
  /\ WF_vars(ApplyTermConfirmation)
  /\ WF_vars(ApplyMembershipTransition)
  /\ WF_vars(ConfirmReadTerm)
  /\ WF_vars(Stop)

FairSpec == Spec /\ Fairness
-----------------------------------------------------------------------------
(* What the coordinator promises.                                           *)

\* The variables keep their types: rows and node states are those the schema
\* allows, and every plan is the flat plan of one to nine voters of this mesh.
TypeOK ==
  /\ \A p \in {plan.old, plan.new} :
       /\ p.voters \subseteq Nodes /\ p.voters # {} /\ p.learners \subseteq Nodes \ p.voters
       /\ p = FlatPlan(p.epoch, p.voters, p.learners)
  /\ db \in [member : [Nodes -> MemberRow], node : [Nodes -> NodeState], revision : Nat]
  /\ \A i \in 1..Len(tail) :
       tail[i] \in Commands \/ tail[i].kind \in MembershipKinds \cup {"TermConfirmation"}
  /\ {spoken, pending, running} \subseteq BOOLEAN
  /\ changes \in 0..MaxLeaderChanges

\* Every set of nodes that decides one family of a phase meets every set that
\* decides another family of another phase.
Meets(phase, family, other, family2) ==
  \A s, t \in SUBSET Nodes :
    PhaseSatisfies(phase, family, s) /\ PhaseSatisfies(other, family2, t) => s \cap t # {}

\* While replicas are split between a phase and its successor, no election of
\* either side misses a commit, a read or an election of the other: this is
\* what lets each replica switch when it applies the entry
\* (finish_plan_activation).
PhasesOverlap ==
  [][ plan' # plan =>
        \A family \in {"election", "commit", "read"} :
          Meets(plan, "election", plan', family) /\ Meets(plan', "election", plan, family) ]_vars

\* In every phase, joint ones included, some voter that nobody has fenced may
\* lead: fence_node_membership and plan_flat_member_removal between them never
\* leave the partition to nodes that are on their way out.
SurvivorLeads == \E n \in EligibleLeaders(plan) : db.member[n] = "Voter"

\* Whatever replica restarts finds the rows of its plan: stable plans and the
\* projection agree on every voter and learner that is not retiring, and the
\* revision is the epoch of the last stable plan
\* (restore_member_incarnations, synchronise_membership_projection).
ProjectionAgrees ==
  /\ db.revision = plan.old.epoch
  /\ plan.new.epoch = plan.old.epoch + (IF IsStable(plan) THEN 0 ELSE 1)
  /\ Rows(db, {"Voter"}) \subseteq plan.old.voters
  /\ plan.old.voters \subseteq Rows(db, {"Voter", "Retiring"})
  /\ plan.old.learners \subseteq Rows(db, {"Staged", "Retiring"})

\* No command or transition that was accepted ends the authority.
AuthorityRuns == running

\* The first leader never stops: what it admits and plans it can apply, in
\* whatever order nodes join, activate and drain (admit_next after
\* plan_membership_transition).
FirstLeaderRuns == changes = 0 => running

\* A node that enrolled as eligible becomes a member of the plan, unless it is
\* fenced first or the authority ends (plan_next_flat_learner_admission), also
\* when leaders change half way.
StagedAreAdmitted ==
  \A n \in Nodes :
    db.member[n] = "Staged" ~> (n \in PlanMembers(plan.new) \/ db.member[n] = "Retiring" \/ ~running)

\* A fenced member leaves the plan, so that its drain can complete
\* (plan_flat_member_removal, scope_node_is_consensus_member).
RetiringAreRemoved ==
  \A n \in Nodes :
    db.member[n] = "Retiring" ~>
      (n \notin PlanMembers(plan.old) \cup PlanMembers(plan.new) \/ ~running)

\* Active eligible nodes are promoted until the recommended number of voters is
\* reached (plan_promotion, recommended_voter_count).
TargetReached ==
  []<>( \/ ~running
        \/ /\ IsStable(plan)
           /\ \/ Cardinality(plan.new.voters) >= Desired
              \/ \A n \in plan.new.learners : db.node[n] # "Active" )
=============================================================================
