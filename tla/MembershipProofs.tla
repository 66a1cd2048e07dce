-------------------------- MODULE MembershipProofs --------------------------
(***************************************************************************)
(* Proofs about membership, for any finite set of nodes and any sequence of *)
(* joins, fences, promotions and leader changes, and about the quorum plans *)
(* it goes through.                                                         *)
(*                                                                         *)
(* Plans: the flat plan always compiles, reducing a family changes no       *)
(* decision, and whenever two plans compile their joint transition is safe  *)
(* and decides exactly what both plans decide.                              *)
(*                                                                         *)
(* PhasesOverlap: every plan of a phase is a compiled flat plan             *)
(* (PlansCompile, inductive), and a phase and its successor always share    *)
(* one of them, the old plan on entering a joint phase and the new one on   *)
(* leaving it.  What decides a phase contains a quorum of the shared plan,  *)
(* and its quorums intersect.                                               *)
(*                                                                         *)
(* TypeOK, ProjectionAgrees and SurvivorLeads: MemberInv is inductive.  It  *)
(* says nothing of the log, since every entry is validated against plan and *)
(* projection when it is applied.                                           *)
(*                                                                         *)
(* FirstLeaderRuns: FirstInv is inductive beside it.  The first leader has  *)
(* one entry in flight, of which it knows that it will be accepted, and the *)
(* projection is at most one member away from the plan.                     *)
(***************************************************************************)
EXTENDS MembershipCoordinator, FiniteSetTheorems, TLAPS

-----------------------------------------------------------------------------
(* Reduction to minimal quorums.                                            *)

\* Below every member of a finite family lies an inclusion-minimal one.
LEMMA MinimalBelow ==
  ASSUME NEW voters, IsFiniteSet(voters), NEW sets \in SUBSET SUBSET voters, NEW s \in sets
  PROVE  \E least \in ReduceMinimal(sets) : least \subseteq s
<1> DEFINE below == {t \in sets : t \subseteq s}
           R == StrictSubsetOrdering(voters)
<1>1. IsWellFoundedOn(R, SUBSET voters)
  BY FS_StrictSubsetOrderingWellFounded, FS_FiniteSubsetsOfFinite
<1>2. below \subseteq SUBSET voters /\ s \in below
  OBVIOUS
<1>3. PICK least \in below : \A t \in below : ~(<<t, least>> \in R)
  <2> HIDE DEF below, R
  <2> QED BY <1>1, <1>2, WFMin
<1>4. least \in ReduceMinimal(sets)
  <2>1. ASSUME NEW other \in sets, other # least, other \subseteq least
        PROVE  FALSE
    <3>1. other \in below
      BY <2>1
    <3>2. <<other, least>> \in R
      BY <2>1 DEF StrictSubsetOrdering
    <3> QED
      BY <1>3, <3>1, <3>2
  <2> QED
    BY <2>1 DEF ReduceMinimal
<1> QED
  BY <1>4

\* reduce_minimal changes no decision of FamilyProof::satisfies.
THEOREM ReductionDecidesTheSame ==
  ASSUME NEW voters, IsFiniteSet(voters), NEW sets \in SUBSET SUBSET voters, NEW acknowledgements
  PROVE  FamilySatisfies(ReduceMinimal(sets), acknowledgements)
           <=> FamilySatisfies(sets, acknowledgements)
<1>1. ASSUME FamilySatisfies(sets, acknowledgements)
      PROVE  FamilySatisfies(ReduceMinimal(sets), acknowledgements)
  <2>1. PICK s \in sets : s \subseteq acknowledgements
    BY <1>1 DEF FamilySatisfies
  <2>2. PICK least \in ReduceMinimal(sets) : least \subseteq s
    BY MinimalBelow
  <2> QED
    BY <2>1, <2>2 DEF FamilySatisfies
<1>2. ReduceMinimal(sets) \subseteq sets
  BY DEF ReduceMinimal
<1> QED
  BY <1>1, <1>2 DEF FamilySatisfies
-----------------------------------------------------------------------------
(* The flat plan.                                                           *)

\* Any two sets of voters of these sizes have a voter in common.
LEMMA ThresholdsIntersect ==
  ASSUME NEW voters, IsFiniteSet(voters), NEW k \in Nat, NEW l \in Nat,
         k + l > Cardinality(voters),
         NEW a \in ReduceMinimal(AtLeast(k, voters)), NEW b \in ReduceMinimal(AtLeast(l, voters))
  PROVE  a \cap b # {}
<1>1. /\ a \subseteq voters /\ Cardinality(a) >= k
      /\ b \subseteq voters /\ Cardinality(b) >= l
  BY DEF ReduceMinimal, AtLeast
<1>2. Cardinality(voters) \in Nat /\ Cardinality(a) \in Nat /\ Cardinality(b) \in Nat
  BY <1>1, FS_CardinalityType, FS_Subset
<1>3. Cardinality(a) + Cardinality(b) > Cardinality(voters)
  BY <1>1, <1>2
<1> QED
  BY <1>1, <1>3, FS_MajoritiesIntersect

\* A threshold no larger than the number of voters has a quorum.
LEMMA ThresholdHasQuorum ==
  ASSUME NEW voters, IsFiniteSet(voters), NEW k \in Nat, k <= Cardinality(voters)
  PROVE  ReduceMinimal(AtLeast(k, voters)) # {}
<1>1. voters \in AtLeast(k, voters) /\ AtLeast(k, voters) \in SUBSET SUBSET voters
  BY FS_CardinalityType DEF AtLeast
<1> QED
  BY <1>1, MinimalBelow

\* flat_plan never produces a plan that compile_plan would refuse, for any
\* number of voters, odd or even: every family has a quorum and the required
\* families intersect.
THEOREM FlatPlanCompiles ==
  ASSUME NEW voters, IsFiniteSet(voters), voters # {}
  PROVE  /\ FlatElection(voters) # {} /\ FlatCommit(voters) # {} /\ FlatRead(voters) # {}
         /\ ProveIntersections(FlatElection(voters), FlatCommit(voters), FlatRead(voters))
<1> DEFINE count == Cardinality(voters)
           e == FlatElectionThreshold(count)
           w == FlatWriteThreshold(count)
<1>1. count \in Nat /\ count # 0
  BY FS_CardinalityType, FS_EmptySet
<1> HIDE DEF count
<1>2. e \in Nat /\ w \in Nat /\ e <= count /\ w <= count /\ e + e > count /\ e + w > count
  BY <1>1 DEF FlatElectionThreshold, FlatWriteThreshold
<1>3. /\ FlatElection(voters) = ReduceMinimal(AtLeast(e, voters))
      /\ FlatCommit(voters) = ReduceMinimal(AtLeast(w, voters))
      /\ FlatRead(voters) = ReduceMinimal(AtLeast(w, voters))
  BY DEF FlatElection, FlatCommit, FlatRead, count
<1> HIDE DEF e, w
<1>4. FlatElection(voters) # {} /\ FlatCommit(voters) # {} /\ FlatRead(voters) # {}
  BY <1>2, <1>3, ThresholdHasQuorum DEF count
<1>5. /\ IntersectsAll(FlatElection(voters), FlatElection(voters))
      /\ IntersectsAll(FlatElection(voters), FlatCommit(voters))
      /\ IntersectsAll(FlatElection(voters), FlatRead(voters))
  BY <1>2, <1>3, ThresholdsIntersect DEF count, IntersectsAll
<1> QED
  BY <1>4, <1>5 DEF ProveIntersections
-----------------------------------------------------------------------------
(* The joint phase.                                                         *)

\* A joint quorum contains a quorum of each plan.
LEMMA JointContainsBoth ==
  ASSUME NEW old, NEW new, NEW q \in ComposeJoint(old, new)
  PROVE  /\ \E o \in old : o \subseteq q
         /\ \E n \in new : n \subseteq q
BY DEF ComposeJoint, ReduceMinimal

\* A family that intersects one plan's family intersects the joint one.
LEMMA JointIntersects ==
  ASSUME NEW left, NEW old, NEW new, IntersectsAll(left, old) \/ IntersectsAll(left, new)
  PROVE  /\ IntersectsAll(left, ComposeJoint(old, new))
         /\ IntersectsAll(ComposeJoint(old, new), left)
BY JointContainsBoth DEF IntersectsAll

\* prove_joint_transition admits every two compiled plans of rising epochs,
\* whatever their voters have in common: entering and leaving the joint phase
\* is safe whenever both plans are, so a membership change is never refused for
\* its intersections.
THEOREM CompiledPlansAreJoinable ==
  ASSUME NEW old, NEW new, new.epoch > old.epoch,
         ProveIntersections(old.election, old.commit, old.read),
         ProveIntersections(new.election, new.commit, new.read)
  PROVE  ProveJointTransition(old, new)
<1> DEFINE joint_election == ComposeJoint(old.election, new.election)
           joint_commit == ComposeJoint(old.commit, new.commit)
           joint_read == ComposeJoint(old.read, new.read)
<1>1. /\ IntersectsAll(old.election, old.election) /\ IntersectsAll(old.election, old.commit)
      /\ IntersectsAll(old.election, old.read)
      /\ IntersectsAll(new.election, new.election) /\ IntersectsAll(new.election, new.commit)
      /\ IntersectsAll(new.election, new.read)
  BY DEF ProveIntersections
<1>2. \A f, g : IntersectsAll(f, g) => IntersectsAll(g, f)
  BY DEF IntersectsAll
<1>3. IntersectsAll(old.election, joint_commit) /\ IntersectsAll(new.election, joint_commit)
  BY <1>1, JointIntersects
<1>4. /\ IntersectsAll(joint_election, old.commit) /\ IntersectsAll(joint_election, new.commit)
      /\ IntersectsAll(joint_election, old.election) /\ IntersectsAll(joint_election, old.read)
  BY <1>1, <1>2, JointIntersects
<1>5. /\ IntersectsAll(joint_election, joint_election)
      /\ IntersectsAll(joint_election, joint_commit)
      /\ IntersectsAll(joint_read, joint_election)
  BY <1>4, JointIntersects
<1> QED
  BY <1>3, <1>4, <1>5 DEF ProveJointTransition

\* The joint phase decides by asking both plans (JointQuorumPlan::satisfies);
\* prove_joint_transition reasons about the composed family.  They agree.
THEOREM JointFamilyIsBothPlans ==
  ASSUME NEW voters, IsFiniteSet(voters),
         NEW old \in SUBSET SUBSET voters, NEW new \in SUBSET SUBSET voters, NEW acknowledgements
  PROVE  FamilySatisfies(ComposeJoint(old, new), acknowledgements)
           <=> FamilySatisfies(old, acknowledgements) /\ FamilySatisfies(new, acknowledgements)
<1> DEFINE candidates == {o \cup n : o \in old, n \in new}
<1>1. candidates \in SUBSET SUBSET voters
  OBVIOUS
<1>2. FamilySatisfies(ReduceMinimal(candidates), acknowledgements)
        <=> FamilySatisfies(candidates, acknowledgements)
  <2> HIDE DEF candidates
  <2> QED BY <1>1, ReductionDecidesTheSame
<1>3. FamilySatisfies(candidates, acknowledgements)
        <=> FamilySatisfies(old, acknowledgements) /\ FamilySatisfies(new, acknowledgements)
  <2>0. ASSUME NEW o \in old, NEW n \in new
        PROVE  o \cup n \in candidates
    OBVIOUS
  <2>1. ASSUME FamilySatisfies(old, acknowledgements), FamilySatisfies(new, acknowledgements)
        PROVE  FamilySatisfies(candidates, acknowledgements)
    <3>1. PICK o \in old : o \subseteq acknowledgements
      BY <2>1 DEF FamilySatisfies
    <3>2. PICK n \in new : n \subseteq acknowledgements
      BY <2>1 DEF FamilySatisfies
    <3>3. o \cup n \subseteq acknowledgements
      BY <3>1, <3>2
    <3> HIDE DEF candidates
    <3> QED
      BY <2>0, <3>3 DEF FamilySatisfies
  <2>2. ASSUME FamilySatisfies(candidates, acknowledgements)
        PROVE  FamilySatisfies(old, acknowledgements) /\ FamilySatisfies(new, acknowledgements)
    <3>1. PICK s \in candidates : s \subseteq acknowledgements
      BY <2>2 DEF FamilySatisfies
    <3>2. PICK o \in old, n \in new : s = o \cup n
      OBVIOUS
    <3>3. o \subseteq acknowledgements /\ n \subseteq acknowledgements
      BY <3>1, <3>2
    <3> QED
      BY <3>3 DEF FamilySatisfies
  <2> QED
    BY <2>1, <2>2
<1> QED
  BY <1>2, <1>3 DEF ComposeJoint
-----------------------------------------------------------------------------
(* The phases of a change.                                                  *)

\* A flat plan whose voters are some of the nodes.
IsCompiled(p) ==
  /\ p.voters \subseteq Nodes /\ p.voters # {}
  /\ p = FlatPlan(p.epoch, p.voters, p.learners)

PlansCompile == IsCompiled(plan.old) /\ IsCompiled(plan.new)

\* The successor of a compiled plan is compiled, whatever its learners are.
LEMMA SuccessorCompiles ==
  ASSUME NEW epoch, NEW voters \in SUBSET Nodes, voters # {}, NEW learners
  PROVE  IsCompiled(FlatPlan(epoch, voters, learners))
BY DEF IsCompiled, FlatPlan

\* The families of a compiled plan intersect as compile_plan demands.
LEMMA CompiledIntersects ==
  ASSUME NEW p, IsCompiled(p)
  PROVE  ProveIntersections(p.election, p.commit, p.read)
<1>1. IsFiniteSet(p.voters) /\ p.voters # {}
  BY NodesAssumption, FS_Subset DEF IsCompiled
<1>2. /\ p.election = FlatElection(p.voters)
      /\ p.commit = FlatCommit(p.voters)
      /\ p.read = FlatRead(p.voters)
  <2>1. p = FlatPlan(p.epoch, p.voters, p.learners)
    BY DEF IsCompiled
  <2> QED
    BY <2>1 DEF FlatPlan
<1> QED
  BY <1>1, <1>2, FlatPlanCompiles

\* Phases that share a compiled plan have no disjoint decisions.
LEMMA SharedPlanMeets ==
  ASSUME NEW phase, NEW other, NEW p, IsCompiled(p),
         p = phase.old \/ p = phase.new, p = other.old \/ p = other.new,
         NEW family \in {"election", "commit", "read"}
  PROVE  Meets(phase, "election", other, family) /\ Meets(other, "election", phase, family)
<1>1. IntersectsAll(p.election, p[family])
  BY CompiledIntersects DEF ProveIntersections
<1>2. ASSUME NEW s, NEW t, FamilySatisfies(p.election, s), FamilySatisfies(p[family], t)
      PROVE  s \cap t # {}
  BY <1>1, <1>2 DEF FamilySatisfies, IntersectsAll
<1>3. \A s, f : PhaseSatisfies(phase, f, s) => FamilySatisfies(p[f], s)
  BY DEF PhaseSatisfies
<1>4. \A s, f : PhaseSatisfies(other, f, s) => FamilySatisfies(p[f], s)
  BY DEF PhaseSatisfies
<1>5. p["election"] = p.election
  OBVIOUS
<1> QED
  BY <1>2, <1>3, <1>4, <1>5 DEF Meets

\* What apply_membership_transition activates: a compiled phase that shares a
\* plan with the present one.
LEMMA ActivationShares ==
  ASSUME PlansCompile, NEW e, ValidTransition(e)
  PROVE  /\ IsCompiled(e.phase.old) /\ IsCompiled(e.phase.new)
         /\ \E p : /\ IsCompiled(p)
                   /\ p = plan.old \/ p = plan.new
                   /\ p = e.phase.old \/ p = e.phase.new
<1>0. IsCompiled(plan.old) /\ IsCompiled(plan.new)
  BY DEF PlansCompile
<1> DEFINE v == plan.new.voters
           l == plan.new.learners
<1>1. v \subseteq Nodes /\ v # {}
  BY <1>0 DEF IsCompiled
<1>2. CASE e.phase = Stable(plan.new)
  BY <1>0, <1>2 DEF Stable
<1>3. ASSUME NEW voters \in SUBSET Nodes, voters # {}, NEW learners,
             e.phase = JointWith(plan.new, voters, learners)
      PROVE  /\ IsCompiled(e.phase.old) /\ IsCompiled(e.phase.new)
             /\ e.phase.old = plan.new
  BY <1>0, <1>3, SuccessorCompiles DEF JointWith
<1>4. CASE /\ LearnerCandidates # {}
           /\ e = Admission(plan.new, Lowest(LearnerCandidates))
  <2>1. e.phase = JointWith(plan.new, v, l \cup {Lowest(LearnerCandidates)})
    BY <1>4 DEF Admission, Transition
  <2> QED
    BY <1>0, <1>1, <1>3, <2>1
<1>5. CASE /\ e.node \in plan.new.learners \cap Authoritative(db)
           /\ e = Promotion(plan.new, e.node)
  <2>1. e.phase = JointWith(plan.new, v \cup {e.node}, l \ {e.node})
    BY <1>5 DEF Promotion, Transition
  <2>2. v \cup {e.node} \in SUBSET Nodes /\ v \cup {e.node} # {}
    BY <1>1, <1>5 DEF Authoritative, Rows
  <2> QED
    BY <1>0, <1>3, <2>1, <2>2
<1>6. CASE plan.new.voters # {e.node} /\ e = Removal(plan.new, e.node)
  <2>1. e.phase = JointWith(plan.new, v \ {e.node}, l \ {e.node})
    BY <1>6 DEF Removal, Transition
  <2>2. v \ {e.node} \in SUBSET Nodes /\ v \ {e.node} # {}
    BY <1>1, <1>6
  <2> QED
    BY <1>0, <1>3, <2>1, <2>2
<1> QED
  BY <1>2, <1>4, <1>5, <1>6 DEF ValidTransition

\* Every plan in force is compiled, and successive phases overlap.
LEMMA PhaseStep ==
  ASSUME PlansCompile, [Next]_vars
  PROVE  /\ PlansCompile'
         /\ plan' # plan =>
              \A family \in {"election", "commit", "read"} :
                Meets(plan, "election", plan', family) /\ Meets(plan', "election", plan, family)
<1>1. CASE plan' = plan
  BY <1>1 DEF PlansCompile, IsCompiled
<1>2. CASE ApplyMembershipTransition
  <2>1. ValidTransition(Head(tail)) /\ plan' = Head(tail).phase
    BY <1>2 DEF ApplyMembershipTransition, Accepted
  <2>2. IsCompiled(plan'.old) /\ IsCompiled(plan'.new)
    BY <2>1, ActivationShares
  <2>3. PICK p : /\ IsCompiled(p)
                 /\ p = plan.old \/ p = plan.new
                 /\ p = plan'.old \/ p = plan'.new
    BY <2>1, ActivationShares
  <2>4. \A family \in {"election", "commit", "read"} :
          Meets(plan, "election", plan', family) /\ Meets(plan', "election", plan, family)
    BY <2>3, SharedPlanMeets
  <2> QED
    BY <2>2, <2>4 DEF PlansCompile, IsCompiled
<1>3. plan' = plan \/ ApplyMembershipTransition
  BY DEF Next, vars, PlanMembershipTransition, AdmitNext, ConfirmReadTerm, ApplyCommand,
         ApplyTermConfirmation, Stop, ChangeLeader
<1> QED
  BY <1>1, <1>2, <1>3

\* While replicas are split between a phase and the one that
\* finish_plan_activation replaces it with, no election of either side misses
\* an election, a commit or a read of the other, for any mesh and any history
\* of joins, drains and leader changes.
THEOREM PhaseOverlapHolds == Spec => PhasesOverlap
<1>1. Init => PlansCompile
  <2>1. {Founder} \in SUBSET Nodes
    BY NodesAssumption
  <2>2. IsCompiled(FlatPlan(1, {Founder}, {}))
    BY <2>1, SuccessorCompiles
  <2> QED
    BY <2>2 DEF Init, Stable, PlansCompile
<1>2. PlansCompile /\ [Next]_vars =>
        /\ PlansCompile'
        /\ [ plan' # plan =>
              \A family \in {"election", "commit", "read"} :
                Meets(plan, "election", plan', family) /\ Meets(plan', "election", plan, family) ]_vars
  BY PhaseStep
<1> QED
  BY <1>1, <1>2, PTL DEF Spec, PhasesOverlap
-----------------------------------------------------------------------------
(* The plan and the projection, for any order of commands and leaders.      *)

Plans == {FlatPlan(epoch, voters, learners) :
            epoch \in Nat, voters \in SUBSET Nodes, learners \in SUBSET Nodes}

Phases == [old : Plans, new : Plans]

Entries ==
  Commands \cup [kind : {"TermConfirmation"}]
           \cup [kind : MembershipKinds, node : Nodes, phase : Phases]

\* A flat plan of some of the nodes, none of them voter and learner at once.
ProperPlan(p) ==
  /\ p \in Plans
  /\ p.voters # {} /\ p.learners \cap p.voters = {}

MemberTypes ==
  /\ plan \in Phases /\ ProperPlan(plan.old) /\ ProperPlan(plan.new)
  /\ db \in [member : [Nodes -> MemberRow], node : [Nodes -> NodeState], revision : Nat]
  /\ tail \in Seq(Entries)
  /\ spoken \in BOOLEAN /\ pending \in BOOLEAN /\ running \in BOOLEAN
  /\ changes \in 0..MaxLeaderChanges

\* A member that is not on its way out has a node that is admitted or active,
\* and a retiring one a node.
RowsAreBacked ==
  \A n \in Nodes :
    /\ db.member[n] \in {"Voter", "Staged"} => db.node[n] \in {"Admitted", "Active"}
    /\ db.member[n] = "Retiring" => db.node[n] # "Absent"

\* Every voter that nobody has fenced votes in both plans of the phase.
VotersStay ==
  /\ Rows(db, {"Voter"}) # {}
  /\ Rows(db, {"Voter"}) \subseteq plan.new.voters

MemberInv == MemberTypes /\ RowsAreBacked /\ VotersStay /\ ProjectionAgrees
-----------------------------------------------------------------------------
(* The first leader has one thing in flight at a time.                      *)

\* One member at most has to be added or removed at a time.
OneIsDue ==
  \/ RetiringMembers = {} /\ LearnerCandidates = {}
  \/ \E n \in Nodes : \/ RetiringMembers = {n} /\ LearnerCandidates = {}
                      \/ RetiringMembers = {} /\ LearnerCandidates = {n}

InFlight ==
  \/ tail = <<>> /\ ~pending
  \/ /\ pending
     /\ \E c \in Commands : tail = <<c>> /\ CanApply(db, c) /\ ~TransitionDue
  \/ /\ ~pending
     /\ \E e \in Entries :
          /\ tail = <<e>> /\ e.kind \in MembershipKinds /\ Accepted(e)
          /\ e.kind = "PromoteLearner" => ~TransitionDue

FirstInv ==
  changes = 0 =>
    /\ running /\ spoken
    /\ InFlight
    /\ IF IsStable(plan) THEN OneIsDue
       ELSE Rows(db, {"Voter", "Staged"}) = PlanMembers(plan.new)
-----------------------------------------------------------------------------
(* Plans, phases and rows.                                                  *)

\* What a flat plan of the mesh consists of.
LEMMA PlanFields ==
  ASSUME NEW p \in Plans
  PROVE  /\ p.epoch \in Nat /\ p.voters \in SUBSET Nodes /\ p.learners \in SUBSET Nodes
         /\ p.eligible = p.voters
         /\ p = FlatPlan(p.epoch, p.voters, p.learners)
         /\ PlanMembers(p) \in SUBSET Nodes
BY DEF Plans, FlatPlan, PlanMembers

\* The fields of a new flat plan.
LEMMA FlatFields ==
  ASSUME NEW epoch \in Nat, NEW voters \in SUBSET Nodes, NEW learners \in SUBSET Nodes
  PROVE  /\ FlatPlan(epoch, voters, learners) \in Plans
         /\ FlatPlan(epoch, voters, learners).epoch = epoch
         /\ FlatPlan(epoch, voters, learners).voters = voters
         /\ FlatPlan(epoch, voters, learners).learners = learners
         /\ PlanMembers(FlatPlan(epoch, voters, learners)) = voters \cup learners
<1>1. FlatPlan(epoch, voters, learners) \in Plans
  BY DEF Plans
<1>. QED BY <1>1 DEF FlatPlan, PlanMembers

\* A joint phase starts from the plan it replaces, one epoch on, so that it is
\* never taken for a stable one.
LEMMA JointFields ==
  ASSUME NEW p \in Plans, NEW voters \in SUBSET Nodes, NEW learners \in SUBSET Nodes,
         NEW phase, phase = JointWith(p, voters, learners)
  PROVE  /\ phase \in Phases /\ phase.old = p
         /\ phase.new.epoch = p.epoch + 1
         /\ phase.new.voters = voters /\ phase.new.learners = learners
         /\ PlanMembers(phase.new) = voters \cup learners
         /\ ~IsStable(phase)
<1>1. p.epoch \in Nat /\ p.epoch + 1 \in Nat /\ p.epoch # p.epoch + 1
  BY PlanFields
<1> DEFINE q == FlatPlan(p.epoch + 1, voters, learners)
<1>2. /\ q \in Plans /\ q.epoch = p.epoch + 1 /\ q.voters = voters /\ q.learners = learners
      /\ PlanMembers(q) = voters \cup learners
  BY <1>1, FlatFields
<1>3. phase = [old |-> p, new |-> q]
  BY DEF JointWith
<1> HIDE DEF q
<1>. QED BY <1>1, <1>2, <1>3 DEF Phases, IsStable

\* The lowest of some nodes is one of them.
LEMMA LowestIsOne ==
  ASSUME NEW nodes \in SUBSET Nodes, nodes # {}
  PROVE  Lowest(nodes) \in nodes
<1>1. nodes \subseteq Nat
  BY NodesAssumption
<1>2. PICK n \in nodes : \A m \in nodes : ~(<<m, n>> \in OpToRel(<, Nat))
  BY <1>1, NatLessThanWellFounded, WFMin
<1>3. \A m \in nodes : ~(m < n)
  BY <1>1, <1>2 DEF OpToRel
<1>4. \A m \in nodes : n <= m
  BY <1>1, <1>3
<1>. QED BY <1>4 DEF Lowest

DbType == [member : [Nodes -> MemberRow], node : [Nodes -> NodeState], revision : Nat]

\* consume_join_grant touches the rows of one node.
LEMMA JoinedRows ==
  ASSUME NEW d \in DbType, NEW n \in Nodes, NEW eligible \in BOOLEAN,
         NEW e, e = Joined(d, n, eligible)
  PROVE  /\ e \in DbType /\ e.revision = d.revision
         /\ \A k \in Nodes : /\ e.node[k] = IF k = n THEN "Admitted" ELSE d.node[k]
                             /\ e.member[k] = IF k = n /\ eligible THEN "Staged" ELSE d.member[k]
BY DEF DbType, Joined, MemberRow, NodeState

\* activate_node touches the state of one node.
LEMMA ActivatedRows ==
  ASSUME NEW d \in DbType, NEW n \in Nodes, NEW e, e = Activated(d, n)
  PROVE  /\ e \in DbType /\ e.revision = d.revision /\ e.member = d.member
         /\ \A k \in Nodes : e.node[k] = IF k = n THEN "Active" ELSE d.node[k]
BY DEF DbType, Activated, NodeState

\* fence_node_membership touches the rows of one node.
LEMMA FencedRows ==
  ASSUME NEW d \in DbType, NEW n \in Nodes, NEW e, e = Fenced(d, n)
  PROVE  /\ e \in DbType /\ e.revision = d.revision
         /\ \A k \in Nodes :
              /\ e.node[k] = IF k = n THEN "Draining" ELSE d.node[k]
              /\ e.member[k] = IF k = n /\ d.member[n] \in {"Voter", "Staged"} THEN "Retiring"
                               ELSE d.member[k]
BY DEF DbType, Fenced, MemberRow, NodeState

\* synchronise_membership_projection rewrites the members of the plan.
LEMMA SynchronisedRows ==
  ASSUME NEW d \in DbType, NEW p \in Plans, NEW e, e = Synchronised(d, p)
  PROVE  /\ e \in DbType /\ e.revision = p.epoch
         /\ \A k \in Nodes :
              /\ e.node[k] = IF k \in p.voters THEN "Active" ELSE d.node[k]
              /\ e.member[k] = IF k \in p.voters THEN "Voter"
                               ELSE IF k \in p.learners THEN "Staged" ELSE d.member[k]
<1>1. p.epoch \in Nat
  BY PlanFields
<1>. QED BY <1>1 DEF DbType, Synchronised, MemberRow, NodeState

\* A command is of one of three kinds.
LEMMA CommandKinds ==
  ASSUME NEW c \in Commands
  PROVE  /\ c.node \in Nodes
         /\ \/ c.kind = "Join" /\ c.eligible \in BOOLEAN
            \/ c.kind = "Activate"
            \/ c.kind = "Fence"
         /\ c.kind \notin MembershipKinds /\ c.kind # "TermConfirmation"
BY DEF Commands, MembershipKinds

\* What a command does to the rows.
LEMMA CommandEffect ==
  ASSUME NEW c \in Commands, NEW d
  PROVE  /\ c.kind = "Join" => Apply(d, c) = Joined(d, c.node, c.eligible) /\ (CanApply(d, c) <=> CanJoin(d, c.node))
         /\ c.kind = "Activate" => Apply(d, c) = Activated(d, c.node) /\ (CanApply(d, c) <=> CanActivate(d, c.node))
         /\ c.kind = "Fence" => Apply(d, c) = Fenced(d, c.node) /\ (CanApply(d, c) <=> CanFence(d, c.node))
BY DEF Apply, CanApply

\* The members of the plan in force have rows, and those that do not retire are
\* exactly its voters and some of its learners.
LEMMA MembersHaveRows ==
  ASSUME MemberInv
  PROVE  /\ PlanMembers(plan.old) \subseteq Authoritative(db)
         /\ \A n \in plan.old.voters : db.member[n] \in {"Voter", "Retiring"}
         /\ \A n \in plan.old.learners : db.member[n] \in {"Staged", "Retiring"}
         /\ \A n \in Nodes : db.member[n] = "Voter" => n \in plan.old.voters /\ n \in plan.new.voters
         /\ \E n \in Nodes : db.member[n] = "Voter"
BY DEF MemberInv, ProjectionAgrees, VotersStay, Rows, PlanMembers, Authoritative

\* A command keeps plan and projection together.
LEMMA CommandKeeps ==
  ASSUME MemberInv, NEW c \in Commands, CanApply(db, c), db' = Apply(db, c), plan' = plan
  PROVE  /\ db' \in DbType
         /\ RowsAreBacked' /\ VotersStay' /\ ProjectionAgrees'
<1> DEFINE n == c.node
<1>0. db \in DbType /\ n \in Nodes
  BY CommandKinds DEF MemberInv, MemberTypes, DbType
<1>1. ASSUME /\ db' \in DbType /\ db'.revision = db.revision
             /\ RowsAreBacked'
             /\ \A k \in Nodes : db'.member[k] = "Voter" => db.member[k] = "Voter"
             /\ \E k \in Nodes : db'.member[k] = "Voter"
             /\ \A k \in Nodes : db.member[k] \in {"Voter", "Retiring"} => db'.member[k] \in {"Voter", "Retiring"}
             /\ \A k \in Nodes : db.member[k] \in {"Staged", "Retiring"} => db'.member[k] \in {"Staged", "Retiring"}
      PROVE  db' \in DbType /\ RowsAreBacked' /\ VotersStay' /\ ProjectionAgrees'
  <2>1. VotersStay'
    BY <1>1 DEF MemberInv, VotersStay, Rows
  <2>2. ProjectionAgrees'
    BY <1>1 DEF MemberInv, ProjectionAgrees, Rows, IsStable
  <2>. QED BY <1>1, <2>1, <2>2
<1>2. CASE c.kind = "Join"
  <2>1. db' = Joined(db, n, c.eligible) /\ db.node[n] = "Absent" /\ c.eligible \in BOOLEAN
    BY <1>2, CommandEffect, CommandKinds DEF CanJoin
  <2>2. /\ db' \in DbType /\ db'.revision = db.revision
        /\ \A k \in Nodes : /\ db'.node[k] = IF k = n THEN "Admitted" ELSE db.node[k]
                            /\ db'.member[k] = IF k = n /\ c.eligible THEN "Staged" ELSE db.member[k]
    BY <1>0, <2>1, JoinedRows
  <2>3. db.member[n] = "Absent"
    BY <1>0, <2>1 DEF MemberInv, RowsAreBacked, DbType, MemberRow
  <2>4. RowsAreBacked'
    BY <2>2, <2>3 DEF MemberInv, RowsAreBacked
  <2>. QED BY <1>1, <2>2, <2>3, <2>4, MembersHaveRows
<1>3. CASE c.kind = "Activate"
  <2>1. db' = Activated(db, n) /\ db.node[n] = "Admitted"
    BY <1>3, CommandEffect DEF CanActivate
  <2>2. /\ db' \in DbType /\ db'.revision = db.revision /\ db'.member = db.member
        /\ \A k \in Nodes : db'.node[k] = IF k = n THEN "Active" ELSE db.node[k]
    BY <1>0, <2>1, ActivatedRows
  <2>3. RowsAreBacked'
    BY <2>2 DEF MemberInv, RowsAreBacked
  <2>. QED BY <1>1, <2>2, <2>3, MembersHaveRows
<1>4. CASE c.kind = "Fence"
  <2>1. db' = Fenced(db, n) /\ db.node[n] = "Active" /\ MembershipCanRetire(db, n)
    BY <1>4, CommandEffect DEF CanFence
  <2>2. /\ db' \in DbType /\ db'.revision = db.revision
        /\ \A k \in Nodes :
             /\ db'.node[k] = IF k = n THEN "Draining" ELSE db.node[k]
             /\ db'.member[k] = IF k = n /\ db.member[n] \in {"Voter", "Staged"} THEN "Retiring"
                                ELSE db.member[k]
    BY <1>0, <2>1, FencedRows
  <2>3. RowsAreBacked'
    BY <2>2 DEF MemberInv, RowsAreBacked
  <2>4. \E k \in Nodes : db'.member[k] = "Voter"
    <3>1. PICK k \in Nodes : db.member[k] = "Voter" /\ k # n
      BY <2>1, MembersHaveRows DEF MembershipCanRetire, Rows
    <3>. QED BY <2>2, <3>1
  <2>. QED BY <1>1, <2>2, <2>3, <2>4
<1>. QED BY <1>2, <1>3, <1>4, CommandKinds

\* The state around a joint phase that is entered from a stable plan.
LEMMA JointKeeps ==
  ASSUME MemberInv, IsStable(plan), NEW voters \in SUBSET Nodes, NEW learners \in SUBSET Nodes,
         Rows(db, {"Voter"}) \subseteq voters, voters \cap learners = {},
         plan' = JointWith(plan.new, voters, learners), db' = db
  PROVE  /\ plan' \in Phases /\ ProperPlan(plan'.old) /\ ProperPlan(plan'.new)
         /\ RowsAreBacked' /\ VotersStay' /\ ProjectionAgrees'
<1>1. plan.old = plan.new /\ ProperPlan(plan.new) /\ plan.new \in Plans
  BY DEF MemberInv, MemberTypes, IsStable, ProperPlan
<1>2. /\ plan' \in Phases /\ plan'.old = plan.new
      /\ plan'.new.epoch = plan.new.epoch + 1
      /\ plan'.new.voters = voters /\ plan'.new.learners = learners
      /\ ~IsStable(plan')
  BY <1>1, JointFields
<1>3. voters # {}
  BY DEF MemberInv, VotersStay
<1>4. ProperPlan(plan'.old) /\ ProperPlan(plan'.new)
  BY <1>1, <1>2, <1>3 DEF ProperPlan, Phases
<1>5. RowsAreBacked' /\ VotersStay'
  BY <1>2 DEF MemberInv, RowsAreBacked, VotersStay, Rows
<1>6. ProjectionAgrees'
  <2>1. db'.revision = plan'.old.epoch
    BY <1>1, <1>2 DEF MemberInv, ProjectionAgrees
  <2>2. plan'.new.epoch = plan'.old.epoch + (IF IsStable(plan') THEN 0 ELSE 1)
    BY <1>2
  <2>3. /\ Rows(db', {"Voter"}) \subseteq plan'.old.voters
        /\ plan'.old.voters \subseteq Rows(db', {"Voter", "Retiring"})
        /\ plan'.old.learners \subseteq Rows(db', {"Staged", "Retiring"})
    BY <1>1, <1>2 DEF MemberInv, ProjectionAgrees, Rows
  <2>. QED BY <2>1, <2>2, <2>3 DEF ProjectionAgrees, Rows
<1>. QED BY <1>2, <1>4, <1>5, <1>6

\* What the joint transitions do to the members of a stable plan.
LEMMA JointKinds ==
  ASSUME MemberInv, IsStable(plan)
  PROVE  /\ LearnerCandidates # {} =>
              LET n == Lowest(LearnerCandidates)
              IN  /\ n \in Nodes /\ n \in LearnerCandidates
                  /\ n \notin plan.new.voters /\ n \notin plan.new.learners
         /\ \A n \in RetiringMembers : n \in Nodes /\ db.member[n] = "Retiring"
         /\ RetiringMembers # {} => Lowest(RetiringMembers) \in RetiringMembers
         /\ Rows(db, {"Voter"}) \subseteq plan.new.voters
         /\ plan.new.voters \subseteq Nodes /\ plan.new.learners \subseteq Nodes
         /\ plan.new.voters \cap plan.new.learners = {}
         /\ \A n \in RetiringMembers : plan.new.voters # {n}
<1>1. LearnerCandidates \in SUBSET Nodes /\ RetiringMembers \in SUBSET Nodes
  BY DEF LearnerCandidates, RetiringMembers, Rows
<1>2. plan.new \in Plans /\ plan.new.voters \cap plan.new.learners = {}
  BY DEF MemberInv, MemberTypes, ProperPlan
<1>3. LearnerCandidates # {} => Lowest(LearnerCandidates) \in LearnerCandidates
  BY <1>1, LowestIsOne
<1>4. RetiringMembers # {} => Lowest(RetiringMembers) \in RetiringMembers
  BY <1>1, LowestIsOne
<1>5. \A n \in LearnerCandidates : n \notin plan.new.voters /\ n \notin plan.new.learners
  BY DEF LearnerCandidates, PlanMembers
<1>6. \A n \in RetiringMembers : db.member[n] = "Retiring"
  BY DEF RetiringMembers, Rows
<1>7. \A n \in RetiringMembers : plan.new.voters # {n}
  <2>1. \E k \in Nodes : db.member[k] = "Voter" /\ k \in plan.new.voters
    BY MembersHaveRows
  <2>. QED BY <1>6, <2>1
<1>8. Rows(db, {"Voter"}) \subseteq plan.new.voters
  BY DEF MemberInv, VotersStay
<1>. QED BY <1>1, <1>2, <1>3, <1>4, <1>5, <1>6, <1>7, <1>8, PlanFields

\* An entry that passes validate_transition and the projection is one of four.
LEMMA AcceptedKinds ==
  ASSUME MemberInv, NEW e, ValidTransition(e)
  PROVE  \/ ~IsStable(plan) /\ e.kind = "FinaliseStable" /\ e.phase = Stable(plan.new)
         \/ /\ IsStable(plan) /\ LearnerCandidates # {} /\ e.kind = "AdmitLearner"
            /\ e.phase = JointWith(plan.new, plan.new.voters,
                                   plan.new.learners \cup {Lowest(LearnerCandidates)})
         \/ /\ IsStable(plan) /\ e.kind = "PromoteLearner" /\ e.node \in plan.new.learners
            /\ e.phase = JointWith(plan.new, plan.new.voters \cup {e.node},
                                   plan.new.learners \ {e.node})
         \/ /\ IsStable(plan) /\ e.kind = "RemoveMember" /\ e.node \in RetiringMembers
            /\ e.phase = JointWith(plan.new, plan.new.voters \ {e.node},
                                   plan.new.learners \ {e.node})
BY DEF ValidTransition, Admission, Promotion, Removal, Transition

\* apply_membership_transition keeps plan and projection together.
LEMMA TransitionKeeps ==
  ASSUME MemberInv, NEW e, Accepted(e), plan' = e.phase,
         db' = IF IsStable(plan') THEN Synchronised(db, plan'.new) ELSE db
  PROVE  /\ plan' \in Phases /\ ProperPlan(plan'.old) /\ ProperPlan(plan'.new)
         /\ db' \in DbType
         /\ RowsAreBacked' /\ VotersStay' /\ ProjectionAgrees'
<1> DEFINE v == plan.new.voters
           l == plan.new.learners
<1>1. plan.new \in Plans /\ ProperPlan(plan.new) /\ db \in DbType
  BY DEF MemberInv, MemberTypes, ProperPlan, DbType
<1>2. ValidTransition(e) /\ (IsStable(e.phase) => ProjectionAccepts(db, e.phase.new))
  BY DEF Accepted
<1>3. ASSUME NEW voters \in SUBSET Nodes, NEW learners \in SUBSET Nodes, IsStable(plan),
             Rows(db, {"Voter"}) \subseteq voters, voters \cap learners = {},
             e.phase = JointWith(plan.new, voters, learners)
      PROVE  /\ plan' \in Phases /\ ProperPlan(plan'.old) /\ ProperPlan(plan'.new)
             /\ db' \in DbType
             /\ RowsAreBacked' /\ VotersStay' /\ ProjectionAgrees'
  <2>0. ~IsStable(JointWith(plan.new, voters, learners))
    BY <1>1, <1>3, JointFields
  <2>1. plan' = JointWith(plan.new, voters, learners) /\ ~IsStable(plan')
    BY <1>3, <2>0
  <2>2. db' = db
    BY <2>1
  <2>. QED BY <1>1, <1>3, <2>1, <2>2, JointKeeps
<1>4. CASE ~IsStable(plan) /\ e.phase = Stable(plan.new)
  <2>1. plan' = [old |-> plan.new, new |-> plan.new] /\ IsStable(plan')
    BY <1>4 DEF Stable, IsStable
  <2>2. /\ plan'.old = plan.new /\ plan'.new = plan.new /\ plan' \in Phases
        /\ db' = Synchronised(db, plan.new)
    BY <1>1, <2>1 DEF Phases
  <2>3. ProjectionAccepts(db, plan.new)
    BY <1>2, <2>1, <2>2
  <2>4. /\ db' \in DbType /\ db'.revision = plan.new.epoch
        /\ \A k \in Nodes :
             /\ db'.node[k] = IF k \in v THEN "Active" ELSE db.node[k]
             /\ db'.member[k] = IF k \in v THEN "Voter" ELSE IF k \in l THEN "Staged" ELSE db.member[k]
    BY <1>1, <2>2, SynchronisedRows
  <2>5. \A k \in Nodes : k \in v \cup l <=> db.member[k] \in {"Voter", "Staged"}
    BY <2>3 DEF ProjectionAccepts, Rows, PlanMembers
  <2>6. v # {} /\ v \cap l = {} /\ v \subseteq Nodes /\ l \subseteq Nodes
    BY <1>1, PlanFields DEF ProperPlan
  <2>7. RowsAreBacked'
    BY <2>4, <2>5 DEF MemberInv, RowsAreBacked
  <2>8. \A k \in Nodes : (db'.member[k] = "Voter" <=> k \in v) /\ (k \in l => db'.member[k] = "Staged")
    BY <2>4, <2>6, MembersHaveRows
  <2>9. VotersStay'
    BY <2>2, <2>6, <2>8 DEF VotersStay, Rows
  <2>10. ProjectionAgrees'
    <3>1. plan'.new.epoch = plan'.old.epoch + (IF IsStable(plan') THEN 0 ELSE 1)
      BY <1>1, <2>1, <2>2, PlanFields
    <3>. QED BY <2>2, <2>4, <2>6, <2>8, <3>1 DEF ProjectionAgrees, Rows
  <2>. QED BY <1>1, <2>2, <2>4, <2>7, <2>9, <2>10
<1>5. CASE /\ IsStable(plan) /\ LearnerCandidates # {}
           /\ e.phase = JointWith(plan.new, v, l \cup {Lowest(LearnerCandidates)})
  BY <1>3, <1>5, JointKinds
<1>6. CASE /\ IsStable(plan) /\ e.node \in l
           /\ e.phase = JointWith(plan.new, v \cup {e.node}, l \ {e.node})
  <2>1. v \cup {e.node} \in SUBSET Nodes /\ l \ {e.node} \in SUBSET Nodes
    BY <1>6, JointKinds
  <2>. QED BY <1>3, <1>6, <2>1, JointKinds
<1>7. CASE /\ IsStable(plan) /\ e.node \in RetiringMembers
           /\ e.phase = JointWith(plan.new, v \ {e.node}, l \ {e.node})
  <2>1. Rows(db, {"Voter"}) \subseteq v \ {e.node}
    <3>1. e.node \notin Rows(db, {"Voter"})
      BY <1>7, JointKinds DEF Rows
    <3>. QED BY <1>7, <3>1, JointKinds
  <2>2. PICK voters \in SUBSET Nodes, learners \in SUBSET Nodes :
          voters = v \ {e.node} /\ learners = l \ {e.node}
    BY <1>7, JointKinds
  <2>3. /\ IsStable(plan) /\ Rows(db, {"Voter"}) \subseteq voters /\ voters \cap learners = {}
        /\ e.phase = JointWith(plan.new, voters, learners)
    BY <1>7, <2>1, <2>2, JointKinds
  <2>. QED BY <1>3, <2>3
<1>. QED BY <1>2, <1>4, <1>5, <1>6, <1>7, AcceptedKinds
-----------------------------------------------------------------------------
(* The log.                                                                 *)

\* What the leader plans is an entry, and one that can be activated now if the
\* projection still says what it said.
LEMMA PlannedEntry ==
  ASSUME MemberInv, NEW e,
         \/ ~IsStable(plan) /\ e = Finalisation(plan)
         \/ IsStable(plan) /\ RetiringMembers # {} /\ e = Removal(plan.new, Lowest(RetiringMembers))
         \/ IsStable(plan) /\ LearnerCandidates # {} /\ e = Admission(plan.new, Lowest(LearnerCandidates))
         \/ IsStable(plan) /\ \E n \in plan.new.learners : e = Promotion(plan.new, n)
  PROVE  e \in Entries /\ e.kind \in MembershipKinds
<1> DEFINE v == plan.new.voters
           l == plan.new.learners
<1>1. plan.new \in Plans /\ Founder \in Nodes
  BY NodesAssumption DEF MemberInv, MemberTypes, ProperPlan
<1>2. ASSUME NEW kind \in MembershipKinds, NEW n \in Nodes, NEW phase \in Phases,
             e = Transition(kind, n, phase)
      PROVE  e \in Entries /\ e.kind \in MembershipKinds
  BY <1>2 DEF Transition, Entries
<1>3. CASE e = Finalisation(plan)
  BY <1>1, <1>2, <1>3 DEF Finalisation, Stable, Phases, MembershipKinds
<1>4. ASSUME NEW kind \in MembershipKinds, NEW n \in Nodes,
             NEW voters \in SUBSET Nodes, NEW learners \in SUBSET Nodes,
             e = Transition(kind, n, JointWith(plan.new, voters, learners))
      PROVE  e \in Entries /\ e.kind \in MembershipKinds
  BY <1>1, <1>2, <1>4, JointFields
<1>5. CASE IsStable(plan) /\ RetiringMembers # {} /\ e = Removal(plan.new, Lowest(RetiringMembers))
  <2>1. Lowest(RetiringMembers) \in Nodes /\ v \in SUBSET Nodes /\ l \in SUBSET Nodes
    BY <1>5, JointKinds
  <2>. QED BY <1>4, <1>5, <2>1 DEF Removal, MembershipKinds
<1>6. CASE IsStable(plan) /\ LearnerCandidates # {} /\ e = Admission(plan.new, Lowest(LearnerCandidates))
  <2>1. Lowest(LearnerCandidates) \in Nodes /\ v \in SUBSET Nodes /\ l \in SUBSET Nodes
    BY <1>6, JointKinds
  <2>2. l \cup {Lowest(LearnerCandidates)} \in SUBSET Nodes
    BY <2>1
  <2>. QED BY <1>4, <1>6, <2>1, <2>2 DEF Admission, MembershipKinds
<1>7. ASSUME IsStable(plan), NEW n \in l, e = Promotion(plan.new, n)
      PROVE  e \in Entries /\ e.kind \in MembershipKinds
  <2>1. n \in Nodes /\ v \in SUBSET Nodes /\ l \in SUBSET Nodes
    BY <1>7, JointKinds
  <2>2. v \cup {n} \in SUBSET Nodes /\ l \ {n} \in SUBSET Nodes
    BY <2>1
  <2>. QED BY <1>4, <1>7, <2>1, <2>2 DEF Promotion, MembershipKinds
<1>. QED BY <1>3, <1>5, <1>6, <1>7

\* The entry a planning leader appends.
LEMMA PlanningAppends ==
  ASSUME MemberInv, PlanMembershipTransition
  PROVE  \E e \in Entries :
           /\ tail' = Append(tail, e) /\ spoken' = TRUE
           /\ e.kind \in MembershipKinds
           /\ \/ ~IsStable(plan) /\ e = Finalisation(plan)
              \/ IsStable(plan) /\ RetiringMembers # {} /\ e = Removal(plan.new, Lowest(RetiringMembers))
              \/ IsStable(plan) /\ LearnerCandidates # {} /\ e = Admission(plan.new, Lowest(LearnerCandidates))
              \/ ~TransitionDue /\ \E n \in plan.new.learners : e = Promotion(plan.new, n)
<1>1. ~TransitionDue => IsStable(plan)
  BY DEF TransitionDue
<1>2. Promotable \subseteq plan.new.learners
  BY DEF Promotable
<1>3. CASE ~IsStable(plan) /\ Append1(Finalisation(plan))
  BY <1>3, PlannedEntry DEF Append1
<1>4. CASE IsStable(plan) /\ RetiringMembers # {} /\ Append1(Removal(plan.new, Lowest(RetiringMembers)))
  BY <1>4, PlannedEntry DEF Append1
<1>5. CASE IsStable(plan) /\ LearnerCandidates # {} /\ Append1(Admission(plan.new, Lowest(LearnerCandidates)))
  BY <1>5, PlannedEntry DEF Append1
<1>6. ASSUME ~TransitionDue, NEW n \in Promotable, Append1(Promotion(plan.new, n))
      PROVE  \E e \in Entries :
               /\ tail' = Append(tail, e) /\ spoken' = TRUE
               /\ e.kind \in MembershipKinds
               /\ ~TransitionDue /\ \E m \in plan.new.learners : e = Promotion(plan.new, m)
  BY <1>1, <1>2, <1>6, PlannedEntry DEF Append1
<1>. QED BY <1>3, <1>4, <1>5, <1>6 DEF PlanMembershipTransition

\* MemberInv, but for the log, is about plan, projection and flags only.
LEMMA LogKeeps ==
  ASSUME MemberInv, UNCHANGED <<plan, db>>, tail' \in Seq(Entries),
         spoken' \in BOOLEAN, pending' \in BOOLEAN, running' \in BOOLEAN,
         changes' \in 0..MaxLeaderChanges
  PROVE  MemberInv'
BY DEF MemberInv, MemberTypes, ProperPlan, RowsAreBacked, VotersStay, ProjectionAgrees, Rows, IsStable

\* The mesh is founded with one voter.
LEMMA InitMembers == Init => MemberInv
<1> SUFFICES ASSUME Init PROVE MemberInv
  OBVIOUS
<1> DEFINE p == FlatPlan(1, {Founder}, {})
<1>1. Founder \in Nodes /\ {Founder} \in SUBSET Nodes /\ {} \in SUBSET Nodes
  BY NodesAssumption
<1>2. p \in Plans /\ p.epoch = 1 /\ p.voters = {Founder} /\ p.learners = {}
  <2>1. p \in Plans
    BY <1>1 DEF Plans
  <2>. QED BY <2>1 DEF FlatPlan
<1>3. plan = [old |-> p, new |-> p]
  BY DEF Init, Stable
<1> HIDE DEF p
<1>4. plan \in Phases /\ plan.old = p /\ plan.new = p /\ IsStable(plan)
  BY <1>2, <1>3 DEF Phases, IsStable
<1>5. ProperPlan(p)
  BY <1>1, <1>2 DEF ProperPlan
<1>6. /\ db \in DbType /\ db.revision = 1
      /\ \A n \in Nodes : /\ db.member[n] = IF n = Founder THEN "Voter" ELSE "Absent"
                          /\ db.node[n] = IF n = Founder THEN "Active" ELSE "Absent"
  BY DEF Init, DbType, MemberRow, NodeState
<1>7. MemberTypes
  <2>1. spoken \in BOOLEAN /\ pending \in BOOLEAN /\ running \in BOOLEAN
    BY Zenon DEF Init
  <2>2. tail \in Seq(Entries) /\ changes \in 0..MaxLeaderChanges
    BY MaxLeaderChangesAssumption DEF Init
  <2>. QED BY <1>4, <1>5, <1>6, <2>1, <2>2 DEF MemberTypes, DbType
<1>8. RowsAreBacked /\ VotersStay
  BY <1>1, <1>2, <1>4, <1>6 DEF RowsAreBacked, VotersStay, Rows
<1>9. ProjectionAgrees
  BY <1>1, <1>2, <1>4, <1>6 DEF ProjectionAgrees, Rows
<1>. QED BY <1>7, <1>8, <1>9 DEF MemberInv

\* Every step of the authority keeps plan and projection together.
LEMMA NextMembers == MemberInv /\ [Next]_vars => MemberInv'
<1> SUFFICES ASSUME MemberInv, [Next]_vars PROVE MemberInv'
  OBVIOUS
<1>0. /\ tail \in Seq(Entries) /\ Len(tail) \in Nat
      /\ spoken \in BOOLEAN /\ pending \in BOOLEAN /\ running \in BOOLEAN
      /\ changes \in 0..MaxLeaderChanges
  BY DEF MemberInv, MemberTypes
<1>1. CASE PlanMembershipTransition
  <2>1. PICK e \in Entries : tail' = Append(tail, e) /\ spoken' = TRUE
    BY <1>1, PlanningAppends
  <2>2. tail' \in Seq(Entries) /\ spoken' \in BOOLEAN
    BY <1>0, <2>1
  <2>. QED BY <1>0, <1>1, <2>2, LogKeeps DEF PlanMembershipTransition
<1>2. ASSUME NEW c \in Commands, AdmitNext(c) PROVE MemberInv'
  <2>1. tail' \in Seq(Entries) /\ spoken' \in BOOLEAN
    BY <1>0, <1>2 DEF AdmitNext, Append1, Entries
  <2>. QED BY <1>0, <1>2, <2>1, LogKeeps DEF AdmitNext
<1>3. CASE ConfirmReadTerm
  <2>1. [kind |-> "TermConfirmation"] \in Entries
    BY DEF Entries
  <2>2. tail' \in Seq(Entries) /\ spoken' \in BOOLEAN
    BY <1>0, <1>3, <2>1 DEF ConfirmReadTerm, Append1
  <2>. QED BY <1>0, <1>3, <2>2, LogKeeps DEF ConfirmReadTerm
<1>4. tail # <<>> => Tail(tail) \in Seq(Entries) /\ Head(tail) \in Entries
  BY <1>0
<1>5. CASE ApplyCommand
  <2>1. /\ Head(tail) \in Commands /\ CanApply(db, Head(tail)) /\ db' = Apply(db, Head(tail))
        /\ plan' = plan
        /\ tail' \in Seq(Entries) /\ spoken' \in BOOLEAN /\ pending' \in BOOLEAN
        /\ running' \in BOOLEAN /\ changes' \in 0..MaxLeaderChanges
    BY <1>0, <1>4, <1>5 DEF ApplyCommand
  <2>2. db' \in DbType /\ RowsAreBacked' /\ VotersStay' /\ ProjectionAgrees'
    BY <2>1, CommandKeeps
  <2>3. MemberTypes'
    BY <2>1, <2>2 DEF MemberInv, MemberTypes, DbType, ProperPlan
  <2>. QED BY <2>2, <2>3 DEF MemberInv
<1>6. CASE ApplyTermConfirmation
  BY <1>0, <1>4, <1>6, LogKeeps DEF ApplyTermConfirmation
<1>7. CASE ApplyMembershipTransition
  <2>1. /\ Accepted(Head(tail)) /\ plan' = Head(tail).phase
        /\ db' = IF IsStable(plan') THEN Synchronised(db, plan'.new) ELSE db
        /\ tail' \in Seq(Entries) /\ spoken' \in BOOLEAN /\ pending' \in BOOLEAN
        /\ running' \in BOOLEAN /\ changes' \in 0..MaxLeaderChanges
    BY <1>0, <1>4, <1>7 DEF ApplyMembershipTransition
  <2>2. /\ plan' \in Phases /\ ProperPlan(plan'.old) /\ ProperPlan(plan'.new)
        /\ db' \in DbType /\ RowsAreBacked' /\ VotersStay' /\ ProjectionAgrees'
    BY <2>1, TransitionKeeps
  <2>3. MemberTypes'
    BY <2>1, <2>2 DEF MemberTypes, DbType, ProperPlan
  <2>. QED BY <2>2, <2>3 DEF MemberInv
<1>8. CASE Stop
  BY <1>0, <1>8, LogKeeps DEF Stop
<1>9. CASE ChangeLeader
  <2>1. PICK kept \in 0..Len(tail) : tail' = SubSeq(tail, 1, kept)
    BY <1>9 DEF ChangeLeader
  <2>2. tail' \in Seq(Entries)
    <3>1. \A i \in 1..kept : tail[i] \in Entries
      BY <1>0
    <3>. QED BY <1>0, <2>1, <3>1
  <2>3. changes' \in 0..MaxLeaderChanges
    BY <1>0, <1>9, MaxLeaderChangesAssumption DEF ChangeLeader
  <2>. QED BY <1>0, <1>9, <2>2, <2>3, LogKeeps DEF ChangeLeader
<1>10. CASE UNCHANGED vars
  BY <1>0, <1>10, LogKeeps DEF vars
<1>. QED BY <1>1, <1>2, <1>3, <1>5, <1>6, <1>7, <1>8, <1>9, <1>10 DEF Next

\* MemberInv holds always.
LEMMA AlwaysMembers == Spec => []MemberInv
BY InitMembers, NextMembers, PTL DEF Spec
-----------------------------------------------------------------------------
(* The first leader.                                                        *)

\* In a stable phase with nothing due, the projection and the plan have the
\* same members.
LEMMA NothingDue ==
  ASSUME MemberInv, ~TransitionDue
  PROVE  /\ IsStable(plan) /\ RetiringMembers = {} /\ LearnerCandidates = {}
         /\ Rows(db, {"Voter", "Staged"}) = PlanMembers(plan.new)
<1>1. IsStable(plan) /\ RetiringMembers = {} /\ LearnerCandidates = {}
  BY DEF TransitionDue
<1>2. plan.old = plan.new
  BY <1>1 DEF IsStable
<1>3. PlanMembers(plan.new) \subseteq Nodes
  BY PlanFields DEF MemberInv, MemberTypes, ProperPlan
<1>4. PlanMembers(plan.new) \subseteq Rows(db, {"Voter", "Staged"})
  BY <1>1, <1>2, <1>3, MembersHaveRows DEF RetiringMembers, Rows, PlanMembers
<1>5. Rows(db, {"Voter", "Staged"}) \subseteq PlanMembers(plan.new)
  BY <1>1, <1>2, MembersHaveRows DEF LearnerCandidates, Rows, PlanMembers
<1>. QED BY <1>1, <1>4, <1>5

\* What is one member away is one joint transition away.
LEMMA RowsWhenDue ==
  ASSUME MemberInv, IsStable(plan)
  PROVE  /\ \A n \in Nodes : RetiringMembers = {n} /\ LearnerCandidates = {} =>
              Rows(db, {"Voter", "Staged"}) = PlanMembers(plan.new) \ {n}
         /\ \A n \in Nodes : RetiringMembers = {} /\ LearnerCandidates = {n} =>
              Rows(db, {"Voter", "Staged"}) = PlanMembers(plan.new) \cup {n}
<1>1. plan.old = plan.new
  BY DEF IsStable
<1>2. PlanMembers(plan.new) \subseteq Nodes
  BY PlanFields DEF MemberInv, MemberTypes, ProperPlan
<1>3. \A n \in PlanMembers(plan.new) : db.member[n] \in {"Voter", "Staged"} \/ n \in RetiringMembers
  BY <1>1, <1>2, MembersHaveRows DEF RetiringMembers, Rows, PlanMembers
<1>4. \A n \in Nodes : db.member[n] \in {"Voter", "Staged"} =>
                         n \in PlanMembers(plan.new) \/ n \in LearnerCandidates
  BY <1>1, MembersHaveRows DEF LearnerCandidates, Rows, PlanMembers
<1>5. \A n \in RetiringMembers : db.member[n] = "Retiring"
  BY DEF RetiringMembers, Rows
<1>6. \A n \in LearnerCandidates : db.member[n] = "Staged"
  BY DEF LearnerCandidates, Rows
<1>. QED BY <1>2, <1>3, <1>4, <1>5, <1>6 DEF Rows

\* A command leaves at most one member to add or to remove.
LEMMA CommandDue ==
  ASSUME MemberInv, ~TransitionDue, NEW c \in Commands, CanApply(db, c),
         db' = Apply(db, c), plan' = plan
  PROVE  OneIsDue'
<1> DEFINE n == c.node
<1>0. db \in DbType /\ n \in Nodes
  BY CommandKinds DEF MemberInv, MemberTypes, DbType
<1>1. /\ IsStable(plan) /\ RetiringMembers = {} /\ LearnerCandidates = {}
      /\ Rows(db, {"Voter", "Staged"}) = PlanMembers(plan.new)
  BY NothingDue
<1>2. \A k \in Nodes : /\ k \in PlanMembers(plan.new) <=> db.member[k] \in {"Voter", "Staged"}
  BY <1>1 DEF Rows
<1>3. /\ RetiringMembers' = {k \in Nodes : db'.member[k] = "Retiring" /\ k \in PlanMembers(plan.new)}
      /\ LearnerCandidates' = {k \in Nodes : db'.member[k] = "Staged" /\ k \notin PlanMembers(plan.new)}
  BY DEF RetiringMembers, LearnerCandidates, Rows, PlanMembers
<1>4. CASE c.kind = "Join"
  <2>1. db' = Joined(db, n, c.eligible) /\ db.node[n] = "Absent" /\ c.eligible \in BOOLEAN
    BY <1>4, CommandEffect, CommandKinds DEF CanJoin
  <2>2. \A k \in Nodes : db'.member[k] = IF k = n /\ c.eligible THEN "Staged" ELSE db.member[k]
    BY <1>0, <2>1, JoinedRows
  <2>3. RetiringMembers' = {} /\ LearnerCandidates' \subseteq {n}
    BY <1>2, <1>3, <2>2
  <2>. QED BY <1>0, <2>3 DEF OneIsDue
<1>5. CASE c.kind = "Activate"
  <2>1. db' = Activated(db, n)
    BY <1>5, CommandEffect
  <2>2. db'.member = db.member
    BY <1>0, <2>1, ActivatedRows
  <2>3. RetiringMembers' = {} /\ LearnerCandidates' = {}
    BY <1>2, <1>3, <2>2
  <2>. QED BY <2>3 DEF OneIsDue
<1>6. CASE c.kind = "Fence"
  <2>1. db' = Fenced(db, n)
    BY <1>6, CommandEffect
  <2>2. \A k \in Nodes :
          db'.member[k] = IF k = n /\ db.member[n] \in {"Voter", "Staged"} THEN "Retiring"
                          ELSE db.member[k]
    BY <1>0, <2>1, FencedRows
  <2>3. RetiringMembers' \subseteq {n} /\ LearnerCandidates' = {}
    BY <1>2, <1>3, <2>2
  <2>. QED BY <1>0, <2>3 DEF OneIsDue
<1>. QED BY <1>4, <1>5, <1>6, CommandKinds

\* In a joint phase that nothing disturbed, the projection accepts the plan.
LEMMA JointIsAccepted ==
  ASSUME MemberInv, ~IsStable(plan), Rows(db, {"Voter", "Staged"}) = PlanMembers(plan.new)
  PROVE  ProjectionAccepts(db, plan.new) /\ Accepted(Finalisation(plan))
<1>1. plan.new \in Plans /\ plan.new.epoch \in Nat /\ plan.old.epoch \in Nat
      /\ plan.new.voters \subseteq Nodes
  BY PlanFields DEF MemberInv, MemberTypes, ProperPlan
<1>2. db.revision = plan.new.epoch - 1
  BY <1>1 DEF MemberInv, ProjectionAgrees
<1>3. \A n \in plan.new.voters : db.node[n] \in {"Admitted", "Active"}
  BY <1>1 DEF MemberInv, RowsAreBacked, Rows, PlanMembers
<1>4. ProjectionAccepts(db, plan.new)
  BY <1>2, <1>3 DEF ProjectionAccepts
<1> DEFINE e == Finalisation(plan)
<1>5. e.kind = "FinaliseStable" /\ e.phase = Stable(plan.new) /\ e.phase.new = plan.new
  BY DEF Finalisation, Transition, Stable
<1>6. PlanMembers(plan.new) \subseteq Authoritative(db)
  BY DEF Rows, Authoritative
<1> HIDE DEF e
<1>7. ValidTransition(e)
  BY <1>5, <1>6 DEF ValidTransition
<1>8. Accepted(e)
  BY <1>4, <1>5, <1>7 DEF Accepted
<1>. QED BY <1>4, <1>8 DEF e

\* What the first leader plans it can activate.
LEMMA PlannedIsAccepted ==
  ASSUME MemberInv, IF IsStable(plan) THEN OneIsDue
                    ELSE Rows(db, {"Voter", "Staged"}) = PlanMembers(plan.new),
         NEW e,
         \/ ~IsStable(plan) /\ e = Finalisation(plan)
         \/ IsStable(plan) /\ RetiringMembers # {} /\ e = Removal(plan.new, Lowest(RetiringMembers))
         \/ IsStable(plan) /\ LearnerCandidates # {} /\ e = Admission(plan.new, Lowest(LearnerCandidates))
         \/ ~TransitionDue /\ \E n \in plan.new.learners : e = Promotion(plan.new, n)
  PROVE  Accepted(e) /\ (e.kind = "PromoteLearner" => ~TransitionDue)
<1> DEFINE v == plan.new.voters
           l == plan.new.learners
<1>1. CASE ~IsStable(plan) /\ e = Finalisation(plan)
  BY <1>1, JointIsAccepted DEF Finalisation, Transition
<1>2. plan.new \in Plans
  BY DEF MemberInv, MemberTypes, ProperPlan
<1>3. ASSUME NEW voters \in SUBSET Nodes, NEW learners \in SUBSET Nodes, ValidTransition(e),
             e.phase = JointWith(plan.new, voters, learners)
      PROVE  Accepted(e)
  <2>1. ~IsStable(JointWith(plan.new, voters, learners))
    BY <1>2, JointFields
  <2>. QED BY <1>3, <2>1 DEF Accepted
<1>4. CASE IsStable(plan) /\ RetiringMembers # {} /\ e = Removal(plan.new, Lowest(RetiringMembers))
  <2> DEFINE n == Lowest(RetiringMembers)
  <2>1. /\ e.kind = "RemoveMember" /\ e.node = n
        /\ e.phase = JointWith(plan.new, v \ {n}, l \ {n})
    BY <1>4 DEF Removal, Transition
  <2>2. n \in RetiringMembers /\ v # {n} /\ v \ {n} \in SUBSET Nodes /\ l \ {n} \in SUBSET Nodes
    BY <1>4, JointKinds
  <2>3. ValidTransition(e)
    BY <1>4, <2>1, <2>2 DEF ValidTransition
  <2>. QED BY <1>3, <2>1, <2>2, <2>3
<1>5. CASE IsStable(plan) /\ LearnerCandidates # {} /\ e = Admission(plan.new, Lowest(LearnerCandidates))
  <2> DEFINE n == Lowest(LearnerCandidates)
  <2>1. e.kind = "AdmitLearner" /\ e.phase = JointWith(plan.new, v, l \cup {n})
    BY <1>5 DEF Admission, Transition
  <2>2. v \in SUBSET Nodes /\ l \cup {n} \in SUBSET Nodes
    BY <1>5, JointKinds
  <2>3. ValidTransition(e)
    BY <1>5, <2>1 DEF ValidTransition
  <2>. QED BY <1>3, <2>1, <2>2, <2>3
<1>6. ASSUME ~TransitionDue, NEW n \in l, e = Promotion(plan.new, n)
      PROVE  Accepted(e)
  <2>0. IsStable(plan)
    BY <1>6 DEF TransitionDue
  <2>1. /\ e.kind = "PromoteLearner" /\ e.node = n
        /\ e.phase = JointWith(plan.new, v \cup {n}, l \ {n})
    BY <1>6 DEF Promotion, Transition
  <2>2. v \cup {n} \in SUBSET Nodes /\ l \ {n} \in SUBSET Nodes
    BY <1>6, <2>0, JointKinds
  <2>3. n \in Authoritative(db)
    BY <1>6, <2>0, MembersHaveRows DEF PlanMembers, IsStable
  <2>4. ValidTransition(e)
    BY <1>6, <2>0, <2>1, <2>3 DEF ValidTransition
  <2>. QED BY <1>3, <2>1, <2>2, <2>4
<1>. QED BY <1>1, <1>4, <1>5, <1>6 DEF Removal, Admission, Transition

\* The members of a joint phase's new plan.
LEMMA JointMembers ==
  ASSUME MemberInv, NEW voters \in SUBSET Nodes, NEW learners \in SUBSET Nodes,
         NEW phase, phase = JointWith(plan.new, voters, learners)
  PROVE  ~IsStable(phase) /\ PlanMembers(phase.new) = voters \cup learners
<1>1. plan.new \in Plans
  BY DEF MemberInv, MemberTypes, ProperPlan
<1>2. ~IsStable(phase)
  BY <1>1, JointFields
<1>3. phase.new.voters = voters /\ phase.new.learners = learners
  BY <1>1, JointFields
<1>. QED BY <1>2, <1>3 DEF PlanMembers

\* A transition that the first leader planned leads to a joint phase whose
\* members are those of the projection, and its end to a plan with nothing due.
LEMMA TransitionDone ==
  ASSUME MemberInv, IF IsStable(plan) THEN OneIsDue
                    ELSE Rows(db, {"Voter", "Staged"}) = PlanMembers(plan.new),
         NEW e, Accepted(e), e.kind = "PromoteLearner" => ~TransitionDue,
         plan' = e.phase,
         db' = IF IsStable(plan') THEN Synchronised(db, plan'.new) ELSE db
  PROVE  IF IsStable(plan') THEN OneIsDue'
         ELSE Rows(db', {"Voter", "Staged"}) = PlanMembers(plan'.new)
<1> DEFINE v == plan.new.voters
           l == plan.new.learners
<1>1. plan.new \in Plans /\ v \subseteq Nodes /\ l \subseteq Nodes /\ v \cap l = {} /\ db \in DbType
  BY PlanFields DEF MemberInv, MemberTypes, ProperPlan, DbType
<1>2. ValidTransition(e)
  BY DEF Accepted
<1>3. ASSUME NEW voters \in SUBSET Nodes, NEW learners \in SUBSET Nodes,
             e.phase = JointWith(plan.new, voters, learners),
             Rows(db, {"Voter", "Staged"}) = voters \cup learners
      PROVE  ~IsStable(plan') /\ Rows(db', {"Voter", "Staged"}) = PlanMembers(plan'.new)
  <2>1. plan' = JointWith(plan.new, voters, learners)
    BY <1>3
  <2> DEFINE phase == JointWith(plan.new, voters, learners)
  <2>0. phase = JointWith(plan.new, voters, learners)
    OBVIOUS
  <2>4. plan' = phase
    BY <2>1
  <2> HIDE DEF phase
  <2>2. ~IsStable(phase) /\ PlanMembers(phase.new) = voters \cup learners
    BY <2>0, JointMembers
  <2>3. ~IsStable(plan') /\ PlanMembers(plan'.new) = voters \cup learners
    BY <2>2, <2>4
  <2>. QED BY <1>3, <2>3
<1>4. CASE ~IsStable(plan) /\ e.phase = Stable(plan.new)
  <2>1. IsStable(plan') /\ plan'.new = plan.new
    BY <1>4 DEF Stable, IsStable
  <2>2. \A k \in Nodes :
          db'.member[k] = IF k \in v THEN "Voter" ELSE IF k \in l THEN "Staged" ELSE db.member[k]
    BY <1>1, <2>1, SynchronisedRows
  <2>3. \A k \in Nodes : k \in v \cup l <=> db.member[k] \in {"Voter", "Staged"}
    BY <1>4 DEF Rows, PlanMembers
  <2>4. RetiringMembers' = {} /\ LearnerCandidates' = {}
    BY <2>1, <2>2, <2>3 DEF RetiringMembers, LearnerCandidates, Rows, PlanMembers
  <2>. QED BY <2>1, <2>4 DEF OneIsDue
<1>5. CASE /\ IsStable(plan) /\ LearnerCandidates # {}
           /\ e.phase = JointWith(plan.new, v, l \cup {Lowest(LearnerCandidates)})
  <2> DEFINE n == Lowest(LearnerCandidates)
  <2>1. n \in Nodes /\ LearnerCandidates = {n} /\ RetiringMembers = {}
    BY <1>5, JointKinds DEF OneIsDue
  <2> HIDE DEF n
  <2>2. Rows(db, {"Voter", "Staged"}) = v \cup (l \cup {n})
    BY <1>5, <2>1, RowsWhenDue DEF PlanMembers
  <2>3. v \in SUBSET Nodes /\ l \cup {n} \in SUBSET Nodes
    BY <1>1, <2>1
  <2>. QED BY <1>3, <1>5, <2>2, <2>3 DEF n
<1>6. CASE /\ IsStable(plan) /\ e.kind = "PromoteLearner" /\ e.node \in l
           /\ e.phase = JointWith(plan.new, v \cup {e.node}, l \ {e.node})
  <2>1. Rows(db, {"Voter", "Staged"}) = v \cup l
    BY <1>6, NothingDue DEF PlanMembers
  <2>2. v \cup l = (v \cup {e.node}) \cup (l \ {e.node})
    BY <1>6
  <2>3. v \cup {e.node} \in SUBSET Nodes /\ l \ {e.node} \in SUBSET Nodes
    BY <1>1, <1>6
  <2>. QED BY <1>3, <1>6, <2>1, <2>2, <2>3
<1>7. CASE /\ IsStable(plan) /\ e.node \in RetiringMembers
           /\ e.phase = JointWith(plan.new, v \ {e.node}, l \ {e.node})
  <2>1. e.node \in Nodes /\ RetiringMembers = {e.node} /\ LearnerCandidates = {}
    BY <1>7, JointKinds DEF OneIsDue
  <2>2. Rows(db, {"Voter", "Staged"}) = (v \ {e.node}) \cup (l \ {e.node})
    BY <1>7, <2>1, RowsWhenDue DEF PlanMembers
  <2>3. v \ {e.node} \in SUBSET Nodes /\ l \ {e.node} \in SUBSET Nodes
    BY <1>1
  <2>. QED BY <1>3, <1>7, <2>2, <2>3
<1>. QED BY <1>2, <1>4, <1>5, <1>6, <1>7, AcceptedKinds

\* A command that follows no other is preflighted on the rows themselves.
LEMMA PreflightFirst ==
  ASSUME NEW c, tail = <<>>, Preflight(c)
  PROVE  CanApply(db, c)
<1>1. Len(tail) = 0
  OBVIOUS
<1> DEFINE after == CHOOSE after : after = [i \in 0..Len(tail) |->
                      IF i = 0 THEN db ELSE Apply(after[i - 1], tail[i])]
<1>2. CanApply(after[Len(tail)], c)
  BY DEF Preflight
<1>3. after = [i \in 0..0 |-> IF i = 0 THEN db ELSE Apply(after[i - 1], tail[i])]
  <2>1. \E f : f = [i \in 0..0 |-> IF i = 0 THEN db ELSE Apply(f[i - 1], tail[i])]
    <3> DEFINE g == [i \in 0..0 |-> db]
    <3>1. g = [i \in 0..0 |-> IF i = 0 THEN db ELSE Apply(g[i - 1], tail[i])]
      OBVIOUS
    <3>. QED BY <3>1
  <2>. QED BY <1>1, <2>1
<1>4. after[0] = db
  BY <1>3
<1>. QED BY <1>1, <1>2, <1>4

\* A log of one entry.
LEMMA OneEntry ==
  ASSUME NEW e, NEW s, s = <<e>>
  PROVE  s # <<>> /\ Head(s) = e /\ Tail(s) = <<>> /\ Len(s) = 1 /\ s[1] = e
OBVIOUS

\* A leader that nothing is known to have refused has no error.
LEMMA NoError ==
  ASSUME MemberInv, FirstInv, changes = 0
  PROVE  ~PlanningError /\ ~ApplicationError
<1>1. InFlight
  BY DEF FirstInv
<1>2. ~PlanningError
  <2>1. SUFFICES ASSUME PlanningError PROVE FALSE
    OBVIOUS
  <2>2. IsStable(plan) /\ plan.old = plan.new
    BY <2>1 DEF PlanningError, IsStable
  <2>3. Rows(db, {"Voter"}) # {}
    BY DEF MemberInv, VotersStay
  <2>4. PlanMembers(plan.new) \subseteq Authoritative(db)
    BY <2>2, MembersHaveRows
  <2>5. RetiringMembers # {} => plan.new.voters # {Lowest(RetiringMembers)}
    BY <2>2, JointKinds
  <2>. QED BY <2>1, <2>3, <2>4, <2>5 DEF PlanningError
<1>3. ~ApplicationError
  <2>1. SUFFICES ASSUME ApplicationError PROVE FALSE
    OBVIOUS
  <2>2. tail # <<>>
    BY <2>1 DEF ApplicationError
  <2>3. ASSUME NEW c \in Commands, tail = <<c>>, CanApply(db, c) PROVE FALSE
    <3>1. Head(tail) = c /\ c.kind \notin MembershipKinds
      BY <2>3, OneEntry, CommandKinds
    <3>. QED BY <2>1, <2>3, <3>1 DEF ApplicationError
  <2>4. ASSUME NEW e \in Entries, tail = <<e>>, e.kind \in MembershipKinds, Accepted(e) PROVE FALSE
    <3>1. Head(tail) = e /\ e \notin Commands
      BY <2>4, OneEntry, CommandKinds
    <3>. QED BY <2>1, <2>4, <3>1 DEF ApplicationError
  <2>. QED BY <1>1, <2>2, <2>3, <2>4 DEF InFlight
<1>. QED BY <1>2, <1>3

\* Each step of the first leader keeps one thing in flight.
LEMMA NextFirst == MemberInv /\ FirstInv /\ [Next]_vars => FirstInv'
<1> SUFFICES ASSUME MemberInv, FirstInv, [Next]_vars, changes' = 0
             PROVE  /\ running' /\ spoken'
                    /\ InFlight'
                    /\ IF IsStable(plan') THEN OneIsDue'
                       ELSE Rows(db', {"Voter", "Staged"}) = PlanMembers(plan'.new)
  BY DEF FirstInv
<1>0. changes \in Nat /\ pending \in BOOLEAN
  BY MaxLeaderChangesAssumption DEF MemberInv, MemberTypes
<1>1. ~ChangeLeader
  BY <1>0 DEF ChangeLeader
<1>2. changes = 0
  BY <1>1 DEF Next, vars, PlanMembershipTransition, AdmitNext, ConfirmReadTerm, ApplyCommand,
              ApplyTermConfirmation, ApplyMembershipTransition, Stop
<1>3. /\ running /\ spoken /\ InFlight
      /\ IF IsStable(plan) THEN OneIsDue
         ELSE Rows(db, {"Voter", "Staged"}) = PlanMembers(plan.new)
  BY <1>2 DEF FirstInv
<1>4. ASSUME UNCHANGED <<plan, db>>
      PROVE  IF IsStable(plan') THEN OneIsDue'
             ELSE Rows(db', {"Voter", "Staged"}) = PlanMembers(plan'.new)
  BY <1>3, <1>4 DEF OneIsDue, RetiringMembers, LearnerCandidates, Rows, PlanMembers, IsStable
<1>5. ASSUME UNCHANGED <<plan, db>>
      PROVE  /\ TransitionDue' = TransitionDue
             /\ \A e : Accepted(e)' = Accepted(e)
  BY <1>5 DEF TransitionDue, Accepted, ValidTransition, ProjectionAccepts, Authoritative,
              RetiringMembers, LearnerCandidates, Rows, PlanMembers, IsStable
<1>6. CASE PlanMembershipTransition
  <2>1. PICK e \in Entries :
           /\ tail' = Append(tail, e) /\ spoken' = TRUE
           /\ e.kind \in MembershipKinds
           /\ \/ ~IsStable(plan) /\ e = Finalisation(plan)
              \/ IsStable(plan) /\ RetiringMembers # {} /\ e = Removal(plan.new, Lowest(RetiringMembers))
              \/ IsStable(plan) /\ LearnerCandidates # {} /\ e = Admission(plan.new, Lowest(LearnerCandidates))
              \/ ~TransitionDue /\ \E n \in plan.new.learners : e = Promotion(plan.new, n)
    BY <1>6, PlanningAppends
  <2>2. Accepted(e) /\ (e.kind = "PromoteLearner" => ~TransitionDue)
    BY <1>3, <2>1, PlannedIsAccepted
  <2>3. tail = <<>> /\ ~pending /\ UNCHANGED <<plan, db, pending, running>>
    BY <1>6 DEF PlanMembershipTransition
  <2>4. tail' = <<e>>
    BY <2>1, <2>3
  <2>5. InFlight'
    BY <1>5, <2>1, <2>2, <2>3, <2>4 DEF InFlight
  <2>. QED BY <1>3, <1>4, <2>1, <2>3, <2>5
<1>7. ASSUME NEW c \in Commands, AdmitNext(c)
      PROVE  /\ running' /\ spoken'
             /\ InFlight'
             /\ IF IsStable(plan') THEN OneIsDue'
                ELSE Rows(db', {"Voter", "Staged"}) = PlanMembers(plan'.new)
  <2>1. /\ ~pending /\ pending' = TRUE /\ tail' = Append(tail, c) /\ spoken' = TRUE
        /\ UNCHANGED <<plan, db, running>> /\ Preflight(c)
        /\ tail = <<>> => ~TransitionDue
    BY <1>7 DEF AdmitNext, Append1
  <2>2. tail = <<>>
    <3>1. ASSUME NEW e \in Entries, tail = <<e>>, e.kind \in MembershipKinds PROVE FALSE
      <4>1. Len(tail) = 1 /\ tail[1] = e /\ e \notin Commands
        BY <3>1, OneEntry, CommandKinds
      <4>. QED BY <2>1, <4>1 DEF Preflight
    <3>. QED BY <1>3, <2>1, <3>1 DEF InFlight
  <2>3. CanApply(db, c)
    BY <2>1, <2>2, PreflightFirst
  <2>4. tail' = <<c>> /\ CanApply(db', c) /\ ~TransitionDue'
    BY <1>5, <2>1, <2>2, <2>3
  <2>5. InFlight'
    BY <2>1, <2>4 DEF InFlight
  <2>. QED BY <1>3, <1>4, <2>1, <2>5
<1>8. CASE ConfirmReadTerm
  BY <1>3, <1>8 DEF ConfirmReadTerm
<1>9. CASE ApplyTermConfirmation
  <2>1. tail # <<>> /\ Head(tail).kind = "TermConfirmation"
    BY <1>9 DEF ApplyTermConfirmation
  <2>2. ASSUME NEW c \in Commands, tail = <<c>> PROVE FALSE
    BY <2>1, <2>2, OneEntry, CommandKinds
  <2>3. ASSUME NEW e \in Entries, tail = <<e>>, e.kind \in MembershipKinds PROVE FALSE
    <3>1. e.kind = "TermConfirmation"
      BY <2>1, <2>3, OneEntry
    <3>. QED BY <2>3, <3>1 DEF MembershipKinds
  <2>. QED BY <1>3, <2>1, <2>2, <2>3 DEF InFlight
<1>10. CASE ApplyCommand
  <2>1. /\ tail # <<>> /\ Head(tail) \in Commands /\ db' = Apply(db, Head(tail))
        /\ tail' = Tail(tail) /\ pending' = (pending /\ Len(tail) > 1)
        /\ UNCHANGED <<plan, spoken, running>>
    BY <1>10 DEF ApplyCommand
  <2>2. PICK c \in Commands : tail = <<c>> /\ CanApply(db, c) /\ ~TransitionDue
    <3>1. ASSUME NEW e \in Entries, tail = <<e>>, e.kind \in MembershipKinds PROVE FALSE
      BY <2>1, <3>1, OneEntry, CommandKinds
    <3>. QED BY <1>3, <2>1, <3>1 DEF InFlight
  <2>3. Head(tail) = c /\ Tail(tail) = <<>> /\ Len(tail) = 1
    BY <2>2, OneEntry
  <2>4. OneIsDue'
    BY <2>1, <2>2, <2>3, CommandDue
  <2>5. IsStable(plan')
    BY <2>1, <2>2, NothingDue
  <2>6. tail' = <<>> /\ ~(Len(tail) > 1)
    BY <2>1, <2>3
  <2>7. ~pending'
    BY <2>1, <2>6, Zenon
  <2>. QED BY <1>3, <2>1, <2>4, <2>5, <2>6, <2>7 DEF InFlight
<1>11. CASE ApplyMembershipTransition
  <2>1. /\ tail # <<>> /\ Head(tail).kind \in MembershipKinds /\ Accepted(Head(tail))
        /\ plan' = Head(tail).phase
        /\ db' = IF IsStable(plan') THEN Synchronised(db, plan'.new) ELSE db
        /\ tail' = Tail(tail) /\ UNCHANGED <<spoken, pending, running>>
    BY <1>11 DEF ApplyMembershipTransition
  <2>2. PICK e \in Entries : /\ tail = <<e>> /\ ~pending
                             /\ e.kind = "PromoteLearner" => ~TransitionDue
    <3>1. ASSUME NEW c \in Commands, tail = <<c>> PROVE FALSE
      BY <2>1, <3>1, OneEntry, CommandKinds
    <3>. QED BY <1>3, <2>1, <3>1 DEF InFlight
  <2>3. Head(tail) = e /\ Tail(tail) = <<>>
    BY <2>2, OneEntry
  <2>4. IF IsStable(plan') THEN OneIsDue'
        ELSE Rows(db', {"Voter", "Staged"}) = PlanMembers(plan'.new)
    BY <1>3, <2>1, <2>2, <2>3, TransitionDone
  <2>5. tail' = <<>> /\ ~pending'
    BY <2>1, <2>2, <2>3
  <2>. QED BY <1>3, <2>1, <2>4, <2>5 DEF InFlight
<1>12. ~Stop
  BY <1>2, NoError DEF Stop
<1>13. CASE UNCHANGED vars
  <2>1. UNCHANGED <<plan, db, tail, spoken, pending, running>>
    BY <1>13 DEF vars
  <2>2. InFlight'
    BY <1>3, <1>5, <2>1 DEF InFlight
  <2>. QED BY <1>3, <1>4, <2>1, <2>2
<1>. QED BY <1>1, <1>6, <1>7, <1>8, <1>9, <1>10, <1>11, <1>12, <1>13 DEF Next
-----------------------------------------------------------------------------
(* The theorems about plan and projection.                                  *)

\* Rows, node states, log entries and flags are what the schema allows, and
\* every plan in force is the flat plan of some voters of this mesh.
THEOREM MembershipTypes == Spec => []TypeOK
<1>1. MemberInv => TypeOK
  <2> SUFFICES ASSUME MemberInv PROVE TypeOK
    OBVIOUS
  <2>1. ASSUME NEW p, ProperPlan(p)
        PROVE  /\ p.voters \subseteq Nodes /\ p.voters # {} /\ p.learners \subseteq Nodes \ p.voters
               /\ p = FlatPlan(p.epoch, p.voters, p.learners)
    <3>1. p \in Plans
      BY <2>1 DEF ProperPlan
    <3>. QED BY <2>1, <3>1, PlanFields DEF ProperPlan
  <2>2. \A p \in {plan.old, plan.new} :
          /\ p.voters \subseteq Nodes /\ p.voters # {} /\ p.learners \subseteq Nodes \ p.voters
          /\ p = FlatPlan(p.epoch, p.voters, p.learners)
    BY <2>1 DEF MemberInv, MemberTypes
  <2>3. ASSUME NEW i \in 1..Len(tail)
        PROVE  tail[i] \in Commands \/ tail[i].kind \in MembershipKinds \cup {"TermConfirmation"}
    <3>1. tail[i] \in Entries
      BY DEF MemberInv, MemberTypes
    <3>. QED BY <3>1 DEF Entries
  <2>. QED BY <2>2, <2>3 DEF MemberInv, MemberTypes, TypeOK
<1>. QED BY <1>1, AlwaysMembers, PTL

\* Stable plans and the projection agree, through any interleaving of joins,
\* drains, plans and leaders (restore_member_incarnations,
\* synchronise_membership_projection).
THEOREM ProjectionIsKept == Spec => []ProjectionAgrees
BY AlwaysMembers, PTL DEF MemberInv

\* In every phase a voter that nobody has fenced may lead (fence_node_membership,
\* plan_flat_member_removal).
THEOREM SurvivorExists == Spec => []SurvivorLeads
<1>1. MemberInv => SurvivorLeads
  <2> SUFFICES ASSUME MemberInv PROVE SurvivorLeads
    OBVIOUS
  <2>1. PICK n \in Nodes : db.member[n] = "Voter" /\ n \in plan.old.voters /\ n \in plan.new.voters
    BY MembersHaveRows
  <2>2. plan.old.eligible = plan.old.voters /\ plan.new.eligible = plan.new.voters
    BY PlanFields DEF MemberInv, MemberTypes, ProperPlan
  <2>. QED BY <2>1, <2>2 DEF SurvivorLeads, EligibleLeaders
<1>. QED BY <1>1, AlwaysMembers, PTL

\* The first leader never ends the authority: what it admits and plans is
\* accepted when it is applied (admit_next, plan_membership_transition).
THEOREM FirstLeaderStays == Spec => []FirstLeaderRuns
<1>1. Init => FirstInv
  <2> SUFFICES ASSUME Init PROVE FirstInv
    OBVIOUS
  <2>1. plan = [old |-> FlatPlan(1, {Founder}, {}), new |-> FlatPlan(1, {Founder}, {})]
    BY DEF Init, Stable
  <2>2. IsStable(plan) /\ PlanMembers(plan.new) = {Founder}
    BY <2>1 DEF IsStable, FlatPlan, PlanMembers
  <2>3. \A n \in Nodes : db.member[n] = IF n = Founder THEN "Voter" ELSE "Absent"
    BY DEF Init
  <2>4. RetiringMembers = {} /\ LearnerCandidates = {}
    BY <2>3 DEF RetiringMembers, LearnerCandidates, Rows
  <2>5. running /\ spoken /\ tail = <<>> /\ ~pending
    BY DEF Init
  <2>. QED BY <2>2, <2>4, <2>5 DEF FirstInv, InFlight, OneIsDue
<1>2. FirstInv => FirstLeaderRuns
  BY DEF FirstInv, FirstLeaderRuns
<1>. QED BY <1>1, <1>2, AlwaysMembers, NextFirst, PTL DEF Spec
=============================================================================
