----------------------------- MODULE QuorumPlan -----------------------------
(***************************************************************************)
(* The quorum families a consensus group votes with: the flat default plan *)
(* for a set of voters, the reduction of a family to its inclusion-minimal *)
(* members, the intersections a plan must have before it is compiled, and  *)
(* the joint phase between two plans.                                      *)
(*                                                                         *)
(* Source: crates/meshspan-consensus/src/quorum/ and membership.rs.  A     *)
(* VoterSet bit mask is a set of voters; a FamilyProof is the set of its   *)
(* minimal quorums.  A plan is a record of its epoch, its members and its  *)
(* three families; the proof digest, which binds exactly these, is the     *)
(* record itself.                                                          *)
(***************************************************************************)
EXTENDS Naturals, FiniteSets

\* VoterSet::intersects, lifted to two families.
IntersectsAll(left, right) == \A first \in left, second \in right : first \cap second # {}

\* The inclusion-minimal members of a family.
ReduceMinimal(sets) == {s \in sets : ~\E other \in sets : other # s /\ other \subseteq s}

\* Every set of voters that some quorum of the family is contained in.
FamilySatisfies(family, acknowledgements) == \E required \in family : required \subseteq acknowledgements

\* Removing a blocking set leaves no quorum of the family.
MinimalCutSets(family, voters) ==
  ReduceMinimal({removed \in SUBSET voters \ {{}} : ~FamilySatisfies(family, voters \ removed)})

\* at_least(k) over single voters: its satisfying sets and their reduction.
AtLeast(k, voters) == {s \in SUBSET voters : Cardinality(s) >= k}

FlatElectionThreshold(count) == count \div 2 + 1

FlatWriteThreshold(count) == count - FlatElectionThreshold(count) + 1

FlatElection(voters) == ReduceMinimal(AtLeast(FlatElectionThreshold(Cardinality(voters)), voters))

FlatCommit(voters) == ReduceMinimal(AtLeast(FlatWriteThreshold(Cardinality(voters)), voters))

FlatRead(voters) == FlatCommit(voters)

\* prove_intersections: what compile_plan demands of one plan's families.
ProveIntersections(election, commit, read) ==
  /\ IntersectsAll(election, election)
  /\ IntersectsAll(election, commit)
  /\ IntersectsAll(election, read)

\* A compiled flat plan of one membership epoch.
FlatPlan(epoch, voters, learners) ==
  [ epoch    |-> epoch,
    voters   |-> voters,
    learners |-> learners,
    eligible |-> voters,
    election |-> FlatElection(voters),
    commit   |-> FlatCommit(voters),
    read     |-> FlatRead(voters) ]

-----------------------------------------------------------------------------
(* Joint membership: both plans must be satisfied, and the transition is    *)
(* admitted only with the cross intersections below.                        *)

ComposeJoint(old, new) == ReduceMinimal({o \cup n : o \in old, n \in new})

ProveJointTransition(old, new) ==
  LET joint_election == ComposeJoint(old.election, new.election)
      joint_commit   == ComposeJoint(old.commit, new.commit)
      joint_read     == ComposeJoint(old.read, new.read)
  IN  /\ new.epoch > old.epoch
      /\ IntersectsAll(old.election, joint_commit)
      /\ IntersectsAll(joint_election, old.commit)
      /\ IntersectsAll(joint_election, joint_election)
      /\ IntersectsAll(joint_election, joint_commit)
      /\ IntersectsAll(joint_read, joint_election)
      /\ IntersectsAll(joint_election, new.commit)
      /\ IntersectsAll(new.election, joint_commit)
=============================================================================
