--------------------------- MODULE QuorumPredicate ---------------------------
(***************************************************************************)
(* The quorum expression language and its compiler: an administrator's     *)
(* election, commit and read predicates are validated, expanded over every *)
(* set of voters, reduced to minimal quorums and cut sets, and refused     *)
(* unless the required families intersect.                                 *)
(*                                                                         *)
(* Source: crates/meshspan-consensus/src/quorum/predicate.rs, compile.rs.  *)
(* Which error refuses a plan is not told apart.                           *)
(***************************************************************************)
EXTENDS QuorumPlan, Sequences, FiniteSetsExt

CONSTANTS
  Voters,     \* the voters of the plan
  Drafts,     \* plan specifications offered: records of three predicates
  MaxDepth,   \* MAXIMUM_PREDICATE_DEPTH
  MaxNodes    \* MAXIMUM_PREDICATE_NODES

ASSUME VotersAssumption == IsFiniteSet(Voters) /\ Voters # {}
ASSUME BoundsAssumption == MaxDepth \in Nat \ {0} /\ MaxNodes \in Nat \ {0}

VARIABLES
  draft,      \* the specification being compiled
  status,     \* "Drafted", "Refused" or "Compiled"
  outcome     \* the compiled families, the empty function without them

vars == <<draft, status, outcome>>

Families == {"election", "commit", "read"}

\* QuorumPredicate.
Voter(v) == [kind |-> "Voter", voter |-> v]

AtLeastOf(k, children) == [kind |-> "AtLeast", threshold |-> k, children |-> children]

WeightedAtLeast(k, weights) == [kind |-> "WeightedAtLeast", threshold |-> k, voters |-> weights]

All(children) == [kind |-> "All", children |-> children]

WeightOf(weights, members) ==
  FoldSet(LAMBDA i, total : total + weights[i].weight, 0,
          {i \in DOMAIN weights : weights[i].voter \in members})
-----------------------------------------------------------------------------
\* QuorumPredicate::evaluate.
RECURSIVE Evaluate(_, _)
Evaluate(p, acknowledged) ==
  CASE p.kind = "Voter" -> p.voter \in acknowledged
    [] p.kind = "AtLeast" ->
         Cardinality({i \in DOMAIN p.children : Evaluate(p.children[i], acknowledged)}) >= p.threshold
    [] p.kind = "WeightedAtLeast" -> WeightOf(p.voters, acknowledged) >= p.threshold
    [] p.kind = "All" -> \A i \in DOMAIN p.children : Evaluate(p.children[i], acknowledged)

\* The voters that validate collects from a predicate it accepts.
RECURSIVE References(_)
References(p) ==
  CASE p.kind = "Voter" -> {p.voter}
    [] p.kind = "WeightedAtLeast" -> {p.voters[i].voter : i \in DOMAIN p.voters}
    [] OTHER -> UNION {References(p.children[i]) : i \in DOMAIN p.children}

RECURSIVE NodeCount(_)
NodeCount(p) ==
  IF p.kind \in {"Voter", "WeightedAtLeast"} THEN 1
  ELSE FoldSet(LAMBDA i, total : total + NodeCount(p.children[i]), 1, DOMAIN p.children)

\* Mutant: children may name the same voters.
DisjointChildren_Shared(children) == children # <<>>

\* validate_disjoint_children, apart from the children themselves.
DisjointChildren(children) ==
  /\ children # <<>>
  /\ \A i, j \in DOMAIN children :
       i # j => References(children[i]) \cap References(children[j]) = {}

ValidWeighted(p) ==
  /\ p.threshold > 0 /\ p.voters # <<>>
  /\ \A i \in DOMAIN p.voters : p.voters[i].weight > 0 /\ p.voters[i].voter \in Voters
  /\ \A i, j \in DOMAIN p.voters : i # j => p.voters[i].voter # p.voters[j].voter
  /\ p.threshold <= WeightOf(p.voters, Voters)

\* Mutant: a threshold of nothing is let through.
ValidThreshold_Zero(k, children) == k <= Len(children)

ValidThreshold(k, children) == k > 0 /\ k <= Len(children)

RECURSIVE ValidNode(_, _)
ValidNode(p, depth) ==
  /\ depth <= MaxDepth
  /\ CASE p.kind = "Voter" -> p.voter \in Voters
       [] p.kind = "WeightedAtLeast" -> ValidWeighted(p)
       [] OTHER -> /\ p.kind = "AtLeast" => ValidThreshold(p.threshold, p.children)
                   /\ \A i \in DOMAIN p.children : ValidNode(p.children[i], depth + 1)
                   /\ DisjointChildren(p.children)

\* validate_node refuses the node that exceeds the count, wherever it is.
Validate(p) == NodeCount(p) <= MaxNodes /\ ValidNode(p, 1)
-----------------------------------------------------------------------------
(* compile_plan.                                                            *)

Satisfying(p) == {s \in SUBSET Voters \ {{}} : Evaluate(p, s)}

\* Mutant: losing every voter at once is not considered.
CompileFamily_PartialLoss(p) ==
  LET quorums == ReduceMinimal(Satisfying(p))
  IN  [quorums |-> quorums, cuts |-> MinimalCutSets(quorums, Voters) \ {Voters}]

\* compile_family.
CompileFamily(p) ==
  LET quorums == ReduceMinimal(Satisfying(p))
  IN  [quorums |-> quorums, cuts |-> MinimalCutSets(quorums, Voters)]

\* Mutant: elections are not compared with each other.
Intersecting_CommitsOnly(families) ==
  /\ IntersectsAll(families["election"].quorums, families["commit"].quorums)
  /\ IntersectsAll(families["election"].quorums, families["read"].quorums)

Intersecting(families) ==
  ProveIntersections(families["election"].quorums, families["commit"].quorums, families["read"].quorums)

Init == draft \in Drafts /\ status = "Drafted" /\ outcome = <<>>

\* An invalid predicate, a family without a quorum or a missing intersection
\* refuses the whole plan.
CompilePlan ==
  /\ status = "Drafted"
  /\ LET families == [f \in Families |-> CompileFamily(draft[f])]
         accepted == /\ \A f \in Families : Validate(draft[f])
                     /\ \A f \in Families : families[f].quorums # {}
                     /\ Intersecting(families)
     IN  \/ accepted /\ status' = "Compiled" /\ outcome' = families
         \/ ~accepted /\ status' = "Refused" /\ UNCHANGED outcome
  /\ UNCHANGED draft

Next == CompilePlan

Spec == Init /\ [][Next]_vars
-----------------------------------------------------------------------------
(* What a compiled plan promises.                                           *)

Compiled == status = "Compiled"

\* The core decides by minimal quorums what the administrator wrote as a
\* predicate: FamilyProof::satisfies and QuorumPredicate::evaluate agree on
\* every set of acknowledgements, the empty one included.
CompiledDecides ==
  Compiled => \A f \in Families, s \in SUBSET Voters :
                FamilySatisfies(outcome[f].quorums, s) <=> Evaluate(draft[f], s)

\* No two sets of voters that each elect by the predicate are disjoint, and
\* none misses one that commits or reads, although compile_plan compared
\* minimal quorums only.
CompiledPlansAreSafe ==
  Compiled => \A s, t \in SUBSET Voters :
                Evaluate(draft["election"], s) /\ (\E f \in Families : Evaluate(draft[f], t))
                  => s \cap t # {}

\* How many voters it takes at least to satisfy a predicate when every child
\* has to be paid for by voters of its own.
RECURSIVE Price(_)
Price(p) ==
  CASE p.kind = "Voter" -> 1
    [] p.kind = "WeightedAtLeast" ->
         Min({Cardinality(s) : s \in {s \in SUBSET Voters : WeightOf(p.voters, s) >= p.threshold}})
    [] p.kind = "AtLeast" ->
         Min({FoldSet(LAMBDA i, total : total + Price(p.children[i]), 0, chosen) :
                chosen \in {c \in SUBSET DOMAIN p.children : Cardinality(c) = p.threshold}})
    [] p.kind = "All" ->
         FoldSet(LAMBDA i, total : total + Price(p.children[i]), 0, DOMAIN p.children)

\* No voter is counted twice: the smallest quorum of a nested predicate has as
\* many voters as its branches ask for together (validate_disjoint_children).
NoDoubleCounting ==
  Compiled => \A f \in Families :
                Min({Cardinality(q) : q \in outcome[f].quorums}) = Price(draft[f])

\* What minimal_cut_sets reports is the dual of the quorums: a set of voters
\* hits every cut set exactly if it contains a quorum, so no loss that blocks
\* the family goes unreported.
CutSetsAreDual ==
  Compiled => \A f \in Families, s \in SUBSET Voters :
                FamilySatisfies(outcome[f].quorums, s)
                  <=> \A cut \in outcome[f].cuts : s \cap cut # {}
=============================================================================
