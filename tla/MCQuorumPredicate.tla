-------------------------- MODULE MCQuorumPredicate --------------------------
(* Instances of QuorumPredicate: every predicate of a small grammar for each *)
(* family, with thresholds from none to one too many, children that share    *)
(* voters, strangers and predicates past the depth and size limits.          *)
EXTENDS QuorumPredicate

CONSTANTS v1, v2, v3, v4, stranger

FourVoters == {v1, v2, v3, v4}

Leaf == <<Voter(v1), Voter(v2), Voter(v3), Voter(v4)>>

Weights(a, b, c) ==
  <<[voter |-> v1, weight |-> a], [voter |-> v2, weight |-> b], [voter |-> v3, weight |-> c]>>

\* Flat thresholds and weighted thresholds, with and without a refusal.
FlatPredicates ==
  {AtLeastOf(k, Leaf) : k \in 0..5}
    \cup {All(Leaf), All(<<>>), Voter(v1), Voter(stranger), AtLeastOf(2, <<Leaf[1], Leaf[1]>>)}
    \cup {WeightedAtLeast(k, Weights(2, 1, 1)) : k \in {0, 2, 3, 4, 5}}
    \cup {WeightedAtLeast(1, Weights(0, 1, 1)),
          WeightedAtLeast(2, <<[voter |-> v1, weight |-> 1], [voter |-> v1, weight |-> 1]>>)}

\* Two buildings, apart or sharing a voter.
Buildings == {<<Leaf[1], Leaf[2]>>, <<Leaf[2], Leaf[3]>>, <<Leaf[3], Leaf[4]>>}

NestedPredicates ==
  {AtLeastOf(k, <<AtLeastOf(j, first), All(second)>>) :
     k \in 1..2, j \in 1..2, first \in Buildings, second \in Buildings}
    \cup {All(<<AtLeastOf(j, first), WeightedAtLeast(3, Weights(2, 1, 1))>>) :
            j \in 1..2, first \in Buildings}
    \cup {All(<<AtLeastOf(1, <<Leaf[1], All(<<Leaf[2], Leaf[3]>>)>>), Leaf[4]>>),
          All(<<All(<<All(<<Leaf[1]>>)>>)>>),
          All(<<All(<<Leaf[1]>>), All(<<Leaf[2]>>), All(<<Leaf[3]>>), All(<<Leaf[4]>>)>>)}

Predicates == FlatPredicates \cup NestedPredicates

\* Every election and commit predicate; reads are by three voters or by one.
AllDrafts ==
  {[election |-> e, commit |-> c, read |-> r] :
     e \in Predicates, c \in Predicates, r \in {AtLeastOf(3, Leaf), Voter(v1)}}
=============================================================================
