-------------------------- MODULE LinearizableLog --------------------------
(***************************************************************************)
(* What a metadata partition promises its callers, with no members, terms  *)
(* or messages: one sequence of decided entries that only grows, and reads *)
(* that are answered at a point no older than what had been decided when   *)
(* they were asked for.                                                    *)
(*                                                                         *)
(* Source: the contract of CoreEffect::CommitReady and                     *)
(* CoreEffect::ReadBarrierReady (meshspan-consensus/src/core/types.rs).    *)
(***************************************************************************)
EXTENDS Naturals, Sequences

CONSTANTS Callers, ReadIds

VARIABLES
  decided,   \* the decided entries
  pending,   \* reads in progress: caller, its id, and what was decided when it began
  ready      \* the reads answered by the latest step

Read == [caller : Callers, id : ReadIds, floor : Nat]
Answer == [floor : Nat, index : Nat]

Init == decided = <<>> /\ pending = {} /\ ready = {}

\* The decided sequence may grow by any number of entries, and never changes.
Decide == Len(decided) <= Len(decided') /\ decided = SubSeq(decided', 1, Len(decided))

\* Reads that begin take the present length as their floor; any read may be
\* abandoned.
Reads == \A r \in pending' : r \in pending \/ (r \in Read /\ r.floor = Len(decided))

\* An answered read was pending or has just begun, and its answer lies between
\* its floor and the end of the decided sequence.
Answers ==
  \A a \in ready' :
     /\ a \in Answer
     /\ a.floor = Len(decided) \/ \E r \in pending : r.floor = a.floor
     /\ a.floor <= a.index
     /\ a.index <= Len(decided')

Next == Decide /\ Reads /\ Answers

Spec == Init /\ [][Next]_<<decided, pending, ready>>
=============================================================================
