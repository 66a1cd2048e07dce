--------------------------- MODULE ReplicatedLog ---------------------------
(***************************************************************************)
(* The log a consensus node keeps and the comparisons the handlers make on *)
(* it.  An entry is its term and its command; its index is its place in    *)
(* the sequence and its digest is the entry itself.                        *)
(*                                                                         *)
(* Source: crates/meshspan-consensus/src/core/state.rs, the helpers at the *)
(* end of the file, and core/types.rs (LogPosition).                       *)
(***************************************************************************)
EXTENDS Naturals, Sequences

Max2(a, b) == IF a >= b THEN a ELSE b
Min2(a, b) == IF a <= b THEN a ELSE b

\* LogPosition; index 0 is LogPosition::GENESIS.
Position(log, index) == [term |-> IF index = 0 THEN 0 ELSE log[index].term, index |-> index]

LastPosition(log) == Position(log, Len(log))

\* Mutant: the candidate's log is not compared.
PositionAtLeast_AnyLog(p, q) == TRUE

\* The derived order of LogPosition: term first, then index.
PositionAtLeast(p, q) == p.term > q.term \/ (p.term = q.term /\ p.index >= q.index)

\* The log holds exactly this position.
PositionMatches(log, p) == p.index <= Len(log) /\ Position(log, p.index) = p

Prefix(log, n) == SubSeq(log, 1, n)

\* log_delta: incoming entries start right after index `previous`.  Offsets
\* of the incoming entries the local log does not already hold.
FreshOffsets(log, previous, incoming) ==
  {k \in 1..Len(incoming) : previous + k > Len(log) \/ log[previous + k] # incoming[k]}

\* Mutant: new entries go behind a diverged tail.
AppendDelta_KeepsTail(log, previous, incoming) ==
  IF FreshOffsets(log, previous, incoming) = {} THEN log
  ELSE log \o incoming

\* The log after the delta: nothing changes when every entry is present,
\* otherwise the tail from the first fresh entry is replaced.
AppendDelta(log, previous, incoming) ==
  IF FreshOffsets(log, previous, incoming) = {} THEN log
  ELSE Prefix(log, previous) \o incoming

\* log_delta refuses to replace an entry at or below the commit index.
DeltaConflictsWithCommit(log, commit_index, previous, incoming) ==
  \E k \in FreshOffsets(log, previous, incoming) :
     previous + k <= Len(log) /\ previous + k <= commit_index

\* replication_entries: a bounded batch starting at `start`.
Batch(log, start, limit) == SubSeq(log, start, Min2(Len(log), start + limit - 1))
=============================================================================
