------------------------------ MODULE LogProofs ------------------------------
(***************************************************************************)
(* Log safety of ConsensusCore: logs that hold the same position agree up  *)
(* to it, a leader only counts entries its peers hold, every leader that   *)
(* may still act holds what was committed before its term, no append would *)
(* replace a committed entry, and all members commit one sequence.         *)
(*                                                                         *)
(* None of these is inductive.  The strengthening, LogInv, speaks about    *)
(* the pieces of logs there are (the logs, the committed history and every *)
(* append that was ever sent), about the answers that may still reach a    *)
(* leader, and about the entries that may still be chosen: those of a      *)
(* leader that some commit quorum has acknowledged or can still            *)
(* acknowledge.  Every action is first reduced to one of five kinds of     *)
(* step, stated point by point; the invariant is proved from the kinds.    *)
(***************************************************************************)
EXTENDS ConsensusCoreProofs

-----------------------------------------------------------------------------
(* Pieces of logs.                                                          *)

\* The append requests that were ever sent.
Requests == {m \in messages : m.type = "AppendRequest"}

\* A log is a piece that starts at the genesis position; an append request is a
\* piece that starts at its previous position.
LogPiece(s) == [previous |-> [term |-> 0, index |-> 0], entries |-> s]

\* Every piece of a log there is.
Pieces == {LogPiece(log[n]) : n \in Members} \cup {LogPiece(committed)} \cup Requests

\* The indexes a piece spans and what it holds at one of them; at its start it
\* holds a position only.
Start(P) == P.previous.index
End(P) == P.previous.index + Len(P.entries)
EntryAt(P, i) == P.entries[i - P.previous.index]
TermAt(P, i) == IF i = P.previous.index THEN P.previous.term ELSE EntryAt(P, i).term

\* Index i lies in the piece, its start included.
Covers(P, i) == i \in Nat /\ Start(P) <= i /\ i <= End(P)

\* Terms never decrease along a piece.
Ordered(P) == \A i, j : Covers(P, i) /\ Covers(P, j) /\ i <= j => TermAt(P, i) <= TermAt(P, j)

\* Two pieces are the same at index i.
SameAt(P, Q, i) ==
  /\ TermAt(P, i) = TermAt(Q, i)
  /\ i > Start(P) /\ i > Start(Q) => EntryAt(P, i) = EntryAt(Q, i)

\* Pieces that hold the same position are the same below it.
Agree(P, Q) ==
  \A i, j : /\ Covers(P, i) /\ Covers(Q, i) /\ TermAt(P, i) = TermAt(Q, i)
            /\ Covers(P, j) /\ Covers(Q, j) /\ j <= i
            => SameAt(P, Q, j)

\* P is a part of Q.
SliceOf(P, Q) ==
  /\ Start(Q) <= Start(P) /\ End(P) <= End(Q)
  /\ \A i : Covers(P, i) => SameAt(P, Q, i)

\* Log matching, for every two pieces.
PiecesAgree == \A P, Q \in Pieces : Agree(P, Q)

\* Terms never decrease along any piece.
PiecesAreOrdered == \A P \in Pieces : Ordered(P)

\* Nothing is newer than the term of the log's owner or of the request.
TermsAreBounded ==
  /\ \A n \in Members : \A i \in 1..Len(log[n]) : log[n][i].term <= current_term[n]
  /\ \A m \in Requests : \A i : Covers(m, i) => TermAt(m, i) <= m.term
-----------------------------------------------------------------------------
(* Where entries come from.                                                 *)

\* v has granted c its vote of term t.
Granted(v, t, c) ==
  \E m \in messages : m.type = "VoteResponse" /\ m.granted /\ m.from = v /\ m.to = c /\ m.term = t

\* c was elected in term t, has voted for itself there, and will not be a
\* candidate of that term again.
Origin(c, t) ==
  /\ \E Q \in ElectionQuorums : \A v \in Q : v = c \/ Granted(v, t, c)
  /\ current_term[c] >= t
  /\ current_term[c] = t => voted_for[c] = c /\ role[c] # "Candidate"
  /\ \A d \in Members : Granted(c, t, d) => d = c

\* Every entry was proposed by a member elected in its term.
EntriesHaveOrigins ==
  \A P \in Pieces : \A i : Covers(P, i) /\ i > 0 => \E c \in Members : Origin(c, TermAt(P, i))

\* Every append was sent by a member elected in its term.
RequestsHaveOrigins == \A m \in Requests : Origin(m.from, m.term)

\* A leader's log holds every entry of its term there is.
LeadersHoldTheirTerm ==
  \A n \in Members : role[n] = "Leader" =>
     \A P \in Pieces : \A i : Covers(P, i) /\ i > 0 /\ TermAt(P, i) = current_term[n] =>
        i <= Len(log[n]) /\ log[n][i].term = current_term[n]

\* What a leader sent in its term is a part of its log, under numbers it has taken.
RequestsAreSlices ==
  \A n \in Members : role[n] = "Leader" =>
     \A m \in Requests : m.from = n /\ m.term = current_term[n] =>
        /\ SliceOf(m, LogPiece(log[n]))
        /\ m.probe_id = None \/ m.probe_id < next_append_probe_id[n]
-----------------------------------------------------------------------------
(* Probes and their answers.                                                *)

\* Requests of one leader to one peer with the same number ask for the same proof.
NumbersAreUnique ==
  \A r, s \in Requests :
     r.from = s.from /\ r.to = s.to /\ r.term = s.term /\ r.probe_id = s.probe_id /\ r.probe_id # None
       => r.kind = s.kind /\ r.previous = s.previous
          /\ Through(r.previous, r.entries) = Through(s.previous, s.entries)

\* The request of an outstanding probe.
IsProbe(n, p, probe, r) ==
  /\ r.kind = "Replication" /\ r.from = n /\ r.to = p /\ r.term = current_term[n]
  /\ r.probe_id = probe.id /\ r.previous = probe.previous
  /\ Through(r.previous, r.entries) = probe.through

\* Every outstanding probe belongs to a request that was sent.
ProbesAreSent ==
  \A n, p \in Members : role[n] = "Leader" =>
     \A probe \in leader[n].probes[p] : \E r \in Requests : IsProbe(n, p, probe, r)

\* a accepts r.
Accepts(a, r) ==
  /\ a.type = "AppendResponse" /\ a.accepted
  /\ a.from = r.to /\ a.to = r.from /\ a.term = r.term /\ a.probe_id = r.probe_id

\* Every acceptance answers a numbered request, in its term.
AcceptancesAreReal ==
  \A a \in messages : a.type = "AppendResponse" /\ a.accepted =>
     /\ a.probe_id # None
     /\ current_term[a.from] >= a.term
     /\ \E r \in Requests : Accepts(a, r)

\* v has answered that it holds n's log up to index i, or is n.
Acked(n, v, i) ==
  \/ v = n /\ i <= Len(log[n])
  \/ \E r \in Requests, a \in messages :
        /\ r.kind = "Replication" /\ r.from = n /\ r.to = v /\ r.term = current_term[n]
        /\ Accepts(a, r)
        /\ i <= Through(r.previous, r.entries).index

\* s begins with the first k entries of C.
Holds(C, k, s) == k <= Len(s) /\ \A j \in 1..k : s[j] = C[j]

\* An acknowledged part is held as long as the peer stays in the term.
AcksAreHeld ==
  \A n, v \in Members : \A i \in Nat :
     role[n] = "Leader" /\ current_term[v] = current_term[n] /\ Acked(n, v, i)
       => i <= Len(log[n]) /\ Holds(log[n], i, log[v])

\* A leader counts only what the peer has acknowledged.
MatchesAreAcked ==
  \A n, p \in Members : role[n] = "Leader" =>
     leader[n].matched[p] = 0 \/ Acked(n, p, leader[n].matched[p])

\* While a candidate campaigns its log is the one it asked for votes with.
CampaignsAreCurrent ==
  \A m \in messages : m.type = "VoteRequest" =>
     /\ current_term[m.from] >= m.term
     /\ role[m.from] = "Candidate" /\ current_term[m.from] = m.term =>
          m.last_log = LastPosition(log[m.from])

\* A candidate that was granted a vote has reached its term.
GrantsAreAsked ==
  \A m \in messages : m.type = "VoteResponse" /\ m.granted => current_term[m.to] >= m.term
-----------------------------------------------------------------------------
(* What may be chosen.                                                      *)

\* The last position of s is not older than the position of C at k.
Reaches(s, C, k) == PositionAtLeast(LastPosition(s), Position(C, k))

\* m cannot replace any of the first k entries of C, and what it extends beyond
\* them is not older.
Consistent(C, k, m) ==
  /\ \A j : Covers(m, j) /\ j <= k => SameAt(m, LogPiece(C), j)
  /\ Start(m) > k => m.previous.term >= C[k].term

\* The members of W that have left the term of C[k] hold the first k entries.
LeaversHold(C, k, W) == \A v \in W : current_term[v] > C[k].term => Holds(C, k, log[v])

\* Who campaigns later with a vote from W has a log that is not older.
CandidatesReach(C, k, W) ==
  \A x \in Members, v \in W :
     role[x] = "Candidate" /\ current_term[x] > C[k].term /\ Granted(v, current_term[x], x)
       => Reaches(log[x], C, k)

\* A log that is not older holds them.
ReachingHold(C, k) == \A x \in Members : Reaches(log[x], C, k) => Holds(C, k, log[x])

\* No append of the term or a later one replaces them.
RequestsKeep(C, k) == \A m \in Requests : m.term >= C[k].term => Consistent(C, k, m)

\* A leader of the term or a later one holds them.
LeadersHold(C, k) ==
  \A x \in Members : role[x] = "Leader" /\ current_term[x] >= C[k].term => Holds(C, k, log[x])

\* The first k entries of C survive everything that can still happen, if the
\* members of W hold them when they leave the term.
Chosen(C, k, W) ==
  /\ LeaversHold(C, k, W) /\ CandidatesReach(C, k, W)
  /\ ReachingHold(C, k) /\ RequestsKeep(C, k) /\ LeadersHold(C, k)

\* Every member of W has acknowledged leader n up to i, or still may.
CanBeChosen(n, i, W) == \A v \in W : current_term[v] <= current_term[n] \/ Acked(n, v, i)

\* What a quorum has acknowledged, or still may, is safe already.
WhatMayBeChosenIsSafe ==
  \A n \in Members : role[n] = "Leader" =>
     \A i \in 1..Len(log[n]) : \A W \in CommitQuorums :
        log[n][i].term = current_term[n] /\ CanBeChosen(n, i, W) => Chosen(log[n], i, W)

\* A commit quorum holds the first k entries of C, for good.
ChosenAt(C, k) ==
  \E W \in CommitQuorums :
     /\ Chosen(C, k, W)
     /\ \A v \in W : current_term[v] >= C[k].term /\ Holds(C, k, log[v])

\* Index i was committed in term t or before.
Backed(i, t) ==
  i = 0 \/ \E k \in 1..Len(committed) : i <= k /\ ChosenAt(committed, k) /\ committed[k].term <= t

\* Everything committed, and everything an append says is, was chosen.
CommitsAreBacked ==
  /\ committed # <<>> => ChosenAt(committed, Len(committed))
  /\ \A n \in Members : Backed(commit_index[n], current_term[n])
  /\ \A m \in Requests : Backed(m.leader_commit_index, m.term)

\* Every member has committed a prefix of the one history.
CommitsAgree == \A n \in Members : Holds(committed, commit_index[n], log[n])
-----------------------------------------------------------------------------
(* Facts about pieces.                                                      *)

\* The fields a piece has.
IsPiece(P) == P.previous \in LogPosition /\ P.entries \in Seq(Entry)

\* Where a piece lies, and what it holds there.
LEMMA PieceFacts ==
  ASSUME NEW P, IsPiece(P)
  PROVE  /\ Start(P) \in Nat /\ End(P) \in Nat /\ Start(P) <= End(P)
         /\ Covers(P, Start(P)) /\ Covers(P, End(P))
         /\ TermAt(P, Start(P)) = P.previous.term
         /\ \A i : Covers(P, i) => i \in Nat /\ TermAt(P, i) \in Nat
         /\ \A i : Covers(P, i) /\ i # Start(P) =>
              /\ i > Start(P) /\ i - Start(P) \in 1..Len(P.entries)
              /\ EntryAt(P, i) = P.entries[i - Start(P)] /\ EntryAt(P, i) \in Entry
              /\ TermAt(P, i) = EntryAt(P, i).term
<1>1. Start(P) \in Nat /\ Len(P.entries) \in Nat /\ P.previous.term \in Nat
  BY DEF IsPiece, LogPosition, Start
<1>2. End(P) = Start(P) + Len(P.entries)
  BY DEF End, Start
<1>3. Start(P) \in Nat /\ End(P) \in Nat /\ Start(P) <= End(P)
  BY <1>1, <1>2
<1>4. TermAt(P, Start(P)) = P.previous.term
  BY DEF TermAt, Start
<1>5. ASSUME NEW i, Covers(P, i), i # Start(P)
      PROVE  /\ i > Start(P) /\ i - Start(P) \in 1..Len(P.entries)
             /\ EntryAt(P, i) = P.entries[i - Start(P)] /\ EntryAt(P, i) \in Entry
             /\ TermAt(P, i) = EntryAt(P, i).term
  <2>1. i \in Nat /\ i > Start(P) /\ i - Start(P) \in 1..Len(P.entries)
    BY <1>1, <1>2, <1>3, <1>5 DEF Covers
  <2>2. EntryAt(P, i) = P.entries[i - Start(P)]
    BY DEF EntryAt, Start
  <2>3. EntryAt(P, i) \in Entry
    BY <2>1, <2>2 DEF IsPiece
  <2>4. TermAt(P, i) = EntryAt(P, i).term
    BY <1>5 DEF TermAt, Start
  <2> QED
    BY <2>1, <2>2, <2>3, <2>4
<1>6. \A i : Covers(P, i) => i \in Nat /\ TermAt(P, i) \in Nat
  BY <1>1, <1>4, <1>5 DEF Covers, Entry
<1>7. Covers(P, Start(P)) /\ Covers(P, End(P))
  BY <1>3 DEF Covers
<1> QED
  BY <1>3, <1>4, <1>5, <1>6, <1>7

\* A log as a piece.
LEMMA LogPieceFacts ==
  ASSUME NEW s \in Seq(Entry)
  PROVE  /\ IsPiece(LogPiece(s)) /\ Start(LogPiece(s)) = 0 /\ End(LogPiece(s)) = Len(s)
         /\ Len(s) \in Nat
         /\ \A i : Covers(LogPiece(s), i) <=> i \in 0..Len(s)
         /\ \A i \in 1..Len(s) : /\ EntryAt(LogPiece(s), i) = s[i]
                                 /\ TermAt(LogPiece(s), i) = s[i].term
                                 /\ s[i] \in Entry /\ s[i].term \in Nat
         /\ \A i \in 0..Len(s) : Position(s, i) = [term |-> TermAt(LogPiece(s), i), index |-> i]
         /\ TermAt(LogPiece(s), 0) = 0
<1> DEFINE P == LogPiece(s)
<1>1. P.previous = [term |-> 0, index |-> 0] /\ P.entries = s
  BY DEF LogPiece
<1> HIDE DEF P
<1>2. IsPiece(P) /\ Start(P) = 0 /\ End(P) = Len(s) /\ Len(s) \in Nat
  BY <1>1 DEF IsPiece, LogPosition, Start, End
<1>3. \A i : Covers(P, i) <=> i \in 0..Len(s)
  BY <1>2 DEF Covers
<1>4. \A i \in 1..Len(s) : EntryAt(P, i) = s[i] /\ TermAt(P, i) = s[i].term
  BY <1>1, <1>2 DEF EntryAt, TermAt
<1>5. \A i \in 1..Len(s) : s[i] \in Entry /\ s[i].term \in Nat
  <2>1. \A i \in 1..Len(s) : s[i] \in Entry
    OBVIOUS
  <2> QED
    BY <2>1 DEF Entry
<1>6. TermAt(P, 0) = 0
  BY <1>1 DEF TermAt
<1>7. \A i \in 0..Len(s) : Position(s, i) = [term |-> TermAt(P, i), index |-> i]
  BY <1>4, <1>6 DEF Position
<1> QED
  BY <1>2, <1>3, <1>4, <1>5, <1>6, <1>7 DEF P

\* Agreement is symmetric.
LEMMA AgreeSymmetric ==
  ASSUME NEW P, NEW Q, Agree(P, Q)
  PROVE  Agree(Q, P)
BY DEF Agree, SameAt

\* Slices lie within.
LEMMA SliceFacts ==
  ASSUME NEW P, NEW Q, IsPiece(P), IsPiece(Q), SliceOf(P, Q)
  PROVE  \A i : Covers(P, i) => /\ Covers(Q, i) /\ TermAt(P, i) = TermAt(Q, i)
                                /\ i > Start(P) => i > Start(Q) /\ EntryAt(P, i) = EntryAt(Q, i)
<1>1. /\ Start(P) \in Nat /\ End(P) \in Nat /\ Start(Q) \in Nat /\ End(Q) \in Nat
      /\ Start(Q) <= Start(P) /\ End(P) <= End(Q)
  BY PieceFacts DEF SliceOf
<1> SUFFICES ASSUME NEW i, Covers(P, i)
             PROVE  /\ Covers(Q, i) /\ TermAt(P, i) = TermAt(Q, i)
                    /\ i > Start(P) => i > Start(Q) /\ EntryAt(P, i) = EntryAt(Q, i)
  OBVIOUS
<1>2. i \in Nat /\ Start(P) <= i /\ i <= End(P)
  BY DEF Covers
<1>3. Covers(Q, i)
  BY <1>1, <1>2 DEF Covers
<1>4. SameAt(P, Q, i)
  BY DEF SliceOf
<1>5. i > Start(P) => i > Start(Q)
  BY <1>1, <1>2
<1> QED
  BY <1>3, <1>4, <1>5 DEF SameAt

\* A piece is a slice of itself.
LEMMA SliceOfItself ==
  ASSUME NEW P, IsPiece(P)
  PROVE  SliceOf(P, P)
<1>1. Start(P) \in Nat /\ End(P) \in Nat
  BY PieceFacts
<1> QED
  BY <1>1 DEF SliceOf, SameAt

\* Slices of pieces that agree agree.
LEMMA SlicesAgree ==
  ASSUME NEW P1, NEW Q1, NEW P2, NEW Q2, IsPiece(P1), IsPiece(Q1), IsPiece(P2), IsPiece(Q2),
         SliceOf(P1, Q1), SliceOf(P2, Q2), Agree(Q1, Q2)
  PROVE  Agree(P1, P2)
<1> SUFFICES ASSUME NEW i, NEW j, Covers(P1, i), Covers(P2, i), TermAt(P1, i) = TermAt(P2, i),
                    Covers(P1, j), Covers(P2, j), j <= i
             PROVE  SameAt(P1, P2, j)
  BY DEF Agree
<1>1. /\ Covers(Q1, i) /\ Covers(Q2, i) /\ TermAt(Q1, i) = TermAt(Q2, i)
      /\ Covers(Q1, j) /\ Covers(Q2, j)
  BY SliceFacts
<1>2. SameAt(Q1, Q2, j)
  BY <1>1 DEF Agree
<1>3. /\ TermAt(P1, j) = TermAt(Q1, j) /\ TermAt(P2, j) = TermAt(Q2, j)
      /\ j > Start(P1) => j > Start(Q1) /\ EntryAt(P1, j) = EntryAt(Q1, j)
      /\ j > Start(P2) => j > Start(Q2) /\ EntryAt(P2, j) = EntryAt(Q2, j)
  BY SliceFacts
<1> QED
  BY <1>2, <1>3 DEF SameAt

\* A slice of an ordered piece is ordered.
LEMMA SliceOrdered ==
  ASSUME NEW P, NEW Q, IsPiece(P), IsPiece(Q), SliceOf(P, Q), Ordered(Q)
  PROVE  Ordered(P)
BY SliceFacts DEF Ordered
-----------------------------------------------------------------------------
(* How logs change.                                                         *)

\* A log with one more entry.
LEMMA AppendFacts ==
  ASSUME NEW s \in Seq(Entry), NEW e \in Entry
  PROVE  /\ Append(s, e) \in Seq(Entry) /\ Len(Append(s, e)) = Len(s) + 1
         /\ Append(s, e)[Len(s) + 1] = e
         /\ \A i \in 1..Len(s) : Append(s, e)[i] = s[i]
         /\ SliceOf(LogPiece(s), LogPiece(Append(s, e)))
<1> DEFINE t == Append(s, e)
<1>1. t \in Seq(Entry) /\ Len(t) = Len(s) + 1 /\ Len(s) \in Nat
  OBVIOUS
<1>2. t[Len(s) + 1] = e /\ \A i \in 1..Len(s) : t[i] = s[i]
  OBVIOUS
<1> HIDE DEF t
<1>3. \A i : Covers(LogPiece(s), i) => SameAt(LogPiece(s), LogPiece(t), i)
  <2> SUFFICES ASSUME NEW i, Covers(LogPiece(s), i)
               PROVE  SameAt(LogPiece(s), LogPiece(t), i)
    OBVIOUS
  <2>1. i \in 0..Len(s)
    BY LogPieceFacts
  <2>2. CASE i = 0
    BY <1>1, <2>2, LogPieceFacts DEF SameAt
  <2>3. CASE i # 0
    <3>1. i \in 1..Len(s) /\ i \in 1..Len(t)
      BY <1>1, <2>1, <2>3
    <3>2. /\ EntryAt(LogPiece(s), i) = s[i] /\ TermAt(LogPiece(s), i) = s[i].term
          /\ EntryAt(LogPiece(t), i) = t[i] /\ TermAt(LogPiece(t), i) = t[i].term
      BY <1>1, <3>1, LogPieceFacts
    <3> QED
      BY <1>2, <3>1, <3>2 DEF SameAt
  <2> QED
    BY <2>2, <2>3
<1>4. SliceOf(LogPiece(s), LogPiece(t))
  <2>1. /\ Start(LogPiece(s)) = 0 /\ End(LogPiece(s)) = Len(s)
        /\ Start(LogPiece(t)) = 0 /\ End(LogPiece(t)) = Len(t)
    BY <1>1, LogPieceFacts
  <2> QED
    BY <1>1, <1>3, <2>1 DEF SliceOf
<1> QED
  BY <1>1, <1>2, <1>4 DEF t

\* The first entries of a log.
LEMMA PrefixFacts ==
  ASSUME NEW s \in Seq(Entry), NEW c \in Nat, c <= Len(s)
  PROVE  /\ Prefix(s, c) \in Seq(Entry) /\ Len(Prefix(s, c)) = c
         /\ \A i \in 1..c : Prefix(s, c)[i] = s[i]
         /\ SliceOf(LogPiece(Prefix(s, c)), LogPiece(s))
<1> DEFINE t == Prefix(s, c)
<1>1. t \in Seq(Entry) /\ Len(t) = c /\ Len(s) \in Nat
  BY PrefixType
<1>2. \A i \in 1..c : t[i] = s[i]
  BY DEF Prefix
<1> HIDE DEF t
<1>3. \A i : Covers(LogPiece(t), i) => SameAt(LogPiece(t), LogPiece(s), i)
  <2> SUFFICES ASSUME NEW i, Covers(LogPiece(t), i)
               PROVE  SameAt(LogPiece(t), LogPiece(s), i)
    OBVIOUS
  <2>1. i \in 0..c
    BY <1>1, LogPieceFacts
  <2>2. CASE i = 0
    BY <1>1, <2>2, LogPieceFacts DEF SameAt
  <2>3. CASE i # 0
    <3>1. i \in 1..Len(s) /\ i \in 1..Len(t)
      BY <1>1, <2>1, <2>3
    <3>2. /\ EntryAt(LogPiece(s), i) = s[i] /\ TermAt(LogPiece(s), i) = s[i].term
          /\ EntryAt(LogPiece(t), i) = t[i] /\ TermAt(LogPiece(t), i) = t[i].term
      BY <1>1, <3>1, LogPieceFacts
    <3> QED
      BY <1>1, <1>2, <3>1, <3>2 DEF SameAt
  <2> QED
    BY <2>2, <2>3
<1>4. SliceOf(LogPiece(t), LogPiece(s))
  <2>1. /\ Start(LogPiece(s)) = 0 /\ End(LogPiece(s)) = Len(s)
        /\ Start(LogPiece(t)) = 0 /\ End(LogPiece(t)) = Len(t)
    BY <1>1, LogPieceFacts
  <2> QED
    BY <1>1, <1>3, <2>1 DEF SliceOf
<1> QED
  BY <1>1, <1>2, <1>4 DEF t

\* A request is a part of the log it was cut from: it starts at a position of
\* the log and carries the entries that follow.
LEMMA RequestIsSlice ==
  ASSUME NEW s \in Seq(Entry), NEW m, NEW i \in Nat, i <= Len(s), m.previous = Position(s, i),
         m.entries \in Seq(Entry), i + Len(m.entries) <= Len(s),
         \A j \in 1..Len(m.entries) : m.entries[j] = s[i + j]
  PROVE  IsPiece(m) /\ SliceOf(m, LogPiece(s))
<1>1. /\ m.previous \in LogPosition /\ m.previous.index = i
      /\ m.previous.term = TermAt(LogPiece(s), i)
  <2>1. Len(s) \in Nat /\ i \in 0..Len(s)
    OBVIOUS
  <2>2. m.previous = [term |-> TermAt(LogPiece(s), i), index |-> i]
    BY <2>1, LogPieceFacts
  <2>3. m.previous.term = TermAt(LogPiece(s), i) /\ m.previous.index = i
    BY <2>2
  <2>4. m.previous \in LogPosition
    BY PositionType
  <2> QED
    BY <2>3, <2>4
<1>2. IsPiece(m) /\ Start(m) = i /\ End(m) = i + Len(m.entries) /\ Len(m.entries) \in Nat /\ Len(s) \in Nat
  BY <1>1 DEF IsPiece, Start, End
<1>3. ASSUME NEW j, Covers(m, j)
      PROVE  SameAt(m, LogPiece(s), j)
  <2>1. CASE j = i
    BY <1>1, <1>2, <2>1, PieceFacts DEF SameAt
  <2>2. CASE j # i
    <3>1. /\ j \in Nat /\ j > i /\ j - i \in 1..Len(m.entries)
          /\ EntryAt(m, j) = m.entries[j - i] /\ TermAt(m, j) = EntryAt(m, j).term
      BY <1>2, <1>3, <2>2, PieceFacts
    <3>2. m.entries[j - i] = s[j] /\ j \in 1..Len(s)
      <4>1. i + (j - i) = j /\ j \in 1..Len(s)
        BY <1>2, <3>1
      <4> QED
        BY <3>1, <4>1
    <3>3. EntryAt(LogPiece(s), j) = s[j] /\ TermAt(LogPiece(s), j) = s[j].term
      BY <3>2, LogPieceFacts
    <3> QED
      BY <3>1, <3>2, <3>3 DEF SameAt
  <2> QED
    BY <2>1, <2>2
<1>4. Start(LogPiece(s)) = 0 /\ End(LogPiece(s)) = Len(s)
  BY LogPieceFacts
<1> QED
  BY <1>2, <1>3, <1>4 DEF SliceOf

\* The log after an accepted request.
LEMMA JoinFacts ==
  ASSUME NEW s \in Seq(Entry), NEW m, IsPiece(m), PositionMatches(s, m.previous),
         NEW d, d = AppendDelta(s, m.previous.index, m.entries)
  PROVE  /\ d \in Seq(Entry) /\ End(m) <= Len(d) /\ Len(d) \in Nat
         /\ d = s \/ Len(d) = End(m)
         /\ Start(m) <= Len(s) /\ TermAt(LogPiece(s), Start(m)) = m.previous.term
         /\ \A j \in 1..Start(m) : d[j] = s[j]
         /\ \A j : Covers(m, j) /\ j # Start(m) => d[j] = EntryAt(m, j)
         /\ d # s => \E j : /\ Covers(m, j) /\ j # Start(m)
                            /\ j > Len(s) \/ s[j] # EntryAt(m, j)
<1> DEFINE previous == m.previous.index
           fresh == FreshOffsets(s, previous, m.entries)
<1>1. /\ Start(m) = previous /\ previous \in Nat /\ End(m) = previous + Len(m.entries)
      /\ m.entries \in Seq(Entry) /\ Len(m.entries) \in Nat /\ Len(s) \in Nat
  BY DEF IsPiece, LogPosition, Start, End
<1>2. /\ previous <= Len(s) /\ TermAt(LogPiece(s), previous) = m.previous.term
  <2>1. previous \in 0..Len(s) /\ Position(s, previous) = m.previous
    BY <1>1 DEF PositionMatches
  <2>2. m.previous = [term |-> TermAt(LogPiece(s), previous), index |-> previous]
    BY <2>1, LogPieceFacts
  <2>3. m.previous.term = TermAt(LogPiece(s), previous)
    <3> HIDE DEF previous
    <3> QED BY <2>2
  <2> QED
    BY <2>1, <2>3
<1>3. \A j : Covers(m, j) /\ j # previous =>
         /\ j \in Nat /\ j - previous \in 1..Len(m.entries) /\ EntryAt(m, j) = m.entries[j - previous]
         /\ previous + (j - previous) = j
  <2> SUFFICES ASSUME NEW j, Covers(m, j), j # previous
               PROVE  /\ j \in Nat /\ j - previous \in 1..Len(m.entries)
                      /\ EntryAt(m, j) = m.entries[j - previous]
                      /\ previous + (j - previous) = j
    OBVIOUS
  <2>1. j \in Nat /\ j - Start(m) \in 1..Len(m.entries) /\ EntryAt(m, j) = m.entries[j - Start(m)]
    BY <1>1, PieceFacts
  <2> QED
    BY <1>1, <2>1
<1>4. CASE fresh = {}
  <2>1. d = s
    BY <1>4 DEF AppendDelta
  <2>2. \A k \in 1..Len(m.entries) : previous + k <= Len(s) /\ s[previous + k] = m.entries[k]
    BY <1>1, <1>4 DEF FreshOffsets
  <2>3. End(m) <= Len(s)
    <3>1. CASE Len(m.entries) = 0
      BY <1>1, <1>2, <3>1
    <3>2. CASE Len(m.entries) # 0
      <4>1. Len(m.entries) \in 1..Len(m.entries)
        BY <1>1, <3>2
      <4> QED
        BY <1>1, <2>2, <4>1
    <3> QED
      BY <3>1, <3>2
  <2>4. \A j : Covers(m, j) /\ j # previous => s[j] = EntryAt(m, j)
    <3> SUFFICES ASSUME NEW j, Covers(m, j), j # previous
                 PROVE  s[j] = EntryAt(m, j)
      OBVIOUS
    <3>1. /\ j - previous \in 1..Len(m.entries) /\ EntryAt(m, j) = m.entries[j - previous]
          /\ previous + (j - previous) = j
      BY <1>3
    <3>2. s[previous + (j - previous)] = m.entries[j - previous]
      BY <2>2, <3>1
    <3> QED
      BY <3>1, <3>2
  <2> HIDE DEF previous, fresh
  <2> QED
    BY <1>1, <1>2, <2>1, <2>3, <2>4
<1>5. CASE fresh # {}
  <2>1. d = Prefix(s, previous) \o m.entries
    BY <1>5 DEF AppendDelta
  <2>2. /\ Prefix(s, previous) \in Seq(Entry) /\ Len(Prefix(s, previous)) = previous
        /\ \A j \in 1..previous : Prefix(s, previous)[j] = s[j]
    BY <1>1, <1>2, PrefixFacts
  <2>3. d \in Seq(Entry) /\ Len(d) = previous + Len(m.entries)
    <3>1. ASSUME NEW a \in Seq(Entry), NEW b \in Seq(Entry)
          PROVE  a \o b \in Seq(Entry) /\ Len(a \o b) = Len(a) + Len(b)
      OBVIOUS
    <3>2. Prefix(s, previous) \o m.entries \in Seq(Entry)
      BY <1>1, <2>2, <3>1
    <3>3. Len(Prefix(s, previous) \o m.entries) = Len(Prefix(s, previous)) + Len(m.entries)
      BY ONLY <1>1, <2>2, <3>1
    <3> QED
      BY <2>1, <2>2, <3>2, <3>3
  <2>4. \A j \in 1..previous : d[j] = s[j]
    <3> HIDE DEF previous
    <3> QED BY <1>1, <2>1, <2>2
  <2>5. \A j : Covers(m, j) /\ j # previous => d[j] = EntryAt(m, j)
    <3> SUFFICES ASSUME NEW j, Covers(m, j), j # previous
                 PROVE  d[j] = EntryAt(m, j)
      OBVIOUS
    <3>1. /\ j \in Nat /\ j - previous \in 1..Len(m.entries) /\ EntryAt(m, j) = m.entries[j - previous]
      BY <1>3
    <3> HIDE DEF previous
    <3> QED
      BY <1>1, <2>1, <2>2, <3>1
  <2>6. \E j : Covers(m, j) /\ j # previous /\ (j > Len(s) \/ s[j] # EntryAt(m, j))
    <3>1. PICK k \in 1..Len(m.entries) : previous + k > Len(s) \/ s[previous + k] # m.entries[k]
      BY <1>5 DEF FreshOffsets
    <3>2. Covers(m, previous + k) /\ previous + k # previous
      BY <1>1 DEF Covers
    <3>3. (previous + k) - previous = k
      BY <1>1
    <3>4. EntryAt(m, previous + k) = m.entries[k]
      BY <1>3, <3>2, <3>3
    <3> QED
      BY <3>1, <3>2, <3>4
  <2> HIDE DEF previous, fresh
  <2>7. End(m) <= Len(d) /\ Len(d) \in Nat /\ Len(d) = End(m)
    BY <1>1, <2>3
  <2> QED
    BY <1>1, <1>2, <2>3, <2>4, <2>5, <2>6, <2>7
<1> QED
  BY <1>4, <1>5

\* The log after an accepted request is the old log up to where the request
\* starts, and the request from there on.
LEMMA JoinPieces ==
  ASSUME NEW s \in Seq(Entry), NEW m, IsPiece(m), PositionMatches(s, m.previous),
         NEW d, d = AppendDelta(s, m.previous.index, m.entries)
  PROVE  /\ d \in Seq(Entry) /\ SliceOf(m, LogPiece(d))
         /\ Covers(LogPiece(s), Start(m)) /\ TermAt(LogPiece(s), Start(m)) = TermAt(m, Start(m))
         /\ \A j : j \in Nat /\ j <= Start(m) =>
              /\ Covers(LogPiece(s), j) /\ Covers(LogPiece(d), j)
              /\ TermAt(LogPiece(d), j) = TermAt(LogPiece(s), j)
              /\ j # 0 => EntryAt(LogPiece(d), j) = EntryAt(LogPiece(s), j)
<1> DEFINE S == LogPiece(s)
           D == LogPiece(d)
<1>1. /\ d \in Seq(Entry) /\ End(m) <= Len(d) /\ Len(d) \in Nat /\ Len(s) \in Nat
      /\ Start(m) <= Len(s) /\ TermAt(S, Start(m)) = m.previous.term
      /\ Start(m) \in Nat /\ End(m) \in Nat /\ Start(m) <= End(m)
      /\ TermAt(m, Start(m)) = m.previous.term
  BY JoinFacts, PieceFacts
<1>2. \A j \in 1..Start(m) : d[j] = s[j]
  BY JoinFacts
<1>3. \A j : Covers(m, j) /\ j # Start(m) => d[j] = EntryAt(m, j)
  BY JoinFacts
<1>4. \A i : Covers(D, i) <=> i \in 0..Len(d)
  BY <1>1, LogPieceFacts
<1>5. \A i : Covers(S, i) <=> i \in 0..Len(s)
  BY LogPieceFacts
<1>6. \A i \in 1..Len(d) : EntryAt(D, i) = d[i] /\ TermAt(D, i) = d[i].term
  BY <1>1, LogPieceFacts
<1>7. \A i \in 1..Len(s) : EntryAt(S, i) = s[i] /\ TermAt(S, i) = s[i].term
  BY LogPieceFacts
<1>8. TermAt(S, 0) = 0 /\ TermAt(D, 0) = 0 /\ Start(D) = 0 /\ End(D) = Len(d)
  BY <1>1, LogPieceFacts
<1> HIDE DEF S, D
<1>9. ASSUME NEW j \in Nat, j <= Start(m)
      PROVE  /\ Covers(S, j) /\ Covers(D, j) /\ TermAt(D, j) = TermAt(S, j)
             /\ j # 0 => EntryAt(D, j) = EntryAt(S, j)
  <2>1. j \in 0..Len(s) /\ j \in 0..Len(d)
    BY <1>1, <1>9
  <2>2. CASE j = 0
    BY <1>4, <1>5, <1>8, <2>1, <2>2
  <2>3. CASE j # 0
    <3>1. j \in 1..Start(m) /\ j \in 1..Len(s) /\ j \in 1..Len(d)
      BY <1>1, <1>9, <2>3
    <3> QED
      BY <1>2, <1>4, <1>5, <1>6, <1>7, <2>1, <3>1
  <2> QED
    BY <2>2, <2>3
<1>10. ASSUME NEW j, Covers(m, j)
       PROVE  SameAt(m, D, j)
  <2>1. CASE j = Start(m)
    <3>1. TermAt(D, j) = TermAt(S, j)
      BY <1>1, <1>9, <2>1
    <3> QED
      BY <1>1, <2>1, <3>1 DEF SameAt
  <2>2. CASE j # Start(m)
    <3>1. j \in Nat /\ j > Start(m) /\ j <= End(m) /\ TermAt(m, j) = EntryAt(m, j).term
      BY <1>10, <2>2, PieceFacts DEF Covers
    <3>2. j \in 1..Len(d) /\ d[j] = EntryAt(m, j)
      BY <1>1, <1>3, <1>10, <2>2, <3>1
    <3> QED
      BY <1>6, <3>1, <3>2 DEF SameAt
  <2> QED
    BY <2>1, <2>2
<1>11. SliceOf(m, D)
  BY <1>1, <1>8, <1>10 DEF SliceOf
<1>12. Covers(S, Start(m))
  BY <1>1, <1>9
<1> QED
  BY <1>1, <1>9, <1>11, <1>12 DEF S, D

\* Two pieces that agree and share a term at one index are the same at every
\* index both cover up to it.
LEMMA AgreeAt ==
  ASSUME NEW P, NEW Q, Agree(P, Q),
         NEW a, Covers(P, a), Covers(Q, a), TermAt(P, a) = TermAt(Q, a),
         NEW b, Covers(P, b), Covers(Q, b), b <= a
  PROVE  SameAt(P, Q, b)
BY DEF Agree

\* What agrees with a log and with a request agrees with the log after it.
LEMMA JoinAgrees ==
  ASSUME NEW s \in Seq(Entry), NEW m, IsPiece(m), PositionMatches(s, m.previous),
         NEW d, d = AppendDelta(s, m.previous.index, m.entries),
         NEW Q, IsPiece(Q), Agree(LogPiece(s), Q), Agree(m, Q)
  PROVE  Agree(LogPiece(d), Q)
<1> DEFINE S == LogPiece(s)
           D == LogPiece(d)
<1>1. CASE d = s
  BY <1>1
<1>2. CASE d # s
  <2>1. d \in Seq(Entry) /\ Len(d) = End(m) /\ IsPiece(D) /\ IsPiece(S)
    BY <1>2, JoinFacts, LogPieceFacts
  <2>2. /\ SliceOf(m, D) /\ Covers(S, Start(m)) /\ TermAt(S, Start(m)) = TermAt(m, Start(m))
        /\ \A j : j \in Nat /\ j <= Start(m) =>
             /\ Covers(S, j) /\ Covers(D, j) /\ TermAt(D, j) = TermAt(S, j)
             /\ j # 0 => EntryAt(D, j) = EntryAt(S, j)
    BY JoinPieces
  <2>3. /\ Start(m) \in Nat /\ End(m) \in Nat /\ Start(m) <= End(m) /\ Covers(m, Start(m))
        /\ Start(D) = 0 /\ Start(S) = 0 /\ Start(Q) \in Nat /\ End(Q) \in Nat
    BY <2>1, PieceFacts, LogPieceFacts
  <2>4. \A j : Covers(m, j) => /\ Covers(D, j) /\ TermAt(m, j) = TermAt(D, j)
                               /\ j > Start(m) => EntryAt(m, j) = EntryAt(D, j)
    BY <2>1, <2>2, SliceFacts
  <2>5. \A i : Covers(D, i) => i \in Nat /\ i <= End(m)
    BY <2>1, LogPieceFacts
  <2> HIDE DEF S, D
  <2> SUFFICES ASSUME NEW i, NEW j, Covers(D, i), Covers(Q, i), TermAt(D, i) = TermAt(Q, i),
                      Covers(D, j), Covers(Q, j), j <= i
               PROVE  SameAt(D, Q, j)
    BY DEF Agree, D
  <2>6. i \in Nat /\ j \in Nat /\ i <= End(m) /\ j <= End(m)
    BY <2>5
  <2>7. /\ Start(Q) <= i /\ i <= End(Q) /\ Start(Q) <= j /\ j <= End(Q)
    BY DEF Covers
  <2>8. ASSUME SameAt(S, Q, j), j <= Start(m)
        PROVE  SameAt(D, Q, j)
    BY <2>2, <2>3, <2>6, <2>8 DEF SameAt
  <2>9. CASE i <= Start(m)
    <3>1. Covers(S, i) /\ Covers(S, j) /\ TermAt(S, i) = TermAt(Q, i) /\ j <= Start(m)
      BY <2>2, <2>3, <2>6, <2>9
    <3>2. SameAt(S, Q, j)
      <4>1. Agree(S, Q)
        BY DEF S
      <4> QED
        BY <3>1, <4>1, AgreeAt
    <3> QED
      BY <2>8, <3>1, <3>2
  <2>10. CASE i > Start(m)
    <3>1. Covers(m, i) /\ TermAt(m, i) = TermAt(Q, i)
      <4>1. Covers(m, i)
        BY <2>3, <2>6, <2>10 DEF Covers
      <4> QED
        BY <2>4, <4>1
    <3>2. CASE j > Start(m)
      <4>1. Covers(m, j)
        BY <2>3, <2>6, <3>2 DEF Covers
      <4>2. SameAt(m, Q, j)
        BY <3>1, <4>1, AgreeAt
      <4> QED
        BY <2>4, <3>2, <4>1, <4>2 DEF SameAt
    <3>3. CASE j <= Start(m)
      <4>1. Covers(Q, Start(m))
        BY <2>3, <2>6, <2>7, <2>10, <3>3 DEF Covers
      <4>2. SameAt(m, Q, Start(m))
        <5>1. Start(m) <= i
          BY <2>3, <2>6, <2>10
        <5> QED
          BY <2>3, <3>1, <4>1, <5>1, AgreeAt
      <4>3. TermAt(S, Start(m)) = TermAt(Q, Start(m))
        BY <2>2, <4>2 DEF SameAt
      <4>4. SameAt(S, Q, j)
        <5>1. Agree(S, Q)
          BY DEF S
        <5>2. Covers(S, j)
          BY <2>2, <2>6, <3>3
        <5> QED
          BY <2>2, <3>3, <4>1, <4>3, <5>1, <5>2, AgreeAt
      <4> QED
        BY <2>8, <3>3, <4>4
    <3> QED
      BY <2>3, <2>6, <3>2, <3>3
  <2> QED
    BY <2>3, <2>6, <2>9, <2>10
<1> QED
  BY <1>1, <1>2

\* A log stays ordered when it takes an ordered request.
LEMMA JoinOrdered ==
  ASSUME NEW s \in Seq(Entry), NEW m, IsPiece(m), PositionMatches(s, m.previous),
         NEW d, d = AppendDelta(s, m.previous.index, m.entries),
         Ordered(LogPiece(s)), Ordered(m)
  PROVE  Ordered(LogPiece(d))
<1> DEFINE S == LogPiece(s)
           D == LogPiece(d)
<1>1. CASE d = s
  BY <1>1
<1>2. CASE d # s
  <2>1. d \in Seq(Entry) /\ Len(d) = End(m) /\ IsPiece(D) /\ IsPiece(S)
    BY <1>2, JoinFacts, LogPieceFacts
  <2>2. /\ SliceOf(m, D) /\ Covers(S, Start(m)) /\ TermAt(S, Start(m)) = TermAt(m, Start(m))
        /\ \A j : j \in Nat /\ j <= Start(m) =>
             /\ Covers(S, j) /\ TermAt(D, j) = TermAt(S, j)
    BY JoinPieces
  <2>3. Start(m) \in Nat /\ End(m) \in Nat /\ Start(m) <= End(m) /\ Covers(m, Start(m))
    BY PieceFacts
  <2>4. \A j : Covers(m, j) => TermAt(m, j) = TermAt(D, j)
    BY <2>1, <2>2, SliceFacts
  <2>5. \A i : Covers(D, i) => i \in Nat /\ i <= End(m) /\ TermAt(D, i) \in Nat
    BY <2>1, LogPieceFacts, PieceFacts
  <2>6. Ordered(S)
    OBVIOUS
  <2>7. \A i \in Nat : i <= Start(m) => TermAt(D, i) <= TermAt(D, Start(m))
    BY <2>2, <2>3, <2>6 DEF Ordered
  <2>8. \A i \in Nat : i >= Start(m) /\ i <= End(m) => TermAt(D, Start(m)) <= TermAt(D, i)
    <3> SUFFICES ASSUME NEW i \in Nat, i >= Start(m), i <= End(m)
                 PROVE  TermAt(D, Start(m)) <= TermAt(D, i)
      OBVIOUS
    <3>1. Covers(m, i)
      BY <2>3 DEF Covers
    <3> QED
      BY <2>3, <2>4, <3>1 DEF Ordered
  <2>9. Covers(D, Start(m))
    BY <2>1, <2>2, <2>3, SliceFacts
  <2> HIDE DEF S, D
  <2> SUFFICES ASSUME NEW i, NEW j, Covers(D, i), Covers(D, j), i <= j
               PROVE  TermAt(D, i) <= TermAt(D, j)
    BY DEF Ordered, D
  <2>10. i \in Nat /\ j \in Nat /\ i <= End(m) /\ j <= End(m)
         /\ TermAt(D, i) \in Nat /\ TermAt(D, j) \in Nat /\ TermAt(D, Start(m)) \in Nat
    BY <2>5, <2>9
  <2>11. CASE j <= Start(m)
    BY <2>2, <2>3, <2>6, <2>10, <2>11 DEF Ordered
  <2>12. CASE i >= Start(m)
    <3>1. Covers(m, i) /\ Covers(m, j)
      BY <2>3, <2>10, <2>12 DEF Covers
    <3> QED
      BY <2>4, <3>1 DEF Ordered
  <2>13. CASE i <= Start(m) /\ j >= Start(m)
    BY <2>7, <2>8, <2>10, <2>13
  <2> QED
    BY <2>3, <2>10, <2>11, <2>12, <2>13
<1> QED
  BY <1>1, <1>2
-----------------------------------------------------------------------------
(* The kinds of step.                                                       *)

\* A step of n leaves everybody else alone.
Others(n) ==
  \A x \in Members : x # n =>
     /\ role'[x] = role[x] /\ current_term'[x] = current_term[x] /\ voted_for'[x] = voted_for[x]
     /\ log'[x] = log[x] /\ leader'[x] = leader[x] /\ commit_index'[x] = commit_index[x]
     /\ next_append_probe_id'[x] = next_append_probe_id[x]

\* An append that n sends in this step is a part of its log.
SentBy(n, m) ==
  /\ m.type = "AppendRequest" /\ m.from = n /\ m.term = current_term'[n]
  /\ SliceOf(m, LogPiece(log'[n]))
  /\ m.leader_commit_index <= commit_index'[n]

\* Its number is none, new, or the one of the outstanding probe that asks the same.
Numbered(n, m) ==
  \/ m.probe_id = None
  \/ m.probe_id = next_append_probe_id[n] /\ m.probe_id < next_append_probe_id'[n]
  \/ /\ role[n] = "Leader" /\ m.kind = "Replication"
     /\ \E probe \in leader[n].probes[m.to] :
           /\ m.probe_id = probe.id /\ m.previous = probe.previous
           /\ Through(m.previous, m.entries) = probe.through

\* All that n sends is a part of its log under a number of its own.
Sends(n) ==
  /\ \A m \in messages' : m \in messages \/ (SentBy(n, m) /\ Numbered(n, m))
  /\ \A r, s \in messages' :
        r \notin messages /\ s \notin messages /\ r.to = s.to /\ r.probe_id = s.probe_id
          /\ r.probe_id # None
          => /\ r.kind = s.kind /\ r.previous = s.previous
             /\ Through(r.previous, r.entries) = Through(s.previous, s.entries)

\* Every probe n awaits an answer to after the step was outstanding before it,
\* or its request was sent.
Probes(n) ==
  \A p \in Members : \A probe \in leader'[n].probes[p] :
     \/ role[n] = "Leader" /\ probe \in leader[n].probes[p]
     \/ \E r \in Requests' : IsProbe(n, p, probe, r)'

\* What n sends are refusals, or the grant of a vote to a log that is not older.
Answers(n) ==
  \A m \in messages' :
     \/ m \in messages
     \/ m.type = "AppendResponse" /\ ~m.accepted
     \/ m.type = "VoteResponse" /\ ~m.granted
     \/ /\ m.type = "VoteResponse" /\ m.from = n
        /\ m.term = current_term'[n] /\ role'[n] = "Follower"
        /\ \E q \in messages : /\ q.type = "VoteRequest" /\ q.from = m.to /\ q.term = m.term
                               /\ PositionAtLeast(q.last_log, LastPosition(log[n]))

\* n gains nothing: it stays what it is, or becomes a follower.
Rests(n) ==
  /\ log'[n] = log[n] /\ commit_index'[n] <= commit_index[n] /\ committed' = committed
  /\ current_term'[n] >= current_term[n]
  /\ \/ role'[n] = "Follower"
     \/ /\ role'[n] = role[n] /\ current_term'[n] = current_term[n]
        /\ next_append_probe_id'[n] = next_append_probe_id[n]
        /\ role[n] = "Leader" => /\ leader'[n].matched = leader[n].matched
                                 /\ leader'[n].probes = leader[n].probes
  /\ Answers(n)

\* n asks for votes in a new term.
Campaigns(n) ==
  /\ log'[n] = log[n] /\ commit_index'[n] = commit_index[n] /\ committed' = committed
  /\ current_term'[n] > current_term[n] /\ role'[n] = "Candidate"
  /\ \A m \in messages' :
        \/ m \in messages
        \/ /\ m.type = "VoteRequest" /\ m.from = n /\ m.term = current_term'[n]
           /\ m.last_log = LastPosition(log[n])

\* n becomes leader of a term it campaigned in, or needs no other vote for.
Wins(n) ==
  /\ log'[n] = log[n] /\ commit_index'[n] = commit_index[n] /\ committed' = committed
  /\ \/ current_term'[n] > current_term[n]
     \/ current_term'[n] = current_term[n] /\ role[n] = "Candidate"
  /\ role[n] # "Leader" /\ role'[n] = "Leader"
  /\ \A p \in Members : leader'[n].matched[p] = IF p = n THEN Len(log[n]) ELSE 0
  /\ Sends(n) /\ Probes(n)

\* The commit index of leader n moves to an entry of its term that a commit
\* quorum has matched, or stays.
Commits(n) ==
  \/ /\ commit_index'[n] = commit_index[n]
     /\ \/ committed' = committed
        \/ commit_index[n] > Len(committed) /\ committed' = Prefix(log'[n], commit_index'[n])
  \/ /\ commit_index'[n] > commit_index[n] /\ commit_index'[n] <= Len(log'[n])
     /\ log'[n][commit_index'[n]].term = current_term[n]
     /\ \E W \in CommitQuorums : \A v \in W : leader'[n].matched[v] >= commit_index'[n]
     /\ committed' = IF commit_index'[n] > Len(committed) THEN Prefix(log'[n], commit_index'[n])
                     ELSE committed

\* What leader n believes of p comes from an acceptance of an outstanding probe.
Matches(n, p) ==
  \/ leader'[n].matched[p] = leader[n].matched[p]
  \/ p = n /\ leader'[n].matched[p] = Len(log'[n])
  \/ \E probe \in leader[n].probes[p], a \in messages :
        /\ a.type = "AppendResponse" /\ a.accepted
        /\ a.from = p /\ a.to = n /\ a.term = current_term[n] /\ a.probe_id = probe.id
        /\ leader'[n].matched[p] = probe.through.index

\* n leads on: it may append an entry of its term, commit, and send.
Leads(n) ==
  /\ role[n] = "Leader" /\ role'[n] = "Leader" /\ current_term'[n] = current_term[n]
  /\ next_append_probe_id'[n] >= next_append_probe_id[n]
  /\ \/ log'[n] = log[n]
     \/ \E e \in Entry : e.term = current_term[n] /\ log'[n] = Append(log[n], e)
  /\ \A p \in Members : Matches(n, p)
  /\ Commits(n) /\ Sends(n) /\ Probes(n)

\* n accepts the append m.
Follows(n, m) ==
  /\ m.to = n /\ m.term >= current_term[n] /\ current_term'[n] = m.term /\ role'[n] = "Follower"
  /\ PositionMatches(log[n], m.previous)
  /\ log'[n] = AppendDelta(log[n], m.previous.index, m.entries)
  /\ commit_index'[n] = Max2(commit_index[n], FollowerCommit(m, log'[n]))
  /\ committed' = IF commit_index'[n] > Len(committed) THEN Prefix(log'[n], commit_index'[n])
                  ELSE committed
  /\ \A a \in messages' : a \in messages \/ (Accepts(a, m) /\ a.probe_id # None)

\* Every step of n is of one of the five kinds.
LogStep(n) ==
  /\ Others(n) /\ messages \subseteq messages'
  /\ Rests(n) \/ Campaigns(n) \/ Wins(n) \/ Leads(n) \/ \E m \in Requests : Follows(n, m)
-----------------------------------------------------------------------------
(* What a round of requests is.                                             *)

\* The entries of a batch.
LEMMA BatchEntries ==
  ASSUME NEW s \in Seq(Entry), NEW i \in Nat, i + 1 <= Len(s) + 1
  PROVE  /\ Batch(s, i + 1, MaxAppendEntries) \in Seq(Entry)
         /\ i + Len(Batch(s, i + 1, MaxAppendEntries)) <= Len(s)
         /\ \A j \in 1..Len(Batch(s, i + 1, MaxAppendEntries)) :
               Batch(s, i + 1, MaxAppendEntries)[j] = s[i + j]
<1> DEFINE last == Min2(Len(s), (i + 1) + MaxAppendEntries - 1)
<1>1. MaxAppendEntries \in Nat \ {0}
  BY ValueAssumption
<1>2. Len(s) \in Nat /\ last \in Nat /\ last <= Len(s)
  BY <1>1 DEF Min2
<1>3. Batch(s, i + 1, MaxAppendEntries) = SubSeq(s, i + 1, last)
  BY DEF Batch
<1>4. /\ Batch(s, i + 1, MaxAppendEntries) \in Seq(Entry)
      /\ i + Len(Batch(s, i + 1, MaxAppendEntries)) <= Len(s)
  <2>1. i + 1 \in Nat \ {0} /\ (i + 1) - 1 = i
    OBVIOUS
  <2>2. /\ Batch(s, i + 1, MaxAppendEntries) \in Seq(Entry)
        /\ (i + 1) - 1 + Len(Batch(s, i + 1, MaxAppendEntries)) <= Len(s)
    BY <2>1, BatchType
  <2> QED
    BY <2>1, <2>2
<1> HIDE DEF last
<1>5. \A j \in 1..Len(SubSeq(s, i + 1, last)) : SubSeq(s, i + 1, last)[j] = s[i + j]
  <2>1. ASSUME NEW j \in 1..Len(SubSeq(s, i + 1, last))
        PROVE  SubSeq(s, i + 1, last)[j] = s[i + j]
    <3>1. PICK a \in Nat : a = i + 1
      OBVIOUS
    <3>2. Len(SubSeq(s, a, last)) = IF a <= last THEN last - a + 1 ELSE 0
      BY <1>2, <3>1
    <3>3. j \in 1..(last - a + 1)
      BY <1>2, <3>1, <3>2
    <3>4. SubSeq(s, a, last)[j] = s[a + j - 1]
      BY <1>2, <3>1, <3>3
    <3>5. a + j - 1 = i + j
      BY <3>1, <3>3
    <3> QED
      BY <3>1, <3>4, <3>5
  <2> QED
    BY <2>1
<1> QED
  BY <1>3, <1>4, <1>5

\* What a replication round sends: parts of the log, numbered.
LEMMA ReplicateSends ==
  ASSUME NEW n \in Members, NEW term \in Nat, NEW s \in Seq(Entry), NEW commit \in Nat,
         NEW ls \in LeaderState, NEW peers \in SUBSET Members,
         WithinLog(ls, Len(s)), next_append_probe_id[n] \in Nat
  PROVE  /\ \A m \in Replicate(n, term, s, commit, ls, peers) :
              /\ m.type = "AppendRequest" /\ m.from = n /\ m.term = term /\ m.to \in peers
              /\ m.kind = "Replication" /\ m.leader_commit_index = commit
              /\ SliceOf(m, LogPiece(s))
              /\ \/ m.probe_id = next_append_probe_id[n]
                 \/ \E probe \in ls.probes[m.to] :
                       /\ m.probe_id = probe.id /\ m.previous = probe.previous
                       /\ Through(m.previous, m.entries) = probe.through
         /\ \A r, q \in Replicate(n, term, s, commit, ls, peers) : r.to = q.to => r = q
<1> DEFINE previous(p) == Position(s, ls.next[p] - 1)
           entries(p)  == Batch(s, ls.next[p], MaxAppendEntries)
           existing(p) == Existing(ls.probes[p], previous(p), Through(previous(p), entries(p)))
           id(p) == IF existing(p) = {} THEN next_append_probe_id[n]
                    ELSE (CHOOSE e \in existing(p) : TRUE).id
           request(p) == AppendRequest(n, p, term, "Replication", id(p), previous(p), entries(p),
                                       commit, None)
<1>1. Replicate(n, term, s, commit, ls, peers) = {request(p) : p \in peers}
  BY DEF Replicate
<1>2. ASSUME NEW p \in peers
      PROVE  /\ request(p).type = "AppendRequest" /\ request(p).from = n /\ request(p).term = term
             /\ request(p).to = p /\ request(p).kind = "Replication"
             /\ request(p).leader_commit_index = commit
             /\ request(p).previous = previous(p) /\ request(p).entries = entries(p)
             /\ request(p).probe_id = id(p)
  BY DEF AppendRequest
<1>3. ASSUME NEW p \in peers
      PROVE  \/ id(p) = next_append_probe_id[n]
             \/ \E probe \in ls.probes[p] :
                   id(p) = probe.id /\ previous(p) = probe.previous
                   /\ Through(previous(p), entries(p)) = probe.through
  <2>1. CASE existing(p) = {}
    BY <2>1
  <2>2. CASE existing(p) # {}
    <3>1. (CHOOSE e \in existing(p) : TRUE) \in existing(p)
      BY <2>2
    <3> QED
      BY <2>2, <3>1 DEF Existing
  <2> QED
    BY <2>1, <2>2
<1> HIDE DEF id
<1>4. ASSUME NEW p \in peers
      PROVE  SliceOf(request(p), LogPiece(s))
  <2> DEFINE i == ls.next[p] - 1
  <2>1. i \in Nat /\ i <= Len(s) /\ i + 1 <= Len(s) + 1 /\ ls.next[p] = i + 1
    <3>1. ls.next[p] \in Nat \ {0} /\ ls.next[p] <= Len(s) + 1 /\ Len(s) \in Nat
      BY DEF LeaderState, WithinLog
    <3> QED
      BY <3>1
  <2>2. previous(p) = Position(s, i) /\ entries(p) = Batch(s, i + 1, MaxAppendEntries)
    BY <2>1
  <2> HIDE DEF i
  <2>3. /\ entries(p) \in Seq(Entry) /\ i + Len(entries(p)) <= Len(s)
        /\ \A j \in 1..Len(entries(p)) : entries(p)[j] = s[i + j]
    BY <2>1, <2>2, BatchEntries
  <2> HIDE DEF previous, entries, request
  <2>4. request(p).previous = Position(s, i) /\ request(p).entries = entries(p)
    BY <1>2, <2>2
  <2>5. /\ request(p).entries \in Seq(Entry) /\ i + Len(request(p).entries) <= Len(s)
        /\ \A j \in 1..Len(request(p).entries) : request(p).entries[j] = s[i + j]
    BY <2>3, <2>4
  <2> QED
    BY <2>1, <2>4, <2>5, RequestIsSlice
<1> HIDE DEF previous, entries, request
<1> QED
  BY <1>1, <1>2, <1>3, <1>4

\* What a round of contacts sends.
LEMMA ContactSends ==
  ASSUME NEW n \in Members, NEW term \in Nat, NEW s \in Seq(Entry), NEW commit \in Nat,
         NEW ls \in LeaderState, NEW peers \in SUBSET Members, NEW id, NEW barrier,
         WithinLog(ls, Len(s))
  PROVE  /\ \A m \in Contact(n, term, s, commit, ls, peers, id, barrier) :
              /\ m.type = "AppendRequest" /\ m.from = n /\ m.term = term /\ m.to \in peers
              /\ m.kind = "Contact" /\ m.leader_commit_index = commit
              /\ SliceOf(m, LogPiece(s)) /\ m.probe_id = id
         /\ \A r, q \in Contact(n, term, s, commit, ls, peers, id, barrier) : r.to = q.to => r = q
<1> DEFINE request(p) == AppendRequest(n, p, term, "Contact", id, Position(s, ls.matched[p]), <<>>,
                                       commit, barrier)
<1>1. Contact(n, term, s, commit, ls, peers, id, barrier) = {request(p) : p \in peers}
  BY DEF Contact
<1>2. ASSUME NEW p \in peers
      PROVE  /\ request(p).type = "AppendRequest" /\ request(p).from = n /\ request(p).term = term
             /\ request(p).to = p /\ request(p).kind = "Contact"
             /\ request(p).leader_commit_index = commit
             /\ request(p).previous = Position(s, ls.matched[p]) /\ request(p).entries = <<>>
             /\ request(p).probe_id = id
  BY DEF AppendRequest
<1> HIDE DEF request
<1>3. ASSUME NEW p \in peers
      PROVE  SliceOf(request(p), LogPiece(s))
  <2>1. ls.matched[p] \in Nat /\ ls.matched[p] <= Len(s) /\ Len(s) \in Nat
    BY DEF LeaderState, WithinLog
  <2>2. <<>> \in Seq(Entry) /\ Len(<<>>) = 0
    OBVIOUS
  <2>3. ls.matched[p] + Len(request(p).entries) <= Len(s)
    BY <1>2, <2>1, <2>2
  <2>4. \A j \in 1..Len(request(p).entries) : request(p).entries[j] = s[ls.matched[p] + j]
    BY <1>2, <2>2
  <2> QED
    BY <1>2, <2>1, <2>2, <2>3, <2>4, RequestIsSlice
<1> QED
  BY <1>1, <1>2, <1>3

\* Recording a round keeps what the leader has matched.
LEMMA SentProbes ==
  ASSUME NEW ls \in LeaderState, NEW requests
  PROVE  /\ Sent(ls, requests).matched = ls.matched
         /\ \A p \in Members : \A probe \in Sent(ls, requests).probes[p] :
              \/ probe \in ls.probes[p]
              \/ \E m \in requests : /\ m.to = p /\ probe.id = m.probe_id
                                     /\ probe.previous = m.previous
                                     /\ probe.through = Through(m.previous, m.entries)
<1> DEFINE sent(p) == {ProbeOf(m) : m \in {r \in requests : r.to = p}}
           probes == [p \in Members |-> ls.probes[p] \cup sent(p)]
           latest == [p \in Members |-> IF sent(p) = {} THEN ls.latest[p]
                                        ELSE (CHOOSE probe \in sent(p) : TRUE).id]
<1>1. Sent(ls, requests) = [ls EXCEPT !.probes = probes, !.latest = latest]
  BY DEF Sent
<1> HIDE DEF probes, latest
<1>2. Sent(ls, requests).matched = ls.matched /\ Sent(ls, requests).probes = probes
  BY <1>1 DEF LeaderState
<1>3. \A p : \A probe \in sent(p) :
         \E m \in requests : /\ m.to = p /\ probe.id = m.probe_id /\ probe.previous = m.previous
                             /\ probe.through = Through(m.previous, m.entries)
  BY DEF ProbeOf
<1>4. \A p \in Members : probes[p] = ls.probes[p] \cup sent(p)
  BY DEF probes
<1> HIDE DEF sent
<1> QED
  BY <1>2, <1>3, <1>4
-----------------------------------------------------------------------------
(* Every action is a step of one of the kinds.                              *)

\* A handler that ends as a follower.
LEMMA FollowerRests ==
  ASSUME TypeOK, NEW n \in Members, FollowLeader(n), log' = log, committed' = committed,
         current_term'[n] >= current_term[n], commit_index'[n] <= commit_index[n],
         \A x \in Members : x # n => /\ current_term'[x] = current_term[x]
                                     /\ voted_for'[x] = voted_for[x]
                                     /\ commit_index'[x] = commit_index[x]
                                     /\ next_append_probe_id'[x] = next_append_probe_id[x],
         messages \subseteq messages', Answers(n)
  PROVE  LogStep(n)
<1>1. /\ role'[n] = "Follower"
      /\ \A x \in Members : x # n => role'[x] = role[x] /\ leader'[x] = leader[x]
  BY DEF FollowLeader, TypeOK, FieldTypes
<1>2. Others(n)
  BY <1>1 DEF Others
<1>3. Rests(n)
  BY <1>1 DEF Rests
<1> QED
  BY <1>2, <1>3 DEF LogStep

\* A handler that leaves role, term, log and numbers alone.
LEMMA SteadyRests ==
  ASSUME TypeOK, NEW n \in Members,
         UNCHANGED <<role, current_term, voted_for, log, commit_index, next_append_probe_id, committed>>,
         \A x \in Members : x # n => leader'[x] = leader[x],
         role[n] = "Leader" => /\ leader'[n].matched = leader[n].matched
                               /\ leader'[n].probes = leader[n].probes,
         messages \subseteq messages', Answers(n)
  PROVE  LogStep(n)
<1>1. Others(n)
  BY DEF Others
<1>2. current_term[n] \in Nat /\ commit_index[n] \in Nat
  BY DEF TypeOK, FieldTypes
<1>3. Rests(n)
  BY <1>2 DEF Rests
<1> QED
  BY <1>1, <1>3 DEF LogStep

\* Completing read barriers changes nothing else of the leader's state.
LEMMA BarriersRest ==
  ASSUME TypeOK, NEW n \in Members, role[n] = "Leader", NEW ls \in LeaderState,
         ls.matched = leader[n].matched, ls.probes = leader[n].probes,
         NEW term, NEW s, NEW commit, NEW applied,
         CompleteReadBarriers(n, term, s, commit, applied, ls)
  PROVE  /\ \A x \in Members : x # n => leader'[x] = leader[x]
         /\ leader'[n].matched = leader[n].matched
         /\ leader'[n].probes = leader[n].probes
<1>1. PICK barriers : leader' = [leader EXCEPT ![n] = [ls EXCEPT !.read_barriers = barriers]]
  BY DEF CompleteReadBarriers
<1>2. leader'[n] = [ls EXCEPT !.read_barriers = barriers]
  BY <1>1 DEF TypeOK, FieldTypes
<1> QED
  BY <1>1, <1>2 DEF TypeOK, FieldTypes, LeaderState

\* HandleVoteRequest: a refusal, or a grant to a log that is not older.
LEMMA HandleVoteRequestLog ==
  ASSUME TypeOK, NEW m \in messages, HandleVoteRequest(m.to, m)
  PROVE  LogStep(m.to)
<1> DEFINE n == m.to
           granted == PositionAtLeast(m.last_log, LastPosition(log[n])) /\ CanVote(n, m)
           vote == IF granted THEN m.from ELSE None
           reply == VoteResponse(n, m, m.term, granted)
<1>1. n \in Members /\ m.term \in Nat /\ current_term[n] \in Nat /\ commit_index[n] \in Nat
  BY MessageFields DEF TypeOK, FieldTypes
<1>2. /\ m.type = "VoteRequest"
      /\ UNCHANGED <<log, commit_index, next_append_probe_id, committed>>
  BY DEF HandleVoteRequest, counterVars
<1>3. CASE /\ Reply(m, VoteResponse(n, m, current_term[n], FALSE))
           /\ UNCHANGED <<current_term, voted_for, role, votes, leader>>
  <2>1. \A x \in messages' : x \in messages \/ (x.type = "VoteResponse" /\ ~x.granted)
    BY <1>3, ReplyStep DEF VoteResponse
  <2>2. messages \subseteq messages' /\ Answers(n)
    BY <1>3, <2>1, ReplyStep DEF Answers
  <2> HIDE DEF n
  <2> QED
    BY <1>1, <1>2, <1>3, <2>2, SteadyRests DEF n
<1>4. CASE /\ m.term > current_term[n] \/ (m.term = current_term[n] /\ granted)
           /\ SetVoteState(n, m.term, vote)
           /\ FollowLeader(n)
           /\ Reply(m, reply)
  <2>1. /\ current_term'[n] = m.term
        /\ \A x \in Members : x # n => /\ current_term'[x] = current_term[x]
                                       /\ voted_for'[x] = voted_for[x]
    BY <1>1, <1>4, SetVoteStateStep
  <2>2. /\ reply.type = "VoteResponse" /\ reply.from = n /\ reply.to = m.from
        /\ reply.term = m.term /\ reply.granted = granted
    BY DEF VoteResponse
  <2>3. granted => PositionAtLeast(m.last_log, LastPosition(log[n]))
    OBVIOUS
  <2>4. role'[n] = "Follower"
    BY <1>1, <1>4 DEF FollowLeader, TypeOK, FieldTypes
  <2> HIDE DEF reply, granted
  <2>5. messages \subseteq messages' /\ \A x \in messages' : x \in messages \/ x = reply
    BY <1>4, ReplyStep
  <2>6. Answers(n)
    BY <1>2, <2>1, <2>2, <2>3, <2>4, <2>5 DEF Answers
  <2>7. current_term'[n] >= current_term[n] /\ commit_index'[n] <= commit_index[n]
    BY <1>1, <1>2, <1>4, <2>1
  <2> HIDE DEF n, vote
  <2> QED
    BY <1>1, <1>2, <1>4, <2>1, <2>5, <2>6, <2>7, FollowerRests DEF n
<1> QED
  BY <1>3, <1>4 DEF HandleVoteRequest

\* StepDown.
LEMMA StepDownLog ==
  ASSUME TypeOK, NEW m \in messages, StepDown(m.to, m)
  PROVE  LogStep(m.to)
<1>1. m.to \in Members /\ m.term \in Nat /\ m.term > current_term[m.to]
      /\ current_term[m.to] \in Nat /\ commit_index[m.to] \in Nat
  BY MessageFields DEF TypeOK, FieldTypes, StepDown
<1>2. /\ SetVoteState(m.to, m.term, None) /\ FollowLeader(m.to) /\ messages' = messages
      /\ UNCHANGED <<log, commit_index, next_append_probe_id, committed>>
  BY DEF StepDown, counterVars
<1>3. /\ current_term'[m.to] = m.term
      /\ \A x \in Members : x # m.to => /\ current_term'[x] = current_term[x]
                                        /\ voted_for'[x] = voted_for[x]
  BY <1>1, <1>2, SetVoteStateStep
<1>4. Answers(m.to)
  BY <1>2 DEF Answers
<1>5. current_term'[m.to] >= current_term[m.to] /\ commit_index'[m.to] <= commit_index[m.to]
  BY <1>1, <1>2, <1>3
<1> QED
  BY <1>1, <1>2, <1>3, <1>4, <1>5, FollowerRests

\* An append of the same or a newer term: the term is adopted.
LEMMA AdoptTermStep ==
  ASSUME TypeOK, NEW n \in Members, NEW term \in Nat, term >= current_term[n], AdoptTerm(n, term)
  PROVE  /\ current_term'[n] = term
         /\ \A x \in Members : x # n => /\ current_term'[x] = current_term[x]
                                        /\ voted_for'[x] = voted_for[x]
<1>1. current_term[n] \in Nat
  BY DEF TypeOK, FieldTypes
<1>2. CASE term > current_term[n]
  <2>1. SetVoteState(n, term, None)
    BY <1>2 DEF AdoptTerm
  <2> QED
    BY <2>1, SetVoteStateStep
<1>3. CASE ~(term > current_term[n])
  <2>1. UNCHANGED <<current_term, voted_for>> /\ term = current_term[n]
    BY <1>1, <1>3 DEF AdoptTerm
  <2> QED
    BY <2>1
<1> QED
  BY <1>2, <1>3

\* RejectAppend.
LEMMA RejectAppendLog ==
  ASSUME TypeOK, NEW m \in messages, RejectAppend(m.to, m)
  PROVE  LogStep(m.to)
<1> DEFINE n == m.to
           reply == AppendResponse(n, m, m.term, FALSE)
<1>1. /\ n \in Members /\ m.term \in Nat /\ m.term >= current_term[n]
      /\ current_term[n] \in Nat /\ commit_index[n] \in Nat
  BY MessageFields DEF TypeOK, FieldTypes, RejectAppend
<1>2. /\ AdoptTerm(n, m.term) /\ FollowLeader(n) /\ Reply(m, reply)
      /\ UNCHANGED <<log, commit_index, next_append_probe_id, committed>>
  BY DEF RejectAppend, counterVars
<1>3. /\ current_term'[n] = m.term
      /\ \A x \in Members : x # n => /\ current_term'[x] = current_term[x]
                                     /\ voted_for'[x] = voted_for[x]
  BY <1>1, <1>2, AdoptTermStep
<1>4. reply.type = "AppendResponse" /\ ~reply.accepted
  BY DEF AppendResponse
<1> HIDE DEF reply
<1>5. messages \subseteq messages' /\ Answers(n)
  BY <1>2, <1>4, ReplyStep DEF Answers
<1>6. current_term'[n] >= current_term[n] /\ commit_index'[n] <= commit_index[n]
  BY <1>1, <1>2, <1>3
<1> HIDE DEF n
<1> QED
  BY <1>1, <1>2, <1>3, <1>5, <1>6, FollowerRests DEF n

\* RejectStaleAppend.
LEMMA RejectStaleAppendLog ==
  ASSUME TypeOK, NEW m \in messages, RejectStaleAppend(m.to, m)
  PROVE  LogStep(m.to)
<1> DEFINE n == m.to
           reply == AppendResponse(n, m, current_term[n], FALSE)
<1>1. n \in Members
  BY MessageFields DEF TypeOK, FieldTypes
<1>2. /\ Reply(m, reply)
      /\ UNCHANGED <<role, current_term, voted_for, log, leader, commit_index,
                     next_append_probe_id, committed>>
  BY DEF RejectStaleAppend, durableVars, counterVars
<1>3. reply.type = "AppendResponse" /\ ~reply.accepted
  BY DEF AppendResponse
<1> HIDE DEF reply
<1>4. messages \subseteq messages' /\ Answers(n)
  BY <1>2, <1>3, ReplyStep DEF Answers
<1> HIDE DEF n
<1> QED
  BY <1>1, <1>2, <1>4, SteadyRests DEF n

\* Restart.
LEMMA RestartLog ==
  ASSUME TypeOK, NEW n \in Members, Restart(n)
  PROVE  LogStep(n)
<1>1. /\ FollowLeader(n) /\ UNCHANGED <<current_term, voted_for, log, messages, committed>>
      /\ commit_index' = [commit_index EXCEPT ![n] = applied_index[n]]
      /\ next_append_probe_id' = [next_append_probe_id EXCEPT ![n] = 1]
  BY DEF Restart, durableVars
<1>2. /\ commit_index'[n] = applied_index[n]
      /\ \A x \in Members : x # n => /\ commit_index'[x] = commit_index[x]
                                     /\ next_append_probe_id'[x] = next_append_probe_id[x]
  BY <1>1 DEF TypeOK, FieldTypes
<1>3. current_term'[n] >= current_term[n] /\ commit_index'[n] <= commit_index[n]
  BY <1>1, <1>2 DEF TypeOK, FieldTypes
<1>4. Answers(n)
  BY <1>1 DEF Answers
<1> QED
  BY <1>1, <1>2, <1>3, <1>4, FollowerRests

\* AppliedThrough.
LEMMA AppliedThroughLog ==
  ASSUME TypeOK, NEW n \in Members, AppliedThrough(n)
  PROVE  LogStep(n)
<1>1. UNCHANGED <<role, current_term, voted_for, log, commit_index, next_append_probe_id, messages,
                  committed>>
  BY DEF AppliedThrough, counterVars
<1>2. Answers(n)
  BY <1>1 DEF Answers
<1>3. CASE role[n] = "Leader"
  <2>1. leader[n] \in LeaderState
    BY <1>3 DEF TypeOK, LeaderTyped
  <2>2. CompleteReadBarriers(n, current_term[n], log[n], commit_index[n], applied_index[n] + 1, leader[n])
    BY <1>3 DEF AppliedThrough
  <2> QED
    BY <1>1, <1>2, <1>3, <2>1, <2>2, BarriersRest, SteadyRests
<1>4. CASE role[n] # "Leader"
  <2>1. UNCHANGED leader
    BY <1>4 DEF AppliedThrough
  <2> QED
    BY <1>1, <1>2, <1>4, <2>1, SteadyRests
<1> QED
  BY <1>3, <1>4

\* CancelReadBarrier.
LEMMA CancelReadBarrierLog ==
  ASSUME TypeOK, NEW n \in Members, NEW b \in ReadBarrierId, CancelReadBarrier(n, b)
  PROVE  LogStep(n)
<1>1. /\ role[n] = "Leader"
      /\ UNCHANGED <<role, current_term, voted_for, log, commit_index, next_append_probe_id, messages,
                     committed>>
      /\ leader' = [leader EXCEPT ![n].read_barriers[b] = None]
  BY DEF CancelReadBarrier, counterVars, durableVars
<1>2. Answers(n)
  BY <1>1 DEF Answers
<1>3. leader[n] \in LeaderState
  BY <1>1 DEF TypeOK, LeaderTyped
<1>4. /\ leader'[n].matched = leader[n].matched /\ leader'[n].probes = leader[n].probes
      /\ \A x \in Members : x # n => leader'[x] = leader[x]
  BY <1>1, <1>3 DEF TypeOK, FieldTypes, LeaderState
<1> QED
  BY <1>1, <1>2, <1>4, SteadyRests

\* HandleContactResponse.
LEMMA HandleContactResponseLog ==
  ASSUME TypeOK, NEW m \in messages, HandleContactResponse(m.to, m)
  PROVE  LogStep(m.to)
<1> DEFINE n == m.to
<1>1. n \in Members
  BY MessageFields DEF TypeOK, FieldTypes
<1>2. /\ role[n] = "Leader"
      /\ UNCHANGED <<role, current_term, voted_for, log, commit_index, next_append_probe_id, messages,
                     committed>>
  BY DEF HandleContactResponse, counterVars, durableVars
<1>3. leader[n] \in LeaderState
  BY <1>1, <1>2 DEF TypeOK, LeaderTyped
<1>4. PICK barriers :
        leader' = [leader EXCEPT ![n] = [leader[n] EXCEPT !.read_barriers = barriers]]
  <2>1. PICK acknowledged :
          CompleteReadBarriers(n, current_term[n], log[n], commit_index[n], applied_index[n],
                               [leader[n] EXCEPT !.read_barriers = acknowledged])
    BY DEF HandleContactResponse
  <2>2. PICK barriers :
          leader' = [leader EXCEPT ![n] =
                       [[leader[n] EXCEPT !.read_barriers = acknowledged] EXCEPT !.read_barriers = barriers]]
    BY <2>1 DEF CompleteReadBarriers
  <2>3. [[leader[n] EXCEPT !.read_barriers = acknowledged] EXCEPT !.read_barriers = barriers]
          = [leader[n] EXCEPT !.read_barriers = barriers]
    BY <1>3 DEF LeaderState
  <2> QED
    BY <2>2, <2>3
<1>5. /\ leader'[n].matched = leader[n].matched /\ leader'[n].probes = leader[n].probes
      /\ \A x \in Members : x # n => leader'[x] = leader[x]
  BY <1>1, <1>3, <1>4 DEF TypeOK, FieldTypes, LeaderState
<1>6. Answers(n)
  BY <1>2 DEF Answers
<1> HIDE DEF n
<1> QED
  BY <1>1, <1>2, <1>5, <1>6, SteadyRests DEF n

\* The numbers of a replication round.
LEMMA RoundNumbers ==
  ASSUME TypeOK, NEW n \in Members, NEW requests, NEW k \in Nat,
         NumberRounds(n, ReplicationRound(n, requests) + k)
  PROVE  /\ next_append_probe_id'[n] >= next_append_probe_id[n]
         /\ \A m \in requests : m.probe_id = next_append_probe_id[n] =>
               m.probe_id < next_append_probe_id'[n]
         /\ \A x \in Members : x # n => next_append_probe_id'[x] = next_append_probe_id[x]
<1>1. next_append_probe_id[n] \in Nat
  BY DEF TypeOK, FieldTypes
<1>2. /\ next_append_probe_id'[n] = next_append_probe_id[n] + (ReplicationRound(n, requests) + k)
      /\ \A x \in Members : x # n => next_append_probe_id'[x] = next_append_probe_id[x]
  BY DEF NumberRounds, TypeOK, FieldTypes
<1>3. ReplicationRound(n, requests) \in {0, 1}
  BY DEF ReplicationRound
<1>4. (\E m \in requests : m.probe_id = next_append_probe_id[n]) => ReplicationRound(n, requests) = 1
  BY DEF ReplicationRound
<1> QED
  BY <1>1, <1>2, <1>3, <1>4

\* n sends requests, a replication round over its log s, and records it in ls.
RoundTaken(n, term, s, commit, ls, peers, requests) ==
  /\ WithinLog(ls, Len(s))
  /\ current_term'[n] = term /\ log'[n] = s /\ commit <= commit_index'[n]
  /\ requests = Replicate(n, term, s, commit, ls, peers)
  /\ \A m \in requests : m.probe_id = next_append_probe_id[n] =>
        m.probe_id < next_append_probe_id'[n]
  /\ requests \subseteq messages' /\ leader'[n] = Sent(ls, requests)
  /\ \A p \in Members : \A probe \in ls.probes[p] :
        role[n] = "Leader" /\ probe \in leader[n].probes[p]

\* What such a round leaves behind.
RoundLeaves(n, ls, requests) ==
  /\ \A m \in requests : SentBy(n, m) /\ Numbered(n, m)
  /\ \A r, q \in requests : r.to = q.to => r = q
  /\ Probes(n) /\ leader'[n].matched = ls.matched

\* A replication round of n, recorded and sent.
LEMMA RoundSends ==
  ASSUME TypeOK, NEW n \in Members, NEW s \in Seq(Entry), NEW commit \in Nat,
         NEW ls \in LeaderState, NEW peers \in SUBSET Members, NEW term \in Nat, NEW requests,
         RoundTaken(n, term, s, commit, ls, peers, requests)
  PROVE  RoundLeaves(n, ls, requests)
<1> USE DEF RoundTaken
<1>1. next_append_probe_id[n] \in Nat
  BY DEF TypeOK, FieldTypes
<1>2. /\ \A m \in requests :
              /\ m.type = "AppendRequest" /\ m.from = n /\ m.term = term /\ m.to \in peers
              /\ m.kind = "Replication" /\ m.leader_commit_index = commit
              /\ SliceOf(m, LogPiece(s))
              /\ \/ m.probe_id = next_append_probe_id[n]
                 \/ \E probe \in ls.probes[m.to] :
                       /\ m.probe_id = probe.id /\ m.previous = probe.previous
                       /\ Through(m.previous, m.entries) = probe.through
      /\ \A r, q \in requests : r.to = q.to => r = q
  BY <1>1, ReplicateSends
<1>3. \A m \in requests : SentBy(n, m)
  BY <1>2 DEF SentBy
<1>4. \A m \in requests : Numbered(n, m)
  <2> SUFFICES ASSUME NEW m \in requests PROVE Numbered(n, m)
    OBVIOUS
  <2>1. CASE m.probe_id = next_append_probe_id[n]
    BY <2>1 DEF Numbered
  <2>2. CASE \E probe \in ls.probes[m.to] :
                /\ m.probe_id = probe.id /\ m.previous = probe.previous
                /\ Through(m.previous, m.entries) = probe.through
    BY <1>2, <2>2 DEF Numbered
  <2> QED
    BY <1>2, <2>1, <2>2
<1>5. Probes(n) /\ leader'[n].matched = ls.matched
  <2>1. leader'[n].matched = ls.matched
    BY SentProbes
  <2> SUFFICES ASSUME NEW p \in Members, NEW probe \in leader'[n].probes[p]
               PROVE  \/ role[n] = "Leader" /\ probe \in leader[n].probes[p]
                      \/ \E r \in Requests' : IsProbe(n, p, probe, r)'
    BY <2>1 DEF Probes
  <2>2. \/ probe \in ls.probes[p]
        \/ \E m \in requests : /\ m.to = p /\ probe.id = m.probe_id /\ probe.previous = m.previous
                               /\ probe.through = Through(m.previous, m.entries)
    BY SentProbes
  <2>3. CASE probe \in ls.probes[p]
    BY <2>3
  <2>4. ASSUME NEW m \in requests, m.to = p, probe.id = m.probe_id, probe.previous = m.previous,
               probe.through = Through(m.previous, m.entries)
        PROVE  m \in Requests' /\ IsProbe(n, p, probe, m)'
    BY <1>2, <2>4 DEF Requests, IsProbe
  <2> QED
    BY <2>2, <2>3, <2>4
<1> QED
  BY <1>2, <1>3, <1>4, <1>5 DEF RoundLeaves

\* become_leader.
LEMMA BecomeLeaderWins ==
  ASSUME TypeOK, NEW n \in Members, NEW term \in Nat, BecomeLeader(n, term),
         current_term'[n] = term, role[n] # "Leader",
         term > current_term[n] \/ (term = current_term[n] /\ role[n] = "Candidate"),
         UNCHANGED <<log, commit_index, committed>>,
         \A x \in Members : x # n => /\ current_term'[x] = current_term[x]
                                     /\ voted_for'[x] = voted_for[x]
  PROVE  LogStep(n)
<1> DEFINE fresh == FreshLeader(n, Len(log[n]))
           requests == Replicate(n, term, log[n], commit_index[n], fresh, Peers(n))
<1>1. /\ log[n] \in Seq(Entry) /\ Len(log[n]) \in Nat /\ commit_index[n] \in Nat
      /\ Peers(n) \in SUBSET Members
  BY DEF TypeOK, FieldTypes, Peers
<1>2. fresh \in LeaderState /\ WithinLog(fresh, Len(log[n]))
  BY <1>1, FreshLeaderType
<1>3. \A p \in Members : fresh.matched[p] = (IF p = n THEN Len(log[n]) ELSE 0) /\ fresh.probes[p] = {}
  BY DEF FreshLeader
<1>4. /\ role' = [role EXCEPT ![n] = "Leader"]
      /\ leader' = [leader EXCEPT ![n] = Sent(fresh, requests)]
      /\ messages' = messages \cup requests
      /\ NumberRounds(n, ReplicationRound(n, requests))
  BY DEF BecomeLeader, Send
<1>5. PICK rs : rs = requests
  OBVIOUS
<1>6. /\ \A m \in rs : m.probe_id = next_append_probe_id[n] =>
            m.probe_id < next_append_probe_id'[n]
      /\ \A x \in Members : x # n => next_append_probe_id'[x] = next_append_probe_id[x]
  <2>1. ReplicationRound(n, rs) \in Nat
    BY DEF ReplicationRound
  <2>2. ReplicationRound(n, rs) + 0 = ReplicationRound(n, rs)
    BY <2>1
  <2>3. NumberRounds(n, ReplicationRound(n, rs) + 0)
    BY <1>4, <1>5, <2>2
  <2> QED
    BY <2>3, RoundNumbers
<1> HIDE DEF fresh, requests
<1>7. leader'[n] = Sent(fresh, rs) /\ role'[n] = "Leader"
      /\ \A x \in Members : x # n => leader'[x] = leader[x] /\ role'[x] = role[x]
  BY <1>4, <1>5 DEF TypeOK, FieldTypes
<1>8. /\ \A m \in rs : SentBy(n, m) /\ Numbered(n, m)
      /\ \A r, q \in rs : r.to = q.to => r = q
      /\ Probes(n) /\ leader'[n].matched = fresh.matched
  <2>1. PICK s \in Seq(Entry), commit \in Nat, peers \in SUBSET Members :
          s = log[n] /\ commit = commit_index[n] /\ peers = Peers(n)
    BY <1>1
  <2>2. PICK ls \in LeaderState : ls = fresh
    BY <1>2
  <2>3. rs = Replicate(n, term, s, commit, ls, peers)
    BY <1>5, <2>1, <2>2 DEF requests
  <2>4. rs \subseteq messages'
    BY <1>4, <1>5
  <2>5. log'[n] = s /\ commit <= commit_index'[n]
    BY <2>1
  <2>6. \A p \in Members : \A probe \in ls.probes[p] :
           role[n] = "Leader" /\ probe \in leader[n].probes[p]
    BY <1>3, <2>2
  <2>7. WithinLog(ls, Len(s)) /\ leader'[n] = Sent(ls, rs)
    BY <1>2, <1>7, <2>1, <2>2
  <2>8. RoundTaken(n, term, s, commit, ls, peers, rs)
    BY <1>6, <2>3, <2>4, <2>5, <2>6, <2>7 DEF RoundTaken
  <2>9. RoundLeaves(n, ls, rs)
    BY <2>8, RoundSends
  <2> QED
    BY <2>2, <2>9 DEF RoundLeaves
<1>9. Sends(n)
  BY <1>4, <1>5, <1>8 DEF Sends
<1>10. Wins(n)
  BY <1>3, <1>7, <1>8, <1>9 DEF Wins
<1>11. Others(n)
  BY <1>6, <1>7 DEF Others
<1> QED
  BY <1>4, <1>10, <1>11 DEF LogStep

\* ElectionTimeout.
LEMMA ElectionTimeoutLog ==
  ASSUME TypeOK, NEW n \in Members, ElectionTimeout(n)
  PROVE  LogStep(n)
<1> DEFINE term == current_term[n] + 1
           requests == {[type |-> "VoteRequest", from |-> n, to |-> v, term |-> term,
                         last_log |-> LastPosition(log[n])] : v \in Voters \ {n}}
<1>1. current_term[n] \in Nat /\ term \in Nat /\ term > current_term[n] /\ SetVoteState(n, term, n)
  BY DEF TypeOK, FieldTypes, ElectionTimeout
<1>2. /\ current_term'[n] = term
      /\ \A x \in Members : x # n => /\ current_term'[x] = current_term[x]
                                     /\ voted_for'[x] = voted_for[x]
  BY <1>1, SetVoteStateStep
<1>3. UNCHANGED <<log, commit_index, committed>> /\ role[n] # "Leader"
  BY DEF ElectionTimeout
<1>4. CASE BecomeLeader(n, term)
  <2> HIDE DEF term
  <2> QED
    BY <1>1, <1>2, <1>3, <1>4, BecomeLeaderWins
<1>5. CASE /\ role' = [role EXCEPT ![n] = "Candidate"]
           /\ leader' = [leader EXCEPT ![n] = None]
           /\ UNCHANGED next_append_probe_id
           /\ Send(requests)
  <2>1. /\ role'[n] = "Candidate"
        /\ \A x \in Members : x # n => role'[x] = role[x] /\ leader'[x] = leader[x]
    BY <1>5 DEF TypeOK, FieldTypes
  <2>2. \A m \in requests : /\ m.type = "VoteRequest" /\ m.from = n /\ m.term = term
                            /\ m.last_log = LastPosition(log[n])
    OBVIOUS
  <2>3. messages' = messages \cup requests
    BY <1>5 DEF Send
  <2> HIDE DEF requests, term
  <2>4. Campaigns(n)
    BY <1>1, <1>2, <1>3, <2>1, <2>2, <2>3 DEF Campaigns
  <2>5. Others(n)
    BY <1>2, <1>3, <1>5, <2>1 DEF Others
  <2> QED
    BY <2>3, <2>4, <2>5 DEF LogStep
<1> QED
  BY <1>4, <1>5 DEF ElectionTimeout

\* HandleVoteResponse.
LEMMA HandleVoteResponseLog ==
  ASSUME TypeOK, NEW m \in messages, HandleVoteResponse(m.to, m)
  PROVE  LogStep(m.to)
<1> DEFINE n == m.to
<1>1. /\ n \in Members /\ m.term \in Nat /\ m.term = current_term[n] /\ role[n] = "Candidate"
      /\ UNCHANGED <<current_term, voted_for, log, commit_index, committed>>
  BY MessageFields DEF TypeOK, FieldTypes, HandleVoteResponse, durableVars
<1>2. CASE BecomeLeader(n, m.term)
  <2> HIDE DEF n
  <2> QED
    BY <1>1, <1>2, BecomeLeaderWins DEF n
<1>3. CASE UNCHANGED <<role, leader, next_append_probe_id, messages>>
  <2>1. Answers(n)
    BY <1>3 DEF Answers
  <2> HIDE DEF n
  <2> QED
    BY <1>1, <1>3, <2>1, SteadyRests DEF n
<1> QED
  BY <1>2, <1>3 DEF HandleVoteResponse

\* Entry c of s is of term t and a commit quorum has matched it.
Counted(t, s, matched, c) ==
  s[c].term = t /\ \E W \in CommitQuorums : \A v \in W : matched[v] >= c

\* advance_leader_commit: the commit index stays, or moves to an entry of the
\* term that a commit quorum has matched.
LEMMA LeaderCommitMoves ==
  ASSUME NEW t \in Nat, NEW s \in Seq(Entry), NEW commit \in Nat, commit <= Len(s), NEW matched,
         NEW c \in Nat, c = LeaderCommit(t, s, commit, matched), c # commit
  PROVE  Counted(t, s, matched, c)
<1> DEFINE candidates == {i \in commit + 1..Len(s) :
                            /\ s[i].term = t
                            /\ Satisfies(CommitQuorums, {p \in Members : matched[p] >= i})}
           result == CHOOSE i \in candidates : \A j \in candidates : j <= i
<1>1. candidates # {} /\ c = result
  BY DEF LeaderCommit
<1>2. Len(s) \in Nat /\ candidates \in SUBSET (0..Len(s))
  OBVIOUS
<1>3. \E i \in candidates : \A j \in candidates : j <= i
  <2> HIDE DEF candidates
  <2> QED BY <1>1, <1>2, MaximumExists
<1>4. c \in candidates
  BY <1>1, <1>3
<1> QED
  BY <1>4 DEF Satisfies, Counted

\* What CommitThrough does for a leader.
LEMMA LeaderCommits ==
  ASSUME TypeOK, NEW n \in Members, NEW s \in Seq(Entry), log'[n] = s, commit_index[n] <= Len(s),
         NEW matched, NEW c, c = LeaderCommit(current_term[n], s, commit_index[n], matched),
         CommitThrough(n, s, c), leader'[n].matched = matched
  PROVE  Commits(n) /\ commit_index'[n] = c
         /\ \A x \in Members : x # n => commit_index'[x] = commit_index[x]
<1>1. current_term[n] \in Nat /\ commit_index[n] \in Nat /\ Len(committed) \in Nat
  BY DEF TypeOK, FieldTypes
<1>2. /\ c \in Nat /\ commit_index[n] <= c /\ c <= Len(s)
      /\ c # commit_index[n] => /\ s[c].term = current_term[n]
                                /\ \E W \in CommitQuorums : \A v \in W : matched[v] >= c
  <2>1. PICK t \in Nat, commit \in Nat : t = current_term[n] /\ commit = commit_index[n]
    BY <1>1
  <2>2. commit <= Len(s) /\ c = LeaderCommit(t, s, commit, matched)
    BY <2>1
  <2>3. c \in Nat /\ commit <= c /\ c <= Len(s)
    BY <2>2, LeaderCommitType
  <2>4. ASSUME c # commit
        PROVE  Counted(t, s, matched, c)
    <3>1. t \in Nat /\ s \in Seq(Entry) /\ commit \in Nat /\ c \in Nat /\ c # commit
      BY <2>3, <2>4
    <3> QED
      BY ONLY <3>1, <2>2, LeaderCommitMoves
  <2> QED
    BY <2>1, <2>3, <2>4 DEF Counted
<1>3. /\ commit_index'[n] = c /\ \A x \in Members : x # n => commit_index'[x] = commit_index[x]
  BY DEF CommitThrough, TypeOK, FieldTypes
<1>4. committed' = IF c > Len(committed) THEN Prefix(s, c) ELSE committed
  BY DEF CommitThrough
<1>5. CASE c = commit_index[n]
  BY <1>1, <1>3, <1>4, <1>5 DEF Commits
<1>6. CASE c # commit_index[n]
  BY <1>1, <1>2, <1>3, <1>4, <1>6 DEF Commits
<1> QED
  BY <1>3, <1>5, <1>6

\* What an answer teaches the leader about what is matched.
LEMMA ProgressFacts ==
  ASSUME NEW ls \in LeaderState, NEW p \in Members, NEW probe \in ls.probes[p], NEW m
  PROVE  /\ \A q \in Members : Progress(ls, p, probe, m).probes[q] \subseteq ls.probes[q]
         /\ \A q \in Members : \/ Progress(ls, p, probe, m).matched[q] = ls.matched[q]
                               \/ /\ q = p /\ m.accepted
                                  /\ Progress(ls, p, probe, m).matched[q] = probe.through.index
<1> DEFINE probes == [ls.probes EXCEPT ![p] = @ \ {probe}]
           matched == Max2(ls.matched[p], probe.through.index)
           answered == [ls EXCEPT !.probes = probes]
           accepted == [answered EXCEPT !.matched[p] = matched,
                                        !.next[p] = Max2(ls.next[p], matched + 1)]
           back == Max2(ls.matched[p] + 1,
                        Min2(Min2(m.next_index_hint, probe.previous.index), ls.next[p] - 1))
           conflict == [answered EXCEPT !.next[p] = back]
<1>1. \/ Progress(ls, p, probe, m) = answered \/ Progress(ls, p, probe, m) = conflict
      \/ m.accepted /\ Progress(ls, p, probe, m) = accepted
  BY DEF Progress, LeaderState
<1>2. \A q \in Members : probes[q] \subseteq ls.probes[q]
  BY DEF LeaderState
<1>3. matched = ls.matched[p] \/ matched = probe.through.index
  BY DEF Max2
<1> HIDE DEF probes, matched, back
<1>4. /\ answered.probes = probes /\ conflict.probes = probes /\ accepted.probes = probes
      /\ answered.matched = ls.matched /\ conflict.matched = ls.matched
      /\ \A q \in Members : accepted.matched[q] = IF q = p THEN matched ELSE ls.matched[q]
  BY DEF LeaderState
<1> HIDE DEF answered, accepted, conflict
<1> QED
  BY <1>1, <1>2, <1>3, <1>4

\* HandleReplicationResponse.
LEMMA HandleReplicationResponseLog ==
  ASSUME TypeOK, NEW m \in messages, HandleReplicationResponse(m.to, m)
  PROVE  LogStep(m.to)
<1>0. PICK n \in Members, from \in Members : n = m.to /\ from = m.from
  BY MessageFields DEF TypeOK, FieldTypes
<1>1. /\ role[n] = "Leader" /\ m.type = "AppendResponse" /\ m.term = current_term[n]
      /\ UNCHANGED <<current_term, voted_for, log, role>> /\ m.next_index_hint \in Nat
  BY <1>0, MessageFields DEF TypeOK, FieldTypes, HandleReplicationResponse, durableVars
<1>2. leader[n] \in LeaderState /\ WithinLog(leader[n], Len(log[n]))
  BY <1>1 DEF TypeOK, FieldTypes, LeaderTyped
<1>3. PICK s \in Seq(Entry), t \in Nat, ci \in Nat :
        s = log[n] /\ t = current_term[n] /\ ci = commit_index[n] /\ ci <= Len(s)
  BY DEF TypeOK, FieldTypes
<1>4. PICK probe, ls, commit, peers, rs :
        /\ probe \in leader[n].probes[from]
        /\ ls = Progress(leader[n], from, probe, m)
        /\ commit = LeaderCommit(t, s, ci, ls.matched)
        /\ peers = {p \in {from} : ls.next[p] <= Len(s)}
        /\ rs = Replicate(n, t, s, commit, ls, peers)
        /\ probe.id = m.probe_id
        /\ leader' = [leader EXCEPT ![n] = Sent(ls, rs)]
        /\ CommitThrough(n, s, commit)
        /\ messages' = messages \cup rs
        /\ NumberRounds(n, ReplicationRound(n, rs))
  BY <1>0, <1>3 DEF HandleReplicationResponse, Send
<1> probe \in leader[n].probes[from]
  BY <1>4
<1>5. ls \in LeaderState /\ WithinLog(ls, Len(s))
  <2>1. PICK before \in LeaderState : before = leader[n]
    BY <1>2
  <2>2. WithinLog(before, Len(s)) /\ probe \in before.probes[from] /\ Len(s) \in Nat
        /\ ls = Progress(before, from, probe, m)
    BY <1>2, <1>3, <1>4, <2>1
  <2> QED
    BY <1>1, <2>2, ProgressType
<1>6. /\ \A q \in Members : ls.probes[q] \subseteq leader[n].probes[q]
      /\ \A q \in Members : \/ ls.matched[q] = leader[n].matched[q]
                            \/ q = from /\ m.accepted /\ ls.matched[q] = probe.through.index
  BY <1>2, <1>4, ProgressFacts
<1>7. peers \in SUBSET Members
  BY <1>4
<1>8. commit \in Nat /\ ci <= commit /\ commit <= Len(s)
  BY <1>3, <1>4, LeaderCommitType
<1>9. leader'[n] = Sent(ls, rs) /\ \A x \in Members : x # n => leader'[x] = leader[x]
  BY <1>4 DEF TypeOK, FieldTypes
<1>10. /\ next_append_probe_id'[n] >= next_append_probe_id[n]
       /\ \A r \in rs : r.probe_id = next_append_probe_id[n] =>
            r.probe_id < next_append_probe_id'[n]
       /\ \A x \in Members : x # n => next_append_probe_id'[x] = next_append_probe_id[x]
  <2>1. ReplicationRound(n, rs) \in Nat
    BY DEF ReplicationRound
  <2>2. ReplicationRound(n, rs) + 0 = ReplicationRound(n, rs)
    BY <2>1
  <2>3. NumberRounds(n, ReplicationRound(n, rs) + 0)
    BY <1>4, <2>2
  <2> QED
    BY <2>3, RoundNumbers
<1>11. leader'[n].matched = ls.matched
  BY <1>5, <1>9, SentProbes
<1>12. Commits(n) /\ commit_index'[n] = commit
       /\ \A x \in Members : x # n => commit_index'[x] = commit_index[x]
  <2>1. PICK matched : matched = ls.matched
    OBVIOUS
  <2>2. log'[n] = s /\ commit_index[n] <= Len(s) /\ leader'[n].matched = matched
        /\ commit = LeaderCommit(current_term[n], s, commit_index[n], matched)
        /\ CommitThrough(n, s, commit)
    BY <1>1, <1>3, <1>4, <1>11, <2>1
  <2> QED
    BY <2>2, LeaderCommits
<1>13. /\ \A r \in rs : SentBy(n, r) /\ Numbered(n, r)
       /\ \A r, q \in rs : r.to = q.to => r = q
       /\ Probes(n) /\ leader'[n].matched = ls.matched
  <2>1. PICK l \in LeaderState, c \in Nat, to \in SUBSET Members : l = ls /\ c = commit /\ to = peers
    BY <1>5, <1>7, <1>8
  <2>2. current_term'[n] = t /\ log'[n] = s /\ c <= commit_index'[n] /\ WithinLog(l, Len(s))
    BY <1>1, <1>3, <1>5, <1>8, <1>12, <2>1
  <2>3. rs = Replicate(n, t, s, c, l, to) /\ rs \subseteq messages' /\ leader'[n] = Sent(l, rs)
    BY <1>4, <1>9, <2>1
  <2>4. \A p \in Members : \A q \in l.probes[p] : role[n] = "Leader" /\ q \in leader[n].probes[p]
    BY <1>1, <1>6, <2>1
  <2>5. RoundTaken(n, t, s, c, l, to, rs)
    BY <1>10, <2>2, <2>3, <2>4 DEF RoundTaken
  <2>6. RoundLeaves(n, l, rs)
    BY <2>5, RoundSends
  <2> QED
    BY <2>1, <2>6 DEF RoundLeaves
<1>14. Sends(n)
  BY <1>4, <1>13 DEF Sends
<1>15. \A p \in Members : Matches(n, p)
  <2> SUFFICES ASSUME NEW p \in Members PROVE Matches(n, p)
    OBVIOUS
  <2>1. CASE ls.matched[p] = leader[n].matched[p]
    BY <1>11, <2>1 DEF Matches
  <2>2. CASE p = from /\ m.accepted /\ ls.matched[p] = probe.through.index
    <3>1. /\ probe \in leader[n].probes[p] /\ m.type = "AppendResponse" /\ m.accepted
          /\ m.from = p /\ m.to = n /\ m.term = current_term[n] /\ m.probe_id = probe.id
          /\ leader'[n].matched[p] = probe.through.index
      BY <1>0, <1>1, <1>4, <1>11, <2>2
    <3> QED
      BY <3>1 DEF Matches
  <2> QED
    BY <1>6, <2>1, <2>2
<1>16. Leads(n)
  BY <1>1, <1>10, <1>12, <1>13, <1>14, <1>15 DEF Leads
<1>17. Others(n)
  BY <1>1, <1>9, <1>10, <1>12 DEF Others
<1> QED
  BY <1>0, <1>4, <1>16, <1>17 DEF LogStep

\* Heartbeat.
LEMMA HeartbeatLog ==
  ASSUME TypeOK, NEW n \in Members, Heartbeat(n)
  PROVE  LogStep(n)
<1>1. /\ role[n] = "Leader"
      /\ UNCHANGED <<current_term, voted_for, log, role, commit_index, committed>>
  BY DEF Heartbeat, durableVars
<1>2. PICK ls \in LeaderState, s \in Seq(Entry), t \in Nat, commit \in Nat :
        /\ ls = leader[n] /\ s = log[n] /\ t = current_term[n] /\ commit = commit_index[n]
        /\ WithinLog(ls, Len(s))
  BY <1>1 DEF TypeOK, FieldTypes, LeaderTyped
<1>3. PICK peers, rs, contacts, targets :
        /\ peers = {p \in Peers(n) : ls.matched[p] < Len(s)} /\ targets = Peers(n)
        /\ rs = Replicate(n, t, s, commit, ls, peers)
        /\ contacts = Contact(n, t, s, commit, ls, targets, None, None)
        /\ leader' = [leader EXCEPT ![n] = Sent(ls, rs)]
        /\ messages' = messages \cup (rs \cup contacts)
        /\ NumberRounds(n, ReplicationRound(n, rs) + 1)
  BY <1>2 DEF Heartbeat, Send
<1>4. peers \in SUBSET Members /\ targets \in SUBSET Members
  BY <1>3 DEF Peers
<1>5. leader'[n] = Sent(ls, rs) /\ \A x \in Members : x # n => leader'[x] = leader[x]
  BY <1>3 DEF TypeOK, FieldTypes
<1>6. /\ next_append_probe_id'[n] >= next_append_probe_id[n]
      /\ \A r \in rs : r.probe_id = next_append_probe_id[n] =>
            r.probe_id < next_append_probe_id'[n]
      /\ \A x \in Members : x # n => next_append_probe_id'[x] = next_append_probe_id[x]
  BY <1>3, RoundNumbers
<1>7. /\ \A r \in rs : SentBy(n, r) /\ Numbered(n, r)
      /\ \A r, q \in rs : r.to = q.to => r = q
      /\ Probes(n) /\ leader'[n].matched = ls.matched
  <2>1. current_term'[n] = t /\ log'[n] = s /\ commit <= commit_index'[n]
    BY <1>1, <1>2
  <2>2. rs = Replicate(n, t, s, commit, ls, peers) /\ rs \subseteq messages'
    BY <1>3
  <2>3. \A p \in Members : \A q \in ls.probes[p] : role[n] = "Leader" /\ q \in leader[n].probes[p]
    BY <1>1, <1>2
  <2>4. RoundTaken(n, t, s, commit, ls, peers, rs)
    BY <1>2, <1>5, <1>6, <2>1, <2>2, <2>3 DEF RoundTaken
  <2>5. RoundLeaves(n, ls, rs)
    BY <1>2, <1>4, <2>4, RoundSends
  <2> QED
    BY <2>5 DEF RoundLeaves
<1>8. \A r \in contacts : SentBy(n, r) /\ Numbered(n, r) /\ r.probe_id = None
  <2>1. \A r \in contacts : /\ r.type = "AppendRequest" /\ r.from = n /\ r.term = t
                            /\ r.leader_commit_index = commit
                            /\ SliceOf(r, LogPiece(s)) /\ r.probe_id = None
    BY <1>2, <1>3, <1>4, ContactSends
  <2> QED
    BY <1>1, <1>2, <2>1 DEF SentBy, Numbered
<1>9. Sends(n)
  <2>1. \A r \in messages' : r \in messages \/ (SentBy(n, r) /\ Numbered(n, r))
    BY <1>3, <1>7, <1>8
  <2>2. \A r, q \in messages' :
           r \notin messages /\ q \notin messages /\ r.to = q.to /\ r.probe_id = q.probe_id
             /\ r.probe_id # None => r = q
    BY <1>3, <1>7, <1>8
  <2> QED
    BY <2>1, <2>2 DEF Sends
<1>10. \A p \in Members : Matches(n, p)
  BY <1>2, <1>7 DEF Matches
<1>11. Commits(n)
  BY <1>1 DEF Commits
<1>12. Leads(n)
  BY <1>1, <1>6, <1>7, <1>9, <1>10, <1>11 DEF Leads
<1>13. Others(n)
  BY <1>1, <1>5, <1>6 DEF Others
<1> QED
  BY <1>3, <1>12, <1>13 DEF LogStep

\* Propose and ConfirmTerm.
LEMMA Append1Log ==
  ASSUME TypeOK, NEW n \in Members, NEW command \in Commands \cup {TermConfirmation},
         Append1(n, command)
  PROVE  LogStep(n)
<1>1. role[n] = "Leader" /\ UNCHANGED <<current_term, voted_for, role>>
  BY DEF Append1
<1>2. PICK old \in LeaderState, b \in Seq(Entry), t \in Nat, ci \in Nat :
        /\ old = leader[n] /\ b = log[n] /\ t = current_term[n] /\ ci = commit_index[n]
        /\ WithinLog(old, Len(b)) /\ ci <= Len(b)
  BY <1>1 DEF TypeOK, FieldTypes, LeaderTyped
<1>3. PICK e \in Entry : e = [term |-> t, command |-> command]
  BY DEF Entry
<1>4. PICK s \in Seq(Entry), index \in Nat :
        /\ index = Len(b) + 1 /\ s = Append(b, e) /\ Len(s) = index
  <2>1. Append(b, e) \in Seq(Entry) /\ Len(Append(b, e)) = Len(b) + 1 /\ Len(b) + 1 \in Nat
    BY AppendFacts
  <2> QED
    BY <2>1
<1>5. PICK ls, rs, commit, peers :
        /\ ls = [old EXCEPT !.matched[n] = index, !.next[n] = index + 1]
        /\ peers = Peers(n)
        /\ rs = Replicate(n, t, s, ci, ls, peers)
        /\ commit = LeaderCommit(t, s, ci, ls.matched)
        /\ log' = [log EXCEPT ![n] = s]
        /\ leader' = [leader EXCEPT ![n] = Sent(ls, rs)]
        /\ messages' = messages \cup rs
        /\ NumberRounds(n, ReplicationRound(n, rs))
        /\ CommitThrough(n, s, commit)
  BY <1>2, <1>3, <1>4 DEF Append1, Send
<1>6. /\ [old.matched EXCEPT ![n] = index] \in [Members -> Nat]
      /\ [old.next EXCEPT ![n] = index + 1] \in [Members -> Nat \ {0}]
  BY DEF LeaderState
<1>7. ls \in LeaderState
  BY <1>5, <1>6 DEF LeaderState
<1>8. /\ ls.probes = old.probes
      /\ \A p \in Members : /\ ls.matched[p] = IF p = n THEN index ELSE old.matched[p]
                            /\ ls.next[p] = IF p = n THEN index + 1 ELSE old.next[p]
  BY <1>5 DEF LeaderState
<1>9. WithinLog(ls, Len(s))
  <2>1. \A p \in Members : /\ old.matched[p] \in Nat /\ old.next[p] \in Nat
                           /\ \A probe \in old.probes[p] : probe \in Probe
    BY DEF LeaderState
  <2>2. Len(b) \in Nat /\ Len(s) = Len(b) + 1 /\ index = Len(b) + 1
    BY <1>4
  <2>3. \A p \in Members : ls.matched[p] <= Len(s) /\ ls.next[p] <= Len(s) + 1
    BY <1>2, <1>8, <2>1, <2>2 DEF WithinLog
  <2>4. \A p \in Members : \A probe \in ls.probes[p] :
           probe.previous.index <= Len(s) /\ probe.through.index <= Len(s)
    BY <1>2, <1>8, <2>1, <2>2 DEF WithinLog, Probe, LogPosition
  <2> QED
    BY <2>3, <2>4 DEF WithinLog
<1>10. /\ leader'[n] = Sent(ls, rs) /\ log'[n] = s
       /\ \A x \in Members : x # n => leader'[x] = leader[x] /\ log'[x] = log[x]
  BY <1>5 DEF TypeOK, FieldTypes
<1>11. leader'[n].matched = ls.matched
  BY <1>7, <1>10, SentProbes
<1>12. commit \in Nat /\ ci <= commit /\ commit <= Len(s) /\ ci <= Len(s)
  <2>1. ci <= Len(s)
    BY <1>2, <1>4
  <2> QED
    BY <1>5, <2>1, LeaderCommitType
<1>13. Commits(n) /\ commit_index'[n] = commit
       /\ \A x \in Members : x # n => commit_index'[x] = commit_index[x]
  <2>1. PICK matched : matched = ls.matched
    OBVIOUS
  <2>2. /\ TypeOK /\ n \in Members /\ s \in Seq(Entry)
        /\ log'[n] = s /\ commit_index[n] <= Len(s) /\ leader'[n].matched = matched
        /\ commit = LeaderCommit(current_term[n], s, commit_index[n], matched)
        /\ CommitThrough(n, s, commit)
    BY <1>2, <1>5, <1>10, <1>11, <1>12, <2>1
  <2> QED
    BY ONLY <2>2, LeaderCommits
<1>14. /\ next_append_probe_id'[n] >= next_append_probe_id[n]
       /\ \A r \in rs : r.probe_id = next_append_probe_id[n] =>
            r.probe_id < next_append_probe_id'[n]
       /\ \A x \in Members : x # n => next_append_probe_id'[x] = next_append_probe_id[x]
  <2>1. ReplicationRound(n, rs) \in Nat
    BY DEF ReplicationRound
  <2>2. ReplicationRound(n, rs) + 0 = ReplicationRound(n, rs)
    BY <2>1
  <2>3. NumberRounds(n, ReplicationRound(n, rs) + 0)
    BY <1>5, <2>2
  <2> QED
    BY <2>3, RoundNumbers
<1>15. /\ \A r \in rs : SentBy(n, r) /\ Numbered(n, r)
       /\ \A r, q \in rs : r.to = q.to => r = q
       /\ Probes(n)
  <2>1. PICK to \in SUBSET Members : to = peers
    BY <1>5 DEF Peers
  <2>2. current_term'[n] = t /\ log'[n] = s /\ ci <= commit_index'[n]
    BY <1>1, <1>2, <1>10, <1>12, <1>13
  <2>3. rs = Replicate(n, t, s, ci, ls, to) /\ rs \subseteq messages' /\ leader'[n] = Sent(ls, rs)
    BY <1>5, <1>10, <2>1
  <2>4. \A p \in Members : \A q \in ls.probes[p] : role[n] = "Leader" /\ q \in leader[n].probes[p]
    BY <1>1, <1>2, <1>8
  <2>5. TypeOK /\ n \in Members /\ s \in Seq(Entry) /\ ci \in Nat /\ ls \in LeaderState
        /\ to \in SUBSET Members /\ t \in Nat
    BY <1>7
  <2>6. RoundTaken(n, t, s, ci, ls, to, rs)
    BY <1>9, <1>14, <2>2, <2>3, <2>4 DEF RoundTaken
  <2>7. RoundLeaves(n, ls, rs)
    BY <2>5, <2>6, RoundSends
  <2> QED
    BY <2>7 DEF RoundLeaves
<1>16. Sends(n)
  BY <1>5, <1>15 DEF Sends
<1>17. \A p \in Members : Matches(n, p)
  BY <1>2, <1>4, <1>8, <1>10, <1>11 DEF Matches
<1>18. \E f \in Entry : f.term = current_term[n] /\ log'[n] = Append(log[n], f)
  BY <1>2, <1>3, <1>4, <1>10
<1>19. Leads(n)
  BY <1>1, <1>13, <1>14, <1>15, <1>16, <1>17, <1>18 DEF Leads
<1>20. Others(n)
  BY <1>1, <1>10, <1>13, <1>14 DEF Others
<1> QED
  BY <1>5, <1>19, <1>20 DEF LogStep

\* BeginReadBarrier.
LEMMA BeginReadBarrierLog ==
  ASSUME TypeOK, NEW n \in Members, BeginReadBarrier(n)
  PROVE  LogStep(n)
<1>1. /\ role[n] = "Leader"
      /\ UNCHANGED <<current_term, voted_for, log, role, commit_index, committed>>
  BY DEF BeginReadBarrier, durableVars
<1>2. PICK old \in LeaderState, s \in Seq(Entry), t \in Nat, commit \in Nat, id \in Nat :
        /\ old = leader[n] /\ s = log[n] /\ t = current_term[n] /\ commit = commit_index[n]
        /\ WithinLog(old, Len(s)) /\ id = next_append_probe_id[n]
  BY <1>1 DEF TypeOK, FieldTypes, LeaderTyped
<1>3. PICK b, barrier, ls :
        /\ ls = [old EXCEPT !.read_barriers[b] = barrier]
        /\ \/ /\ CompleteReadBarriers(n, current_term[n], log[n], commit_index[n], applied_index[n], ls)
              /\ UNCHANGED <<next_append_probe_id, messages>>
           \/ /\ leader' = [leader EXCEPT ![n] = ls]
              /\ Send(Contact(n, t, s, commit, ls, Peers(n), id, b))
              /\ NumberRounds(n, 1)
  BY <1>2 DEF BeginReadBarrier
<1>4. ls.matched = old.matched /\ ls.probes = old.probes /\ ls.next = old.next
  BY <1>3 DEF LeaderState
<1>5. CASE /\ CompleteReadBarriers(n, current_term[n], log[n], commit_index[n], applied_index[n], ls)
           /\ UNCHANGED <<next_append_probe_id, messages>>
  <2>1. PICK barriers : leader' = [leader EXCEPT ![n] = [ls EXCEPT !.read_barriers = barriers]]
    BY <1>5 DEF CompleteReadBarriers
  <2>2. leader'[n] = [ls EXCEPT !.read_barriers = barriers]
        /\ \A x \in Members : x # n => leader'[x] = leader[x]
    BY <2>1 DEF TypeOK, FieldTypes
  <2>3. [ls EXCEPT !.read_barriers = barriers] = [old EXCEPT !.read_barriers = barriers]
    BY <1>3 DEF LeaderState
  <2>4. leader'[n].matched = leader[n].matched /\ leader'[n].probes = leader[n].probes
    BY <1>2, <2>2, <2>3 DEF LeaderState
  <2>5. Answers(n)
    BY <1>5 DEF Answers
  <2> QED
    BY <1>1, <1>5, <2>2, <2>4, <2>5, SteadyRests
<1>6. CASE /\ leader' = [leader EXCEPT ![n] = ls]
           /\ Send(Contact(n, t, s, commit, ls, Peers(n), id, b))
           /\ NumberRounds(n, 1)
  <2>1. leader'[n] = ls /\ \A x \in Members : x # n => leader'[x] = leader[x]
    BY <1>6 DEF TypeOK, FieldTypes
  <2>2. /\ next_append_probe_id'[n] = id + 1
        /\ \A x \in Members : x # n => next_append_probe_id'[x] = next_append_probe_id[x]
    BY <1>2, <1>6 DEF NumberRounds, TypeOK, FieldTypes
  <2>2a. PICK rs : rs = Contact(n, t, s, commit, old, Peers(n), id, b)
    OBVIOUS
  <2>3. PICK targets \in SUBSET Members :
          /\ targets = Peers(n) /\ rs = Contact(n, t, s, commit, old, targets, id, b)
          /\ messages' = messages \cup rs
    <3>1. Peers(n) \in SUBSET Members
      BY DEF Peers
    <3>2. Contact(n, t, s, commit, ls, Peers(n), id, b) = Contact(n, t, s, commit, old, Peers(n), id, b)
      BY <1>4 DEF Contact
    <3>3. messages' = messages \cup Contact(n, t, s, commit, old, Peers(n), id, b)
      BY <1>6, <3>2 DEF Send
    <3> QED
      BY <2>2a, <3>1, <3>3
  <2>4. /\ \A r \in rs : /\ r.type = "AppendRequest" /\ r.from = n /\ r.term = t
                         /\ r.leader_commit_index = commit
                         /\ SliceOf(r, LogPiece(s)) /\ r.probe_id = id
        /\ \A r, q \in rs : r.to = q.to => r = q
    BY <1>2, <2>3, ContactSends
  <2>5. \A r \in rs : SentBy(n, r) /\ Numbered(n, r)
    BY <1>1, <1>2, <2>2, <2>4 DEF SentBy, Numbered
  <2>6. Sends(n)
    BY <2>3, <2>4, <2>5 DEF Sends
  <2>7. Probes(n) /\ \A p \in Members : Matches(n, p)
    BY <1>1, <1>2, <1>4, <2>1 DEF Probes, Matches
  <2>8. Commits(n)
    BY <1>1 DEF Commits
  <2>9. Leads(n)
    BY <1>1, <1>2, <2>2, <2>6, <2>7, <2>8 DEF Leads
  <2>10. Others(n)
    BY <1>1, <2>1, <2>2 DEF Others
  <2> QED
    BY <2>3, <2>9, <2>10 DEF LogStep
<1> QED
  BY <1>3, <1>5, <1>6

\* AcceptAppend.
LEMMA AcceptAppendLog ==
  ASSUME TypeOK, NEW m \in messages, AcceptAppend(m.to, m)
  PROVE  LogStep(m.to)
<1>0. PICK n \in Members : n = m.to
  BY MessageFields DEF TypeOK, FieldTypes
<1>1. /\ m.type = "AppendRequest" /\ m.term \in Nat /\ m.term >= current_term[n]
      /\ PositionMatches(log[n], m.previous) /\ AdoptTerm(n, m.term) /\ FollowLeader(n)
      /\ UNCHANGED next_append_probe_id
  BY <1>0, MessageFields DEF TypeOK, FieldTypes, AcceptAppend, counterVars
<1>2. PICK d, c, reply :
        /\ d = AppendDelta(log[n], m.previous.index, m.entries)
        /\ log' = [log EXCEPT ![n] = d]
        /\ c = Max2(commit_index[n], FollowerCommit(m, d))
        /\ CommitThrough(n, d, c)
        /\ reply = AppendResponse(n, m, m.term, TRUE) /\ Reply(m, reply)
  BY <1>0 DEF AcceptAppend
<1>3. /\ current_term'[n] = m.term
      /\ \A x \in Members : x # n => /\ current_term'[x] = current_term[x]
                                     /\ voted_for'[x] = voted_for[x]
  BY <1>1, AdoptTermStep
<1>4. /\ log'[n] = d /\ role'[n] = "Follower" /\ commit_index'[n] = c
      /\ \A x \in Members : x # n => /\ log'[x] = log[x] /\ role'[x] = role[x]
                                     /\ leader'[x] = leader[x] /\ commit_index'[x] = commit_index[x]
  BY <1>1, <1>2 DEF FollowLeader, CommitThrough, TypeOK, FieldTypes
<1>5. committed' = IF c > Len(committed) THEN Prefix(d, c) ELSE committed
  BY <1>2 DEF CommitThrough
<1>6. /\ messages \subseteq messages' /\ \A a \in messages' : a \in messages \/ a = reply
      /\ Inert(m, reply) => messages' = messages
  BY <1>2, ReplyStep DEF Reply, Send
<1>7. /\ reply.type = "AppendResponse" /\ reply.accepted /\ reply.from = m.to /\ reply.to = m.from
      /\ reply.term = m.term /\ reply.probe_id = m.probe_id
  BY <1>0, <1>2 DEF AppendResponse
<1>8. reply.probe_id = None => Inert(m, reply)
  BY <1>1, <1>7 DEF Inert
<1>9. \A a \in messages' : a \in messages \/ (Accepts(a, m) /\ a.probe_id # None)
  BY <1>6, <1>7, <1>8 DEF Accepts
<1>10. Follows(n, m)
  BY <1>0, <1>1, <1>2, <1>3, <1>4, <1>5, <1>9 DEF Follows
<1>11. Others(n)
  BY <1>1, <1>3, <1>4 DEF Others
<1>12. m \in Requests
  BY <1>1 DEF Requests
<1> QED
  BY <1>0, <1>6, <1>10, <1>11, <1>12 DEF LogStep

\* Every step leaves everything alone or is a step of one of the kinds.
LEMMA NextLog ==
  ASSUME TypeOK, [Next]_vars
  PROVE  UNCHANGED vars \/ \E n \in Members : LogStep(n)
<1>1. CASE UNCHANGED vars
  BY <1>1
<1>2. CASE Next
  <2>1. \A m \in messages : m.to \in Members
    BY MessageFields DEF TypeOK, FieldTypes
  <2>2. CASE \E n \in Members : \/ ElectionTimeout(n) \/ Heartbeat(n) \/ ConfirmTerm(n)
                                \/ AppliedThrough(n) \/ BeginReadBarrier(n) \/ Restart(n)
                                \/ \E c \in Commands : Propose(n, c)
                                \/ \E b \in ReadBarrierId : CancelReadBarrier(n, b)
    BY <2>2, ElectionTimeoutLog, HeartbeatLog, Append1Log, AppliedThroughLog, BeginReadBarrierLog,
       RestartLog, CancelReadBarrierLog DEF Propose, ConfirmTerm
  <2>3. CASE \E m \in messages : \/ HandleVoteRequest(m.to, m) \/ HandleVoteResponse(m.to, m)
                                 \/ StepDown(m.to, m) \/ RejectStaleAppend(m.to, m)
                                 \/ RejectAppend(m.to, m)
    BY <2>1, <2>3, HandleVoteRequestLog, HandleVoteResponseLog, StepDownLog, RejectStaleAppendLog,
       RejectAppendLog
  <2>4. CASE \E m \in messages : \/ AcceptAppend(m.to, m) \/ HandleContactResponse(m.to, m)
                                 \/ HandleReplicationResponse(m.to, m)
    BY <2>1, <2>4, AcceptAppendLog, HandleContactResponseLog, HandleReplicationResponseLog
  <2> QED
    BY <1>2, <2>2, <2>3, <2>4 DEF Next
<1> QED
  BY <1>1, <1>2
-----------------------------------------------------------------------------
(* Facts of one state.  Each is a predicate of its own, so that it holds    *)
(* after a step as well as before it.                                       *)

\* The types of what a member keeps.
LogsAreTyped ==
  /\ committed \in Seq(Entry) /\ IsPiece(LogPiece(committed)) /\ LogPiece(committed) \in Pieces
  /\ \A x \in Members : /\ log[x] \in Seq(Entry) /\ Len(log[x]) \in Nat /\ current_term[x] \in Nat
                        /\ IsPiece(LogPiece(log[x])) /\ LogPiece(log[x]) \in Pieces
                        /\ commit_index[x] \in Nat /\ commit_index[x] <= Len(log[x])
                        /\ next_append_probe_id[x] \in Nat

\* The types of an append request's fields.
RequestsAreTyped ==
  \A m \in Requests : /\ m \in messages /\ m \in Pieces /\ IsPiece(m) /\ m.from \in Members
                      /\ m.to \in Members /\ m.term \in Nat /\ m.leader_commit_index \in Nat
                      /\ m.probe_id \in Nat \cup {None}
                      /\ Through(m.previous, m.entries).index = End(m)

\* The types all pieces have.
PiecesAreTyped == LogsAreTyped /\ RequestsAreTyped /\ \A P \in Pieces : IsPiece(P)

\* The position a request proves is the end of the request.
LEMMA ThroughIsEnd ==
  ASSUME NEW m, IsPiece(m)
  PROVE  Through(m.previous, m.entries).index = End(m)
<1>1. m.previous.index \in Nat /\ m.entries \in Seq(Entry)
  BY DEF IsPiece, LogPosition
<1>2. CASE m.entries = <<>>
  BY <1>1, <1>2 DEF Through, End
<1>3. CASE m.entries # <<>>
  BY <1>1, <1>3 DEF Through, End
<1> QED
  BY <1>2, <1>3

\* The pieces are typed.
LEMMA PiecesTyped == TypeOK => PiecesAreTyped
<1> SUFFICES ASSUME TypeOK PROVE PiecesAreTyped
  OBVIOUS
<1>1. LogsAreTyped
  <2>1. /\ committed \in Seq(Entry)
        /\ \A x \in Members : /\ log[x] \in Seq(Entry) /\ Len(log[x]) \in Nat /\ current_term[x] \in Nat
                              /\ commit_index[x] \in Nat /\ commit_index[x] <= Len(log[x])
                              /\ next_append_probe_id[x] \in Nat
    BY DEF TypeOK, FieldTypes
  <2> QED
    BY <2>1, LogPieceFacts DEF LogsAreTyped, Pieces
<1>2. RequestsAreTyped
  <2> SUFFICES ASSUME NEW m \in Requests
               PROVE  /\ m \in messages /\ m \in Pieces /\ IsPiece(m) /\ m.from \in Members
                      /\ m.to \in Members /\ m.term \in Nat /\ m.leader_commit_index \in Nat
                      /\ m.probe_id \in Nat \cup {None}
                      /\ Through(m.previous, m.entries).index = End(m)
    BY DEF RequestsAreTyped
  <2>1. m \in messages /\ m \in Message /\ m.type = "AppendRequest"
    BY DEF Requests, TypeOK, FieldTypes
  <2>2. /\ m.from \in Members /\ m.to \in Members /\ m.term \in Nat /\ m.leader_commit_index \in Nat
        /\ m.previous \in LogPosition /\ m.entries \in Seq(Entry) /\ m.probe_id \in Nat \cup {None}
    BY <2>1, MessageFields
  <2>3. IsPiece(m)
    BY <2>2 DEF IsPiece
  <2> QED
    BY <2>1, <2>2, <2>3, ThroughIsEnd DEF Pieces
<1> QED
  BY <1>1, <1>2 DEF PiecesAreTyped, LogsAreTyped, RequestsAreTyped, Pieces

\* The same after a step.
LEMMA PiecesTypedNext == TypeOK' => PiecesAreTyped'
BY PiecesTyped, PTL

\* A leader is the origin of its term.
LeadersAreOrigins == \A n \in Members : role[n] = "Leader" => Origin(n, current_term[n])

\* A term has one origin.
OriginsAreUnique == \A c, d \in Members, t \in Nat : Origin(c, t) /\ Origin(d, t) => c = d

\* Whoever helped to elect the origin of a term has reached that term.
OriginsAreReached ==
  \A c \in Members, t \in Nat : Origin(c, t) =>
     \E Q \in ElectionQuorums : \A v \in Q : current_term[v] >= t

\* Who has granted a vote has reached its term.
GrantsAreReached == \A v, c \in Members, t \in Nat : Granted(v, t, c) => current_term[v] >= t

\* What the election invariants say about origins.
OriginFacts == LeadersAreOrigins /\ OriginsAreUnique /\ OriginsAreReached /\ GrantsAreReached

\* What the election evidence says of origins.
LEMMA OriginsFollow == TypeOK /\ ElectionEvidence => OriginFacts
<1> SUFFICES ASSUME TypeOK, ElectionEvidence PROVE OriginFacts
  OBVIOUS
<1>1. ASSUME NEW v \in Members, NEW c \in Members, NEW t, Granted(v, t, c)
      PROVE  /\ current_term[v] > t \/ (current_term[v] = t /\ voted_for[v] = c)
             /\ \A d \in Members : Granted(v, t, d) => d = c
  <2>1. \A d \in Members : Granted(v, t, d) => Voted(v, t, d)
    BY DEF Granted, Voted
  <2>2. t \in Terms
    BY <1>1, <2>1, VotedTerm
  <2> QED
    BY <1>1, <2>1, <2>2 DEF ElectionEvidence, VotesAreFinal
<1>2. LeadersAreOrigins
  <2> SUFFICES ASSUME NEW n \in Members, role[n] = "Leader" PROVE Origin(n, current_term[n])
    BY DEF LeadersAreOrigins
  <2>1. voted_for[n] = n /\ current_term[n] \in Nat
    BY DEF ElectionEvidence, BallotsAreReal, TypeOK, FieldTypes
  <2>2. PICK Q \in ElectionQuorums : \A v \in Q : Ballot(n, v)
    BY DEF ElectionEvidence, BallotsAreReal
  <2>3. \A v \in Q : v = n \/ Granted(v, current_term[n], n)
    BY <2>2 DEF Ballot, Granted
  <2>4. \A d \in Members : Granted(n, current_term[n], d) => d = n
    BY <1>1, <2>1
  <2> QED
    BY <2>1, <2>3, <2>4 DEF Origin
<1>3. OriginsAreUnique
  <2> SUFFICES ASSUME NEW c \in Members, NEW d \in Members, NEW t \in Nat, Origin(c, t), Origin(d, t)
               PROVE  c = d
    BY DEF OriginsAreUnique
  <2>1. PICK Q \in ElectionQuorums : \A v \in Q : v = c \/ Granted(v, t, c)
    BY DEF Origin
  <2>2. PICK R \in ElectionQuorums : \A v \in R : v = d \/ Granted(v, t, d)
    BY DEF Origin
  <2>3. PICK v \in Members : v \in Q /\ v \in R
    BY PlanAssumption DEF Members
  <2>4. /\ \A x \in Members : Granted(c, t, x) => x = c
        /\ \A x \in Members : Granted(d, t, x) => x = d
    BY DEF Origin
  <2> QED
    BY <1>1, <2>1, <2>2, <2>3, <2>4
<1>4. OriginsAreReached
  <2> SUFFICES ASSUME NEW c \in Members, NEW t \in Nat, Origin(c, t)
               PROVE  \E Q \in ElectionQuorums : \A v \in Q : current_term[v] >= t
    BY DEF OriginsAreReached
  <2>1. PICK Q \in ElectionQuorums : \A v \in Q : v = c \/ Granted(v, t, c)
    BY DEF Origin
  <2>2. current_term[c] >= t
    BY DEF Origin
  <2>3. \A v \in Q : v \in Members /\ current_term[v] \in Nat
    BY PlanAssumption DEF Members, TypeOK, FieldTypes
  <2> QED
    BY <1>1, <2>1, <2>2, <2>3
<1>5. GrantsAreReached
  <2>1. \A v \in Members : current_term[v] \in Nat
    BY DEF TypeOK, FieldTypes
  <2> QED
    BY <1>1, <2>1 DEF GrantsAreReached
<1> QED
  BY <1>2, <1>3, <1>4, <1>5 DEF OriginFacts

\* The same after a step.
LEMMA OriginsFollowNext == TypeOK' /\ ElectionEvidence' => OriginFacts'
BY OriginsFollow, PTL
-----------------------------------------------------------------------------
(* What every step does to terms, roles, logs and pieces.                   *)

\* A step of n, with what is known of the states around it.
SafeStep(n) ==
  /\ LogStep(n) /\ ElectionStep
  /\ PiecesAreTyped /\ PiecesAreTyped' /\ OriginFacts /\ OriginFacts'

\* n appends an entry of its term.
Extends(n) ==
  /\ role[n] = "Leader" /\ role'[n] = "Leader" /\ current_term'[n] = current_term[n]
  /\ \E e \in Entry : e.term = current_term[n] /\ log'[n] = Append(log[n], e)

\* How a log changes.
LEMMA LogChanges ==
  ASSUME NEW n \in Members, SafeStep(n)
  PROVE  /\ \A x \in Members : x # n => log'[x] = log[x]
         /\ log'[n] = log[n] \/ Extends(n) \/ \E m \in Requests : Follows(n, m)
<1>1. \A x \in Members : x # n => log'[x] = log[x]
  BY DEF SafeStep, LogStep, Others
<1>2. log'[n] = log[n] \/ Extends(n) \/ \E m \in Requests : Follows(n, m)
  BY DEF SafeStep, LogStep, Rests, Campaigns, Wins, Leads, Extends
<1> QED
  BY <1>1, <1>2

\* Terms grow.
LEMMA TermsGrow ==
  ASSUME NEW n \in Members, SafeStep(n), NEW x \in Members
  PROVE  /\ current_term[x] \in Nat /\ current_term'[x] \in Nat /\ current_term'[x] >= current_term[x]
         /\ messages \subseteq messages' /\ Requests \subseteq Requests'
<1>1. current_term[x] \in Nat /\ current_term'[x] \in Nat
  BY DEF SafeStep, PiecesAreTyped, LogsAreTyped
<1>2. messages \subseteq messages' /\ Requests \subseteq Requests'
  BY DEF SafeStep, LogStep, Requests
<1> QED
  BY <1>1, <1>2 DEF SafeStep, ElectionStep

\* A candidate that stays in its term keeps its log.
LEMMA CandidatesKeep ==
  ASSUME NEW n \in Members, SafeStep(n), NEW x \in Members, role'[x] = "Candidate",
         current_term'[x] = current_term[x]
  PROVE  role[x] = "Candidate" /\ log'[x] = log[x]
<1>1. current_term[x] \in Nat /\ current_term'[x] \in Nat
  BY TermsGrow
<1>2. CASE x # n
  BY <1>2 DEF SafeStep, LogStep, Others
<1>3. CASE x = n
  <2>1. ~Campaigns(n) /\ ~Wins(n) /\ ~Leads(n) /\ ~(\E m \in Requests : Follows(n, m))
    BY <1>1, <1>3 DEF Campaigns, Wins, Leads, Follows
  <2>2. Rests(n)
    BY <2>1 DEF SafeStep, LogStep
  <2> QED
    BY <1>3, <2>2 DEF Rests
<1> QED
  BY <1>2, <1>3

\* A leader led before the step, in the same term, or wins in it.
LEMMA LeadersLed ==
  ASSUME NEW n \in Members, SafeStep(n), NEW x \in Members, role'[x] = "Leader"
  PROVE  \/ /\ role[x] = "Leader" /\ current_term'[x] = current_term[x]
            /\ next_append_probe_id'[x] >= next_append_probe_id[x]
            /\ log'[x] = log[x] \/ (x = n /\ Extends(n))
         \/ x = n /\ Wins(n)
<1>1. next_append_probe_id[x] \in Nat
  BY DEF SafeStep, PiecesAreTyped, LogsAreTyped
<1>2. CASE x # n
  BY <1>1, <1>2 DEF SafeStep, LogStep, Others
<1>3. CASE x = n
  <2>1. ~Campaigns(n) /\ ~(\E m \in Requests : Follows(n, m))
    BY <1>3 DEF Campaigns, Follows
  <2>2. CASE Rests(n)
    BY <1>1, <1>3, <2>2 DEF Rests
  <2>3. CASE Leads(n)
    BY <1>3, <2>3 DEF Leads, Extends
  <2>4. CASE Wins(n)
    BY <1>3, <2>4
  <2> QED
    BY <2>1, <2>2, <2>3, <2>4 DEF SafeStep, LogStep
<1> QED
  BY <1>2, <1>3

\* A new append is sent by n, as leader.
LEMMA NewRequests ==
  ASSUME NEW n \in Members, SafeStep(n), NEW m \in Requests', m \notin Requests
  PROVE  /\ Wins(n) \/ Leads(n)
         /\ SentBy(n, m) /\ Numbered(n, m) /\ role'[n] = "Leader"
<1>1. m \in messages' /\ m \notin messages /\ m.type = "AppendRequest"
  BY DEF Requests
<1>2. ~Rests(n)
  BY <1>1 DEF Rests, Answers
<1>3. ~Campaigns(n)
  BY <1>1 DEF Campaigns
<1>4. ~(\E r \in Requests : Follows(n, r))
  BY <1>1 DEF Follows, Accepts
<1>5. Wins(n) \/ Leads(n)
  BY <1>2, <1>3, <1>4 DEF SafeStep, LogStep
<1>6. role'[n] = "Leader" /\ Sends(n)
  BY <1>5 DEF Wins, Leads
<1> QED
  BY <1>1, <1>5, <1>6 DEF Sends

\* An origin stays the origin.
LEMMA OriginPersists ==
  ASSUME TypeOK, NEW n \in Members, SafeStep(n), NEW c \in Members, NEW t \in Nat, Origin(c, t)
  PROVE  Origin(c, t)'
<1>1. current_term[c] \in Nat /\ current_term'[c] \in Nat /\ current_term'[c] >= current_term[c]
      /\ messages \subseteq messages'
  BY TermsGrow
<1>2. current_term[c] >= t /\ current_term'[c] >= t
  BY <1>1 DEF Origin
<1>3. \A v, d : Granted(v, t, d) => Granted(v, t, d)'
  BY <1>1 DEF Granted
<1>4. ASSUME current_term'[c] = t
      PROVE  current_term[c] = t /\ voted_for[c] = c /\ voted_for'[c] = c /\ role'[c] # "Candidate"
  <2>1. current_term[c] = t
    BY <1>1, <1>2, <1>4
  <2>2. voted_for[c] = c /\ role[c] # "Candidate"
    BY <2>1 DEF Origin
  <2>3. voted_for[c] # None
    BY <2>2, ValueAssumption
  <2>4. voted_for'[c] = c
    BY <1>1, <1>4, <2>1, <2>2, <2>3 DEF SafeStep, ElectionStep
  <2> QED
    BY <1>4, <2>1, <2>2, <2>4, CandidatesKeep
<1>5. ASSUME NEW d \in Members, Granted(c, t, d)'
      PROVE  d = c
  <2>1. CASE Granted(c, t, d)
    BY <2>1 DEF Origin
  <2>2. CASE ~Granted(c, t, d)
    <3>1. PICK m \in messages' : /\ m.type = "VoteResponse" /\ m.granted /\ m.from = c /\ m.to = d
                                 /\ m.term = t /\ m \notin messages
      BY <1>5, <2>2 DEF Granted
    <3>2. current_term'[c] = t /\ voted_for'[c] = d
      BY <3>1 DEF SafeStep, ElectionStep, Speaks
    <3> QED
      BY <1>4, <3>2
  <2> QED
    BY <2>1, <2>2
<1>6. \E Q \in ElectionQuorums : \A v \in Q : v = c \/ Granted(v, t, c)'
  BY <1>3 DEF Origin
<1> QED
  BY <1>2, <1>4, <1>5, <1>6 DEF Origin

\* Where the terms of the logs come from, before n wins: not from n.
LEMMA NewLeaderIsFirst ==
  ASSUME TypeOK, NEW n \in Members, SafeStep(n), Wins(n), EntriesHaveOrigins, RequestsHaveOrigins
  PROVE  /\ \A P \in Pieces : \A i : Covers(P, i) /\ i > 0 => TermAt(P, i) # current_term'[n]
         /\ \A m \in Requests : m.from = n => m.term # current_term'[n]
<1>1. /\ current_term[n] \in Nat /\ current_term'[n] \in Nat /\ role'[n] = "Leader"
      /\ \/ role[n] = "Candidate" /\ current_term'[n] = current_term[n]
         \/ current_term'[n] > current_term[n]
  BY TermsGrow DEF Wins
<1>2. ~Origin(n, current_term'[n])
  BY <1>1 DEF Origin
<1>3. Origin(n, current_term[n])'
  BY <1>1 DEF SafeStep, OriginFacts, LeadersAreOrigins
<1>4. ASSUME NEW c \in Members, Origin(c, current_term'[n])
      PROVE  FALSE
  <2>1. Origin(c, current_term[n])'
    <3>1. PICK t \in Nat : t = current_term'[n]
      BY <1>1
    <3>2. Origin(c, t)'
      BY <1>4, <3>1, OriginPersists
    <3> QED
      BY <3>1, <3>2
  <2>2. c = n
    BY <1>1, <1>3, <2>1 DEF SafeStep, OriginFacts, OriginsAreUnique
  <2> QED
    BY <1>2, <1>4, <2>2
<1>5. ASSUME NEW P \in Pieces, NEW i, Covers(P, i), i > 0, TermAt(P, i) = current_term'[n]
      PROVE  FALSE
  BY <1>4, <1>5 DEF EntriesHaveOrigins
<1>6. ASSUME NEW m \in Requests, m.from = n, m.term = current_term'[n]
      PROVE  FALSE
  BY <1>4, <1>6 DEF RequestsHaveOrigins
<1> QED
  BY <1>5, <1>6
-----------------------------------------------------------------------------
(* The pieces after a step.                                                 *)

\* A piece was there before, or is a part of n's log.
LEMMA NewPieces ==
  ASSUME NEW n \in Members, SafeStep(n), NEW P \in Pieces'
  PROVE  P \in Pieces \/ SliceOf(P, LogPiece(log'[n]))
<1>1. /\ log'[n] \in Seq(Entry) /\ IsPiece(LogPiece(log'[n])) /\ committed' \in Seq(Entry)
      /\ commit_index'[n] \in Nat /\ commit_index'[n] <= Len(log'[n])
  BY DEF SafeStep, PiecesAreTyped, LogsAreTyped
<1>2. ASSUME NEW x \in Members, P = LogPiece(log'[x])
      PROVE  P \in Pieces \/ SliceOf(P, LogPiece(log'[n]))
  <2>1. CASE x = n
    BY <1>1, <1>2, <2>1, SliceOfItself
  <2>2. CASE x # n
    BY <1>2, <2>2, LogChanges DEF Pieces
  <2> QED
    BY <2>1, <2>2
<1>3. CASE P = LogPiece(committed')
  <2>1. committed' = committed \/ committed' = Prefix(log'[n], commit_index'[n])
    BY DEF SafeStep, LogStep, Rests, Campaigns, Wins, Leads, Commits, Follows
  <2>2. CASE committed' = committed
    BY <1>3, <2>2 DEF Pieces
  <2>3. CASE committed' = Prefix(log'[n], commit_index'[n])
    BY <1>1, <1>3, <2>3, PrefixFacts
  <2> QED
    BY <2>1, <2>2, <2>3
<1>4. CASE P \in Requests'
  <2>1. CASE P \in Requests
    BY <2>1 DEF Pieces
  <2>2. CASE P \notin Requests
    BY <1>4, <2>2, NewRequests DEF SentBy
  <2> QED
    BY <2>1, <2>2
<1> QED
  BY <1>2, <1>3, <1>4 DEF Pieces

\* A piece of a log that agrees with another and lacks the entry that is
\* appended to it agrees with it afterwards.
LEMMA AppendAgrees ==
  ASSUME NEW s \in Seq(Entry), NEW e \in Entry, NEW Q, IsPiece(Q), Agree(LogPiece(s), Q),
         \A i : Covers(Q, i) /\ i > 0 /\ TermAt(Q, i) = e.term => i <= Len(s)
  PROVE  Agree(LogPiece(Append(s, e)), Q)
<1> DEFINE S == LogPiece(s)
           D == LogPiece(Append(s, e))
<1>1. /\ Append(s, e) \in Seq(Entry) /\ Len(Append(s, e)) = Len(s) + 1 /\ Len(s) \in Nat
      /\ Append(s, e)[Len(s) + 1] = e /\ SliceOf(S, D)
  BY AppendFacts
<1>2. /\ IsPiece(S) /\ IsPiece(D) /\ \A i : Covers(S, i) <=> i \in 0..Len(s)
      /\ \A i : Covers(D, i) <=> i \in 0..(Len(s) + 1)
      /\ TermAt(D, Len(s) + 1) = e.term
  <2>1. /\ IsPiece(S) /\ \A i : Covers(S, i) <=> i \in 0..Len(s)
    BY LogPieceFacts
  <2>2. PICK d \in Seq(Entry) : d = Append(s, e)
    BY <1>1
  <2>3. /\ IsPiece(LogPiece(d)) /\ \A i : Covers(LogPiece(d), i) <=> i \in 0..Len(d)
        /\ \A i \in 1..Len(d) : TermAt(LogPiece(d), i) = d[i].term
    BY LogPieceFacts
  <2> QED
    BY <1>1, <2>1, <2>2, <2>3
<1>3. Start(S) = 0 /\ Start(D) = 0
  BY DEF Start, LogPiece
<1> HIDE DEF S, D
<1>4. SUFFICES ASSUME NEW i, NEW j, Covers(D, i), Covers(Q, i), TermAt(D, i) = TermAt(Q, i),
                      Covers(D, j), Covers(Q, j), j <= i
               PROVE  SameAt(D, Q, j)
  BY DEF Agree, D
<1>5. i <= Len(s)
  BY <1>1, <1>2, <1>4
<1>6. Covers(S, i) /\ Covers(S, j)
  BY <1>1, <1>2, <1>4, <1>5
<1>7. /\ TermAt(S, i) = TermAt(D, i) /\ TermAt(S, j) = TermAt(D, j)
      /\ j > Start(S) => EntryAt(S, j) = EntryAt(D, j)
  BY <1>1, <1>2, <1>6, SliceFacts
<1>8. SameAt(S, Q, j)
  BY <1>4, <1>6, <1>7 DEF Agree, S
<1> QED
  BY <1>3, <1>7, <1>8 DEF SameAt

\* An entry that is not older than any before keeps a log ordered.
LEMMA AppendOrdered ==
  ASSUME NEW s \in Seq(Entry), NEW e \in Entry, Ordered(LogPiece(s)),
         \A i \in 1..Len(s) : s[i].term <= e.term
  PROVE  Ordered(LogPiece(Append(s, e)))
<1> DEFINE S == LogPiece(s)
           D == LogPiece(Append(s, e))
<1>1. /\ Append(s, e) \in Seq(Entry) /\ Len(Append(s, e)) = Len(s) + 1 /\ Len(s) \in Nat
      /\ Append(s, e)[Len(s) + 1] = e /\ SliceOf(S, D)
  BY AppendFacts
<1>2. /\ IsPiece(S) /\ \A i : Covers(S, i) <=> i \in 0..Len(s)
      /\ \A i \in 1..Len(s) : TermAt(S, i) = s[i].term
      /\ \A i : Covers(D, i) <=> i \in 0..(Len(s) + 1)
      /\ IsPiece(D) /\ TermAt(D, Len(s) + 1) = e.term
  <2>1. /\ IsPiece(S) /\ \A i : Covers(S, i) <=> i \in 0..Len(s)
        /\ \A i \in 1..Len(s) : TermAt(S, i) = s[i].term
    BY LogPieceFacts
  <2>2. PICK d \in Seq(Entry) : d = Append(s, e)
    BY <1>1
  <2>3. /\ IsPiece(LogPiece(d)) /\ \A i : Covers(LogPiece(d), i) <=> i \in 0..Len(d)
        /\ \A i \in 1..Len(d) : TermAt(LogPiece(d), i) = d[i].term
    BY LogPieceFacts
  <2> QED
    BY <1>1, <2>1, <2>2, <2>3
<1>3. TermAt(D, 0) = 0 /\ e.term \in Nat
  BY DEF TermAt, LogPiece, Entry
<1> HIDE DEF S, D
<1>4. SUFFICES ASSUME NEW i, NEW j, Covers(D, i), Covers(D, j), i <= j
               PROVE  TermAt(D, i) <= TermAt(D, j)
  BY DEF Ordered, D
<1>5. i \in Nat /\ j \in Nat /\ TermAt(D, i) \in Nat
  BY <1>2, <1>4, PieceFacts
<1>6. \A k \in 0..Len(s) : TermAt(D, k) = TermAt(S, k)
  BY <1>1, <1>2, SliceFacts
<1>7. CASE j <= Len(s)
  BY <1>1, <1>2, <1>4, <1>5, <1>6, <1>7 DEF Ordered, S
<1>8. CASE j = Len(s) + 1
  <2>1. CASE i = 0
    BY <1>2, <1>3, <1>8, <2>1
  <2>2. CASE i \in 1..Len(s)
    BY <1>2, <1>6, <1>8, <2>2
  <2>3. CASE i = Len(s) + 1
    BY <1>5, <1>8, <2>3
  <2> QED
    BY <1>1, <1>2, <1>4, <1>5, <2>1, <2>2, <2>3
<1> QED
  BY <1>1, <1>2, <1>4, <1>5, <1>7, <1>8

\* n's log agrees with the pieces there were, and stays ordered.
LEMMA LogAgrees ==
  ASSUME NEW n \in Members, SafeStep(n), PiecesAgree, PiecesAreOrdered, TermsAreBounded,
         LeadersHoldTheirTerm
  PROVE  /\ \A Q \in Pieces : Agree(LogPiece(log'[n]), Q)
         /\ Ordered(LogPiece(log'[n]))
<1>1. /\ log[n] \in Seq(Entry) /\ LogPiece(log[n]) \in Pieces
      /\ \A Q \in Pieces : IsPiece(Q)
  BY DEF SafeStep, PiecesAreTyped, LogsAreTyped
<1>2. CASE log'[n] = log[n]
  BY <1>1, <1>2 DEF PiecesAgree, PiecesAreOrdered
<1>3. ASSUME Extends(n)
      PROVE  /\ \A Q \in Pieces : Agree(LogPiece(log'[n]), Q)
             /\ Ordered(LogPiece(log'[n]))
  <2>1. PICK e \in Entry : e.term = current_term[n] /\ log'[n] = Append(log[n], e)
    BY <1>3 DEF Extends
  <2>2. PICK s \in Seq(Entry) : s = log[n]
    BY <1>1
  <2>3. ASSUME NEW Q \in Pieces
        PROVE  Agree(LogPiece(Append(s, e)), Q)
    <3>1. \A i : Covers(Q, i) /\ i > 0 /\ TermAt(Q, i) = e.term => i <= Len(s)
      BY <1>3, <2>1, <2>2, <2>3 DEF LeadersHoldTheirTerm, Extends
    <3>2. IsPiece(Q) /\ Agree(LogPiece(s), Q)
      BY <1>1, <2>2 DEF PiecesAgree
    <3> QED
      BY <3>1, <3>2, AppendAgrees
  <2>4. Ordered(LogPiece(s)) /\ \A i \in 1..Len(s) : s[i].term <= e.term
    BY <1>1, <2>1, <2>2 DEF PiecesAreOrdered, TermsAreBounded
  <2> QED
    BY <2>1, <2>2, <2>3, <2>4, AppendOrdered
<1>4. ASSUME NEW m \in Requests, Follows(n, m)
      PROVE  /\ \A Q \in Pieces : Agree(LogPiece(log'[n]), Q)
             /\ Ordered(LogPiece(log'[n]))
  <2>0. PICK d : d = log'[n]
    OBVIOUS
  <2>1. PICK s \in Seq(Entry) : s = log[n] /\ d = log'[n]
    BY <1>1, <2>0
  <2>2. /\ m \in Pieces /\ IsPiece(m) /\ PositionMatches(s, m.previous)
        /\ d = AppendDelta(s, m.previous.index, m.entries)
    BY <1>1, <1>4, <2>1 DEF Follows, Pieces
  <2>3. ASSUME NEW Q \in Pieces
        PROVE  Agree(LogPiece(d), Q)
    <3>1. IsPiece(Q) /\ Agree(LogPiece(s), Q) /\ Agree(m, Q)
      BY <1>1, <2>1, <2>2 DEF PiecesAgree
    <3> QED
      BY <2>2, <3>1, JoinAgrees
  <2>4. Ordered(LogPiece(s)) /\ Ordered(m)
    BY <1>1, <2>1, <2>2 DEF PiecesAreOrdered
  <2>5. Ordered(LogPiece(d))
    BY <2>2, <2>4, JoinOrdered
  <2> QED
    BY <2>1, <2>3, <2>5
<1> QED
  BY <1>2, <1>3, <1>4, LogChanges

\* Pieces agree and are ordered after the step.
LEMMA PiecesStayEqual ==
  ASSUME NEW n \in Members, SafeStep(n), PiecesAgree, PiecesAreOrdered, TermsAreBounded,
         LeadersHoldTheirTerm
  PROVE  PiecesAgree' /\ PiecesAreOrdered'
<1> DEFINE L == LogPiece(log'[n])
<1>1. /\ \A Q \in Pieces : Agree(L, Q) /\ Agree(Q, L)
      /\ Ordered(L)
  BY LogAgrees, AgreeSymmetric
<1>2. IsPiece(L) /\ \A P \in Pieces : IsPiece(P)
  BY DEF SafeStep, PiecesAreTyped, LogsAreTyped
<1>3. \A P \in Pieces' : IsPiece(P)
  BY DEF SafeStep, PiecesAreTyped
<1>4. Agree(L, L)
  BY DEF Agree, SameAt
<1>5. \A X, Y \in Pieces \cup {L} : Agree(X, Y)
  BY <1>1, <1>4 DEF PiecesAgree
<1>6. \A X \in Pieces \cup {L} : IsPiece(X) /\ Ordered(X)
  BY <1>1, <1>2 DEF PiecesAreOrdered
<1>7. \A P \in Pieces' : \E X \in Pieces \cup {L} : SliceOf(P, X)
  BY <1>2, NewPieces, SliceOfItself
<1> HIDE DEF L
<1>8. ASSUME NEW P \in Pieces', NEW Q \in Pieces'
      PROVE  Agree(P, Q)
  <2>1. PICK X \in Pieces \cup {L} : SliceOf(P, X)
    BY <1>7
  <2>2. PICK Y \in Pieces \cup {L} : SliceOf(Q, Y)
    BY <1>7
  <2> QED
    BY <1>3, <1>5, <1>6, <2>1, <2>2, SlicesAgree
<1>9. ASSUME NEW P \in Pieces'
      PROVE  Ordered(P)
  <2>1. PICK X \in Pieces \cup {L} : SliceOf(P, X)
    BY <1>7
  <2> QED
    BY <1>3, <1>6, <2>1, SliceOrdered
<1> QED
  BY <1>8, <1>9 DEF PiecesAgree, PiecesAreOrdered

\* The entries of n's log after the step.
LEMMA LogEntries ==
  ASSUME NEW n \in Members, SafeStep(n), NEW i \in 1..Len(log'[n])
  PROVE  \/ i <= Len(log[n]) /\ log'[n][i] = log[n][i]
         \/ Extends(n) /\ i = Len(log[n]) + 1 /\ log'[n][i].term = current_term[n]
         \/ \E m \in Requests : Follows(n, m) /\ Covers(m, i) /\ i # Start(m) /\ log'[n][i] = EntryAt(m, i)
<1>1. log[n] \in Seq(Entry) /\ Len(log[n]) \in Nat /\ \A m \in Requests : IsPiece(m)
  BY DEF SafeStep, PiecesAreTyped, LogsAreTyped, RequestsAreTyped
<1>2. CASE log'[n] = log[n]
  BY <1>1, <1>2
<1>3. CASE Extends(n)
  <2>1. PICK e \in Entry : e.term = current_term[n] /\ log'[n] = Append(log[n], e)
    BY <1>3 DEF Extends
  <2>2. /\ Len(log'[n]) = Len(log[n]) + 1 /\ log'[n][Len(log[n]) + 1] = e
        /\ \A j \in 1..Len(log[n]) : log'[n][j] = log[n][j]
    BY <1>1, <2>1, AppendFacts
  <2> QED
    BY <1>1, <1>3, <2>1, <2>2
<1>4. ASSUME NEW m \in Requests, Follows(n, m), log'[n] # log[n]
      PROVE  \/ i <= Len(log[n]) /\ log'[n][i] = log[n][i]
             \/ Covers(m, i) /\ i # Start(m) /\ log'[n][i] = EntryAt(m, i)
  <2>0. PICK d : d = log'[n]
    OBVIOUS
  <2>1. PICK s \in Seq(Entry) : s = log[n] /\ d = log'[n]
    BY <1>1, <2>0
  <2>2. /\ IsPiece(m) /\ PositionMatches(s, m.previous)
        /\ d = AppendDelta(s, m.previous.index, m.entries)
    BY <1>1, <1>4, <2>1 DEF Follows
  <2>3. /\ Len(d) = End(m) /\ Start(m) <= Len(s)
        /\ \A j \in 1..Start(m) : d[j] = s[j]
        /\ \A j : Covers(m, j) /\ j # Start(m) => d[j] = EntryAt(m, j)
    BY <1>4, <2>1, <2>2, JoinFacts
  <2>4. Start(m) \in Nat /\ End(m) \in Nat
    BY <2>2, PieceFacts
  <2>5. CASE i <= Start(m)
    BY <1>1, <2>1, <2>3, <2>4, <2>5
  <2>6. CASE i > Start(m)
    <3>1. Covers(m, i) /\ i # Start(m)
      BY <2>1, <2>3, <2>4, <2>6 DEF Covers
    <3> QED
      BY <2>1, <2>3, <3>1
  <2> QED
    BY <2>4, <2>5, <2>6
<1> QED
  BY <1>2, <1>3, <1>4, LogChanges

\* Nothing is newer than its owner after the step.
LEMMA TermsStayBounded ==
  ASSUME NEW n \in Members, SafeStep(n), TermsAreBounded
  PROVE  TermsAreBounded'
<1>1. ASSUME NEW x \in Members, NEW i \in 1..Len(log'[x])
      PROVE  log'[x][i].term <= current_term'[x]
  <2>1. /\ current_term[x] \in Nat /\ current_term'[x] \in Nat /\ current_term'[x] >= current_term[x]
        /\ log[x] \in Seq(Entry) /\ Len(log[x]) \in Nat /\ Len(log'[x]) \in Nat
    BY TermsGrow DEF SafeStep, PiecesAreTyped, LogsAreTyped
  <2>2. ASSUME i <= Len(log[x]), log'[x][i] = log[x][i]
        PROVE  log'[x][i].term <= current_term'[x]
    <3>1. i \in 1..Len(log[x]) /\ log[x][i].term \in Nat
      <4>1. i \in 1..Len(log[x])
        BY <2>1, <2>2
      <4>2. log[x][i] \in Entry
        BY <2>1, <4>1
      <4> QED
        BY <4>1, <4>2 DEF Entry
    <3>2. log[x][i].term <= current_term[x]
      BY <3>1 DEF TermsAreBounded
    <3> QED
      BY <2>1, <2>2, <3>1, <3>2
  <2>3. CASE x # n
    BY <2>1, <2>2, <2>3, LogChanges
  <2>4. CASE x = n
    <3>1. ASSUME Extends(n), log'[n][i].term = current_term[n]
          PROVE  log'[x][i].term <= current_term'[x]
      BY <2>1, <2>4, <3>1
    <3>2. ASSUME NEW m \in Requests, Follows(n, m), Covers(m, i), i # Start(m), log'[n][i] = EntryAt(m, i)
          PROVE  log'[x][i].term <= current_term'[x]
      <4>1. IsPiece(m) /\ current_term'[n] = m.term
        BY <3>2 DEF SafeStep, PiecesAreTyped, RequestsAreTyped, Follows
      <4>2. TermAt(m, i) = EntryAt(m, i).term /\ TermAt(m, i) <= m.term
        BY <3>2, <4>1, PieceFacts DEF TermsAreBounded
      <4> QED
        BY <2>4, <3>2, <4>1, <4>2
    <3> QED
      BY <2>2, <2>4, <3>1, <3>2, LogEntries
  <2> QED
    BY <2>3, <2>4
<1>2. ASSUME NEW m \in Requests', NEW i, Covers(m, i)
      PROVE  TermAt(m, i) <= m.term
  <2>1. CASE m \in Requests
    BY <1>2, <2>1 DEF TermsAreBounded
  <2>2. CASE m \notin Requests
    <3>1. m.term = current_term'[n] /\ SliceOf(m, LogPiece(log'[n]))
      BY <2>2, NewRequests DEF SentBy
    <3>2. /\ IsPiece(m) /\ log'[n] \in Seq(Entry) /\ IsPiece(LogPiece(log'[n])) /\ current_term'[n] \in Nat
      BY DEF SafeStep, PiecesAreTyped, LogsAreTyped, RequestsAreTyped
    <3>3. TermAt(m, i) = TermAt(LogPiece(log'[n]), i) /\ Covers(LogPiece(log'[n]), i)
      BY <1>2, <3>1, <3>2, SliceFacts
    <3>4. i \in 0..Len(log'[n])
      BY <3>2, <3>3, LogPieceFacts
    <3>5. CASE i = 0
      BY <3>1, <3>2, <3>3, <3>5 DEF TermAt, LogPiece
    <3>6. CASE i \in 1..Len(log'[n])
      <4>1. TermAt(LogPiece(log'[n]), i) = log'[n][i].term
        BY <3>2, <3>6, LogPieceFacts
      <4> QED
        BY <1>1, <3>1, <3>3, <3>6, <4>1
    <3> QED
      BY <3>2, <3>4, <3>5, <3>6
  <2> QED
    BY <2>1, <2>2
<1> QED
  BY <1>1, <1>2 DEF TermsAreBounded

\* Where the terms of the pieces come from.
LEMMA NewTerms ==
  ASSUME NEW n \in Members, SafeStep(n), NEW P \in Pieces', NEW i, Covers(P, i), i > 0
  PROVE  \/ \E Q \in Pieces : Covers(Q, i) /\ TermAt(Q, i) = TermAt(P, i)
         \/ Extends(n) /\ i = Len(log[n]) + 1 /\ TermAt(P, i) = current_term[n]
<1>1. CASE P \in Pieces
  BY <1>1
<1>2. CASE SliceOf(P, LogPiece(log'[n]))
  <2>1. /\ IsPiece(P) /\ log'[n] \in Seq(Entry) /\ IsPiece(LogPiece(log'[n]))
        /\ log[n] \in Seq(Entry) /\ LogPiece(log[n]) \in Pieces /\ Len(log[n]) \in Nat
        /\ \A m \in Requests : m \in Pieces /\ IsPiece(m)
    BY DEF SafeStep, PiecesAreTyped, LogsAreTyped, RequestsAreTyped
  <2>2. TermAt(P, i) = TermAt(LogPiece(log'[n]), i) /\ Covers(LogPiece(log'[n]), i)
    BY <1>2, <2>1, SliceFacts
  <2>3. i \in 1..Len(log'[n])
    BY <2>1, <2>2, LogPieceFacts
  <2>4. TermAt(P, i) = log'[n][i].term
    BY <2>1, <2>2, <2>3, LogPieceFacts
  <2>5. CASE i <= Len(log[n]) /\ log'[n][i] = log[n][i]
    <3>1. Covers(LogPiece(log[n]), i) /\ TermAt(LogPiece(log[n]), i) = log[n][i].term
      BY <2>1, <2>3, <2>5, LogPieceFacts
    <3> QED
      BY <2>1, <2>4, <2>5, <3>1
  <2>6. CASE Extends(n) /\ i = Len(log[n]) + 1 /\ log'[n][i].term = current_term[n]
    BY <2>4, <2>6
  <2>7. ASSUME NEW m \in Requests, Covers(m, i), i # Start(m), log'[n][i] = EntryAt(m, i)
        PROVE  m \in Pieces /\ TermAt(m, i) = TermAt(P, i)
    BY <2>1, <2>4, <2>7, PieceFacts
  <2> QED
    BY <2>3, <2>5, <2>6, <2>7, LogEntries
<1> QED
  BY <1>1, <1>2, NewPieces

\* Every entry and every request has its origin after the step.
LEMMA OriginsStay ==
  ASSUME TypeOK, NEW n \in Members, SafeStep(n), EntriesHaveOrigins, RequestsHaveOrigins
  PROVE  EntriesHaveOrigins' /\ RequestsHaveOrigins'
<1>1. ASSUME NEW P \in Pieces', NEW i, Covers(P, i), i > 0
      PROVE  \E c \in Members : Origin(c, TermAt(P, i))'
  <2>1. ASSUME NEW Q \in Pieces, Covers(Q, i), TermAt(Q, i) = TermAt(P, i)
        PROVE  \E c \in Members : Origin(c, TermAt(P, i))'
    <3>1. TermAt(Q, i) \in Nat
      BY <2>1, PieceFacts DEF SafeStep, PiecesAreTyped
    <3>2. PICK c \in Members : Origin(c, TermAt(Q, i))
      BY <1>1, <2>1 DEF EntriesHaveOrigins
    <3>3. PICK t \in Nat : t = TermAt(P, i)
      BY <2>1, <3>1
    <3>4. Origin(c, t)'
      BY <2>1, <3>2, <3>3, OriginPersists
    <3>5. TermAt(P, i)' = t
      BY <3>3 DEF TermAt, EntryAt
    <3> QED
      BY <3>3, <3>4
  <2>2. ASSUME Extends(n), TermAt(P, i) = current_term[n]
        PROVE  \E c \in Members : Origin(c, TermAt(P, i))'
    <3>1. Origin(n, current_term[n])' /\ current_term'[n] = current_term[n]
      BY <2>2 DEF SafeStep, OriginFacts, LeadersAreOrigins, Extends
    <3> QED
      BY <2>2, <3>1
  <2> QED
    BY <1>1, <2>1, <2>2, NewTerms
<1>2. ASSUME NEW m \in Requests'
      PROVE  Origin(m.from, m.term)'
  <2>1. CASE m \in Requests
    <3>1. Origin(m.from, m.term) /\ m.from \in Members /\ m.term \in Nat
      BY <2>1 DEF RequestsHaveOrigins, SafeStep, PiecesAreTyped, RequestsAreTyped
    <3> QED
      BY <3>1, OriginPersists
  <2>2. CASE m \notin Requests
    <3>1. m.from = n /\ m.term = current_term'[n] /\ role'[n] = "Leader"
      BY <2>2, NewRequests DEF SentBy
    <3>2. Origin(n, current_term[n])'
      BY <3>1 DEF SafeStep, OriginFacts, LeadersAreOrigins
    <3> QED
      BY <3>1, <3>2
  <2> QED
    BY <2>1, <2>2
<1>3. EntriesHaveOrigins'
  BY <1>1 DEF EntriesHaveOrigins
<1>4. RequestsHaveOrigins'
  BY <1>2 DEF RequestsHaveOrigins
<1> QED
  BY <1>3, <1>4

\* A leader's log holds every entry of its term after the step.
LEMMA LeadersStillHold ==
  ASSUME TypeOK, NEW n \in Members, SafeStep(n), EntriesHaveOrigins, RequestsHaveOrigins,
         LeadersHoldTheirTerm
  PROVE  LeadersHoldTheirTerm'
<1> SUFFICES ASSUME NEW x \in Members, role'[x] = "Leader", NEW P \in Pieces', NEW i,
                    Covers(P, i), i > 0, TermAt(P, i) = current_term'[x]
             PROVE  i <= Len(log'[x]) /\ log'[x][i].term = current_term'[x]
  BY DEF LeadersHoldTheirTerm
<1>1. /\ log[x] \in Seq(Entry) /\ Len(log[x]) \in Nat /\ i \in Nat /\ log[n] \in Seq(Entry)
      /\ Len(log[n]) \in Nat
  BY DEF SafeStep, PiecesAreTyped, LogsAreTyped, Covers
<1>2. ASSUME Extends(n)
      PROVE  /\ Len(log'[n]) = Len(log[n]) + 1 /\ log'[n][Len(log[n]) + 1].term = current_term[n]
             /\ \A j \in 1..Len(log[n]) : log'[n][j] = log[n][j]
  BY <1>1, <1>2, AppendFacts DEF Extends
<1>3. ASSUME NEW Q \in Pieces, Covers(Q, i), TermAt(Q, i) = TermAt(P, i)
      PROVE  i <= Len(log'[x]) /\ log'[x][i].term = current_term'[x]
  <2>1. ASSUME role[x] = "Leader", current_term'[x] = current_term[x],
               log'[x] = log[x] \/ (x = n /\ Extends(n))
        PROVE  i <= Len(log'[x]) /\ log'[x][i].term = current_term'[x]
    <3>1. i <= Len(log[x]) /\ log[x][i].term = current_term[x]
      BY <1>3, <2>1 DEF LeadersHoldTheirTerm
    <3>2. CASE log'[x] = log[x]
      BY <2>1, <3>1, <3>2
    <3>3. CASE x = n /\ Extends(n)
      BY <1>1, <1>2, <2>1, <3>1, <3>3
    <3> QED
      BY <2>1, <3>2, <3>3
  <2>2. ~(x = n /\ Wins(n))
    BY <1>3, NewLeaderIsFirst
  <2> QED
    BY <2>1, <2>2, LeadersLed
<1>4. ASSUME Extends(n), i = Len(log[n]) + 1, TermAt(P, i) = current_term[n]
      PROVE  i <= Len(log'[x]) /\ log'[x][i].term = current_term'[x]
  <2>1. role'[n] = "Leader" /\ current_term'[n] = current_term[n] /\ current_term'[n] = current_term'[x]
    BY <1>4 DEF Extends
  <2>2. Origin(n, current_term[n])' /\ Origin(x, current_term[x])' /\ current_term'[x] \in Nat
    BY <2>1 DEF SafeStep, OriginFacts, LeadersAreOrigins, PiecesAreTyped, LogsAreTyped
  <2>3. x = n
    BY <2>1, <2>2 DEF SafeStep, OriginFacts, OriginsAreUnique
  <2> QED
    BY <1>1, <1>2, <1>4, <2>1, <2>3
<1> QED
  BY <1>3, <1>4, NewTerms

\* What was a part of a leader's log is one after the step.
LEMMA SlicesGrow ==
  ASSUME NEW s \in Seq(Entry), NEW d \in Seq(Entry), SliceOf(LogPiece(s), LogPiece(d)), NEW P, IsPiece(P),
         SliceOf(P, LogPiece(s))
  PROVE  SliceOf(P, LogPiece(d))
<1>1. IsPiece(LogPiece(s)) /\ IsPiece(LogPiece(d))
  BY LogPieceFacts
<1> DEFINE S == LogPiece(s)
           D == LogPiece(d)
<1> HIDE DEF S, D
<1>2. /\ \A i : Covers(P, i) => /\ Covers(S, i) /\ TermAt(P, i) = TermAt(S, i)
                                /\ i > Start(P) => i > Start(S) /\ EntryAt(P, i) = EntryAt(S, i)
      /\ \A i : Covers(S, i) => /\ Covers(D, i) /\ TermAt(S, i) = TermAt(D, i)
                                /\ i > Start(S) => i > Start(D) /\ EntryAt(S, i) = EntryAt(D, i)
  BY <1>1, SliceFacts DEF S, D
<1>3. Start(D) <= Start(P) /\ End(P) <= End(D)
  <2>1. IsPiece(S) /\ IsPiece(D) /\ SliceOf(S, D) /\ SliceOf(P, S)
    BY <1>1 DEF S, D
  <2>2. /\ Start(P) \in Nat /\ End(P) \in Nat /\ Start(S) \in Nat /\ End(S) \in Nat
        /\ Start(D) \in Nat /\ End(D) \in Nat
    BY <2>1, PieceFacts
  <2>3. Start(D) <= Start(S) /\ Start(S) <= Start(P) /\ End(P) <= End(S) /\ End(S) <= End(D)
    BY <2>1 DEF SliceOf
  <2> QED
    BY <2>2, <2>3
<1> QED
  BY <1>2, <1>3 DEF SliceOf, SameAt, D

\* A leader that led before has kept its log or added to it.
LEMMA LeadersGrow ==
  ASSUME NEW n \in Members, SafeStep(n), NEW x \in Members, log'[x] = log[x] \/ (x = n /\ Extends(n))
  PROVE  /\ Len(log[x]) \in Nat /\ Len(log'[x]) \in Nat /\ Len(log[x]) <= Len(log'[x])
         /\ \A j \in 1..Len(log[x]) : log'[x][j] = log[x][j]
         /\ \A P : IsPiece(P) /\ SliceOf(P, LogPiece(log[x])) => SliceOf(P, LogPiece(log'[x]))
<1>1. /\ log[x] \in Seq(Entry) /\ Len(log[x]) \in Nat /\ log'[x] \in Seq(Entry) /\ Len(log'[x]) \in Nat
  BY DEF SafeStep, PiecesAreTyped, LogsAreTyped
<1>2. CASE log'[x] = log[x]
  BY <1>1, <1>2
<1>3. CASE x = n /\ Extends(n)
  <2>1. PICK e \in Entry : log'[x] = Append(log[x], e)
    BY <1>3 DEF Extends
  <2>2. /\ Len(log'[x]) = Len(log[x]) + 1 /\ \A j \in 1..Len(log[x]) : log'[x][j] = log[x][j]
        /\ SliceOf(LogPiece(log[x]), LogPiece(log'[x]))
    BY <1>1, <2>1, AppendFacts
  <2> QED
    BY <1>1, <2>2, SlicesGrow
<1> QED
  BY <1>2, <1>3

\* What a leader sent in its term is a part of its log after the step.
LEMMA RequestsStaySlices ==
  ASSUME TypeOK, NEW n \in Members, SafeStep(n), EntriesHaveOrigins, RequestsHaveOrigins,
         RequestsAreSlices, ProbesAreSent
  PROVE  RequestsAreSlices'
<1> SUFFICES ASSUME NEW x \in Members, role'[x] = "Leader", NEW m \in Requests', m.from = x,
                    m.term = current_term'[x]
             PROVE  /\ SliceOf(m, LogPiece(log'[x]))
                    /\ m.probe_id = None \/ m.probe_id < next_append_probe_id'[x]
  BY DEF RequestsAreSlices
<1>1. /\ next_append_probe_id[x] \in Nat /\ next_append_probe_id'[x] \in Nat
      /\ IsPiece(m) /\ m.probe_id \in Nat \cup {None}
  BY DEF SafeStep, PiecesAreTyped, LogsAreTyped, RequestsAreTyped
<1>2. CASE m \in Requests
  <2>1. ~(x = n /\ Wins(n))
    BY <1>2, NewLeaderIsFirst
  <2>2. /\ role[x] = "Leader" /\ current_term'[x] = current_term[x]
        /\ next_append_probe_id'[x] >= next_append_probe_id[x]
        /\ log'[x] = log[x] \/ (x = n /\ Extends(n))
    BY <2>1, LeadersLed
  <2>3. /\ SliceOf(m, LogPiece(log[x]))
        /\ m.probe_id = None \/ m.probe_id < next_append_probe_id[x]
    BY <1>2, <2>2 DEF RequestsAreSlices
  <2>4. SliceOf(m, LogPiece(log'[x]))
    BY <1>1, <2>2, <2>3, LeadersGrow
  <2> QED
    BY <1>1, <2>2, <2>3, <2>4
<1>3. CASE m \notin Requests
  <2>1. x = n /\ SliceOf(m, LogPiece(log'[n])) /\ Numbered(n, m) /\ (Wins(n) \/ Leads(n))
    BY <1>3, NewRequests DEF SentBy
  <2>2. ASSUME role[n] = "Leader", NEW probe \in leader[n].probes[m.to], m.probe_id = probe.id
        PROVE  m.probe_id = None \/ m.probe_id < next_append_probe_id'[x]
    <3>1. Leads(n)
      BY <2>1, <2>2 DEF Wins
    <3>2. m.to \in Members
      BY DEF SafeStep, PiecesAreTyped, RequestsAreTyped
    <3>3. PICK r \in Requests : IsProbe(n, m.to, probe, r)
      BY <2>2, <3>2 DEF ProbesAreSent
    <3>4. r.probe_id = m.probe_id /\ r.from = n /\ r.term = current_term[n]
      BY <2>2, <3>3 DEF IsProbe
    <3>5. m.probe_id = None \/ m.probe_id < next_append_probe_id[n]
      BY <2>2, <3>4 DEF RequestsAreSlices
    <3>6. next_append_probe_id'[n] >= next_append_probe_id[n]
      BY <3>1 DEF Leads
    <3> QED
      BY <1>1, <2>1, <3>5, <3>6
  <2> QED
    BY <2>1, <2>2 DEF Numbered
<1> QED
  BY <1>2, <1>3

\* Numbers stay unique.
LEMMA NumbersStayUnique ==
  ASSUME TypeOK, NEW n \in Members, SafeStep(n), EntriesHaveOrigins, RequestsHaveOrigins,
         RequestsAreSlices, ProbesAreSent, NumbersAreUnique
  PROVE  NumbersAreUnique'
<1> DEFINE Same(r, s) == /\ r.kind = s.kind /\ r.previous = s.previous
                         /\ Through(r.previous, r.entries) = Through(s.previous, s.entries)
<1>1. ASSUME NEW r \in Requests', NEW s \in Requests', r.from = s.from, r.to = s.to, r.term = s.term,
             r.probe_id = s.probe_id, r.probe_id # None, r \notin Requests, s \in Requests
      PROVE  Same(r, s)
  <2>1. /\ Wins(n) \/ Leads(n)
        /\ r.from = n /\ r.term = current_term'[n] /\ Numbered(n, r) /\ role'[n] = "Leader"
    BY <1>1, NewRequests DEF SentBy
  <2>2. ~Wins(n)
    BY <1>1, <2>1, NewLeaderIsFirst
  <2>3. role[n] = "Leader" /\ current_term'[n] = current_term[n]
    BY <2>1, <2>2 DEF Leads
  <2>4. s.probe_id < next_append_probe_id[n]
    BY <1>1, <2>1, <2>3 DEF RequestsAreSlices
  <2>5. next_append_probe_id[n] \in Nat /\ r.to \in Members
    BY DEF SafeStep, PiecesAreTyped, LogsAreTyped, RequestsAreTyped
  <2>6. r.probe_id # next_append_probe_id[n]
    BY <1>1, <2>4, <2>5
  <2>7. PICK probe \in leader[n].probes[r.to] :
          /\ r.kind = "Replication" /\ r.probe_id = probe.id /\ r.previous = probe.previous
          /\ Through(r.previous, r.entries) = probe.through
    BY <1>1, <2>1, <2>6 DEF Numbered
  <2>8. PICK q \in Requests : IsProbe(n, r.to, probe, q)
    BY <2>3, <2>5 DEF ProbesAreSent
  <2>9. /\ q.kind = "Replication" /\ q.from = n /\ q.to = r.to /\ q.term = current_term[n]
        /\ q.probe_id = probe.id /\ q.previous = probe.previous
        /\ Through(q.previous, q.entries) = probe.through
    BY <2>8 DEF IsProbe
  <2>10. Same(q, s)
    BY <1>1, <2>1, <2>3, <2>7, <2>9 DEF NumbersAreUnique
  <2> QED
    BY <2>7, <2>9, <2>10
<1>2. ASSUME NEW r \in Requests', NEW s \in Requests', r.to = s.to,
             r.probe_id = s.probe_id, r.probe_id # None, r \notin Requests, s \notin Requests
      PROVE  Same(r, s)
  <2>1. Sends(n)
    BY <1>2, NewRequests DEF Wins, Leads
  <2>2. r \in messages' /\ s \in messages' /\ r \notin messages /\ s \notin messages
    BY <1>2 DEF Requests
  <2> QED
    BY <1>2, <2>1, <2>2 DEF Sends
<1>3. ASSUME NEW r \in Requests', NEW s \in Requests', r.from = s.from, r.to = s.to, r.term = s.term,
             r.probe_id = s.probe_id, r.probe_id # None
      PROVE  Same(r, s)
  <2>1. CASE r \in Requests /\ s \in Requests
    BY <1>3, <2>1 DEF NumbersAreUnique
  <2>2. CASE r \notin Requests /\ s \in Requests
    BY <1>1, <1>3, <2>2
  <2>3. CASE r \in Requests /\ s \notin Requests
    <3>1. Same(s, r)
      BY <1>1, <1>3, <2>3
    <3> QED
      BY <3>1
  <2>4. CASE r \notin Requests /\ s \notin Requests
    BY <1>2, <1>3, <2>4
  <2> QED
    BY <2>1, <2>2, <2>3, <2>4
<1> QED
  BY <1>3 DEF NumbersAreUnique

\* The requests of outstanding probes stay sent.
LEMMA ProbesStaySent ==
  ASSUME NEW n \in Members, SafeStep(n), ProbesAreSent
  PROVE  ProbesAreSent'
<1> SUFFICES ASSUME NEW x \in Members, NEW p \in Members, role'[x] = "Leader",
                    NEW probe \in leader'[x].probes[p]
             PROVE  \E r \in Requests' : IsProbe(x, p, probe, r)'
  BY DEF ProbesAreSent
<1>1. Requests \subseteq Requests'
  BY TermsGrow
<1>2. ASSUME role[x] = "Leader", current_term'[x] = current_term[x], probe \in leader[x].probes[p]
      PROVE  \E r \in Requests' : IsProbe(x, p, probe, r)'
  BY <1>1, <1>2 DEF ProbesAreSent, IsProbe
<1>3. CASE x # n
  BY <1>2, <1>3 DEF SafeStep, LogStep, Others
<1>4. CASE x = n
  <2>1. CASE Rests(n)
    BY <1>2, <1>4, <2>1 DEF Rests
  <2>2. CASE Wins(n) \/ Leads(n)
    BY <1>2, <1>4, <2>2 DEF Wins, Leads, Probes
  <2>3. CASE Campaigns(n) \/ \E m \in Requests : Follows(n, m)
    BY <1>4, <2>3 DEF Campaigns, Follows
  <2> QED
    BY <2>1, <2>2, <2>3 DEF SafeStep, LogStep
<1> QED
  BY <1>3, <1>4

\* A new acceptance answers the request that n follows.
LEMMA NewAcceptances ==
  ASSUME NEW n \in Members, SafeStep(n), NEW a \in messages', a \notin messages,
         a.type = "AppendResponse", a.accepted
  PROVE  \E m \in Requests : Follows(n, m) /\ Accepts(a, m) /\ a.probe_id # None
<1>1. ~Rests(n)
  BY DEF Rests, Answers
<1>2. ~Campaigns(n)
  BY DEF Campaigns
<1>3. ~Wins(n) /\ ~Leads(n)
  BY DEF Wins, Leads, Sends, SentBy
<1> QED
  BY <1>1, <1>2, <1>3 DEF SafeStep, LogStep, Follows

\* Acceptances stay real.
LEMMA AcceptancesStayReal ==
  ASSUME TypeOK, TypeOK', NEW n \in Members, SafeStep(n), AcceptancesAreReal
  PROVE  AcceptancesAreReal'
<1> SUFFICES ASSUME NEW a \in messages', a.type = "AppendResponse", a.accepted
             PROVE  /\ a.probe_id # None /\ current_term'[a.from] >= a.term
                    /\ \E r \in Requests' : Accepts(a, r)
  BY DEF AcceptancesAreReal, Accepts
<1>1. a.from \in Members /\ a.term \in Nat
  BY MessageFields DEF TypeOK, FieldTypes
<1>2. /\ current_term[a.from] \in Nat /\ current_term'[a.from] \in Nat
      /\ current_term'[a.from] >= current_term[a.from] /\ Requests \subseteq Requests'
  BY <1>1, TermsGrow
<1>3. CASE a \in messages
  <2>1. /\ a.probe_id # None /\ current_term[a.from] >= a.term
        /\ \E r \in Requests : Accepts(a, r)
    BY <1>3 DEF AcceptancesAreReal
  <2> QED
    BY <1>1, <1>2, <2>1
<1>4. CASE a \notin messages
  <2>1. PICK m \in Requests : Follows(n, m) /\ Accepts(a, m) /\ a.probe_id # None
    BY <1>4, NewAcceptances
  <2>2. a.from = n /\ a.term = m.term /\ current_term'[n] = m.term
    BY <2>1 DEF Follows, Accepts
  <2> QED
    BY <1>1, <1>2, <2>1, <2>2
<1> QED
  BY <1>3, <1>4
-----------------------------------------------------------------------------
(* What is held stays held.                                                 *)

\* A request that is the same as C where it lies in its first k entries
\* replaces none of them.
LEMMA JoinHolds ==
  ASSUME NEW s \in Seq(Entry), NEW m, IsPiece(m), PositionMatches(s, m.previous),
         NEW d, d = AppendDelta(s, m.previous.index, m.entries),
         NEW C \in Seq(Entry), NEW k \in Nat, k <= Len(C), Holds(C, k, s),
         \A j : Covers(m, j) /\ j <= k => SameAt(m, LogPiece(C), j)
  PROVE  Holds(C, k, d)
<1>1. /\ d \in Seq(Entry) /\ End(m) <= Len(d) /\ Len(d) \in Nat
      /\ d = s \/ Len(d) = End(m)
      /\ \A j \in 1..Start(m) : d[j] = s[j]
      /\ \A j : Covers(m, j) /\ j # Start(m) => d[j] = EntryAt(m, j)
      /\ d # s => \E j : /\ Covers(m, j) /\ j # Start(m)
                         /\ j > Len(s) \/ s[j] # EntryAt(m, j)
  BY JoinFacts
<1>2. Start(m) \in Nat /\ End(m) \in Nat /\ Len(s) \in Nat /\ Len(C) \in Nat
  BY PieceFacts
<1>3. k <= Len(s) /\ \A j \in 1..k : s[j] = C[j]
  BY DEF Holds
<1>4. ASSUME NEW j, Covers(m, j), j # Start(m), j <= k
      PROVE  j \in 1..k /\ EntryAt(m, j) = C[j]
  <2>1. j \in Nat /\ j > Start(m)
    BY <1>4, PieceFacts
  <2>2. j \in 1..Len(C) /\ j \in 1..k
    BY <1>2, <1>4, <2>1
  <2>3. EntryAt(LogPiece(C), j) = C[j] /\ Start(LogPiece(C)) = 0
    BY <2>2, LogPieceFacts
  <2>4. EntryAt(m, j) = EntryAt(LogPiece(C), j)
    BY <1>2, <1>4, <2>1, <2>2, <2>3 DEF SameAt
  <2> QED
    BY <2>2, <2>3, <2>4
<1>5. CASE d = s
  BY <1>5
<1>6. CASE d # s
  <2>1. k <= End(m)
    <3> SUFFICES ASSUME k > End(m) PROVE FALSE
      BY <1>2
    <3>1. PICK j : Covers(m, j) /\ j # Start(m) /\ (j > Len(s) \/ s[j] # EntryAt(m, j))
      BY <1>1, <1>6
    <3>2. j \in Nat /\ j <= k
      BY <1>2, <3>1 DEF Covers
    <3> QED
      BY <1>2, <1>3, <1>4, <3>1, <3>2
  <2>2. ASSUME NEW j \in 1..k
        PROVE  d[j] = C[j]
    <3>1. CASE j <= Start(m)
      BY <1>1, <1>2, <1>3, <3>1
    <3>2. CASE j > Start(m)
      <4>1. Covers(m, j) /\ j # Start(m)
        BY <1>2, <2>1, <3>2 DEF Covers
      <4> QED
        BY <1>1, <1>4, <4>1
    <3> QED
      BY <1>2, <3>1, <3>2
  <2>3. k <= Len(d)
    BY <1>1, <1>2, <2>1
  <2> QED
    BY <2>2, <2>3 DEF Holds
<1> QED
  BY <1>5, <1>6

\* Where an acknowledgement comes from.
LEMMA AckCases ==
  ASSUME TypeOK, TypeOK', NEW n \in Members, SafeStep(n), EntriesHaveOrigins, RequestsHaveOrigins,
         RequestsAreSlices, NumbersAreUnique', AcceptancesAreReal,
         NEW x \in Members, NEW v \in Members, NEW i \in Nat, role'[x] = "Leader", Acked(x, v, i)'
  PROVE  \/ v = x /\ i <= Len(log'[x])
         \/ /\ role[x] = "Leader" /\ current_term'[x] = current_term[x]
            /\ log'[x] = log[x] \/ (x = n /\ Extends(n))
            /\ Acked(x, v, i) /\ current_term[v] >= current_term[x] /\ i <= Len(log[x])
         \/ \E m \in Requests : /\ Follows(n, m) /\ v = n /\ m.from = x /\ x # n
                                /\ m.term = current_term'[x] /\ i <= End(m)
<1>1. CASE v = x /\ i <= Len(log'[x])
  BY <1>1
<1>2. ASSUME NEW r \in Requests', NEW a \in messages', r.kind = "Replication", r.from = x, r.to = v,
             r.term = current_term'[x], Accepts(a, r), i <= Through(r.previous, r.entries).index
      PROVE  \/ /\ role[x] = "Leader" /\ current_term'[x] = current_term[x]
                /\ log'[x] = log[x] \/ (x = n /\ Extends(n))
                /\ Acked(x, v, i) /\ current_term[v] >= current_term[x] /\ i <= Len(log[x])
             \/ \E m \in Requests : /\ Follows(n, m) /\ v = n /\ m.from = x /\ x # n
                                    /\ m.term = current_term'[x] /\ i <= End(m)
  <2>1. /\ a.type = "AppendResponse" /\ a.accepted /\ a.from = v /\ a.to = x /\ a.term = current_term'[x]
        /\ a.probe_id = r.probe_id
    BY <1>2 DEF Accepts
  <2>2. Requests \subseteq Requests' /\ Len(log[x]) \in Nat
    BY TermsGrow DEF SafeStep, PiecesAreTyped, LogsAreTyped
  <2>3. CASE a \notin messages
    <3>1. PICK m \in Requests : Follows(n, m) /\ Accepts(a, m) /\ a.probe_id # None
      BY <2>1, <2>3, NewAcceptances
    <3>2. /\ m.from = x /\ m.to = v /\ m.term = current_term'[x] /\ m.probe_id = r.probe_id
          /\ m.to = n /\ role'[n] = "Follower" /\ m.probe_id # None
      BY <2>1, <3>1 DEF Accepts, Follows
    <3>3. Through(m.previous, m.entries) = Through(r.previous, r.entries)
      BY <1>2, <2>2, <3>2 DEF NumbersAreUnique
    <3>4. Through(m.previous, m.entries).index = End(m)
      BY DEF SafeStep, PiecesAreTyped, RequestsAreTyped
    <3>5. i <= End(m)
      BY <1>2, <3>3, <3>4
    <3> QED
      BY <3>1, <3>2, <3>5
  <2>4. CASE a \in messages
    <3>1. PICK q \in Requests : Accepts(a, q)
      BY <2>1, <2>4 DEF AcceptancesAreReal
    <3>2. a.probe_id # None /\ current_term[v] >= a.term
      BY <2>1, <2>4 DEF AcceptancesAreReal
    <3>3. q.from = x /\ q.to = v /\ q.term = current_term'[x] /\ q.probe_id = r.probe_id
      BY <2>1, <3>1 DEF Accepts
    <3>4. q.kind = r.kind /\ Through(q.previous, q.entries) = Through(r.previous, r.entries)
      BY <1>2, <2>1, <2>2, <3>2, <3>3 DEF NumbersAreUnique
    <3>5. ~(x = n /\ Wins(n))
      BY <3>3, NewLeaderIsFirst
    <3>6. /\ role[x] = "Leader" /\ current_term'[x] = current_term[x]
          /\ log'[x] = log[x] \/ (x = n /\ Extends(n))
      BY <3>5, LeadersLed
    <3>7. Acked(x, v, i)
      BY <1>2, <2>4, <3>1, <3>3, <3>4, <3>6 DEF Acked
    <3>8. i <= Len(log[x])
      <4>1. SliceOf(q, LogPiece(log[x])) /\ End(LogPiece(log[x])) = Len(log[x])
        BY <3>3, <3>6, LogPieceFacts DEF RequestsAreSlices, SafeStep, PiecesAreTyped, LogsAreTyped
      <4>2. IsPiece(q) /\ Through(q.previous, q.entries).index = End(q)
        BY DEF SafeStep, PiecesAreTyped, RequestsAreTyped
      <4>3. End(q) \in Nat /\ End(q) <= Len(log[x])
        BY <4>1, <4>2, PieceFacts DEF SliceOf
      <4>4. i <= End(q)
        BY <1>2, <3>4, <4>2
      <4> QED
        BY <2>2, <4>3, <4>4
    <3> QED
      BY <2>1, <3>2, <3>6, <3>7, <3>8
  <2> QED
    BY <2>3, <2>4
<1> QED
  BY <1>1, <1>2 DEF Acked
\* A log that shares a position with C holds C up to it.
LEMMA AgreeHolds ==
  ASSUME NEW s \in Seq(Entry), NEW C \in Seq(Entry), Agree(LogPiece(s), LogPiece(C)),
         NEW i \in Nat, i <= Len(s), i <= Len(C), i > 0 => s[i].term = C[i].term,
         NEW k \in Nat, k <= i
  PROVE  Holds(C, k, s)
<1> DEFINE S == LogPiece(s)
           D == LogPiece(C)
<1>1. /\ Len(s) \in Nat /\ Start(S) = 0 /\ \A j : Covers(S, j) <=> j \in 0..Len(s)
      /\ \A j \in 1..Len(s) : EntryAt(S, j) = s[j] /\ TermAt(S, j) = s[j].term
  BY LogPieceFacts
<1>2. /\ Len(C) \in Nat /\ Start(D) = 0 /\ \A j : Covers(D, j) <=> j \in 0..Len(C)
      /\ \A j \in 1..Len(C) : EntryAt(D, j) = C[j] /\ TermAt(D, j) = C[j].term
  BY LogPieceFacts
<1>3. Agree(S, D)
  OBVIOUS
<1> HIDE DEF S, D
<1>4. ASSUME NEW j \in 1..k
      PROVE  s[j] = C[j]
  <2>1. i > 0 /\ i \in 1..Len(s) /\ j \in 1..Len(s) /\ i \in 0..Len(s) /\ j \in 0..Len(s) /\ j <= i
    BY <1>1
  <2>2. i \in 1..Len(C) /\ j \in 1..Len(C) /\ i \in 0..Len(C) /\ j \in 0..Len(C)
    BY <1>2
  <2>3. TermAt(S, i) = TermAt(D, i)
    BY <1>1, <1>2, <2>1, <2>2
  <2>4. Covers(S, i) /\ Covers(D, i) /\ Covers(S, j) /\ Covers(D, j)
    BY <1>1, <1>2, <2>1, <2>2
  <2>5. SameAt(S, D, j)
    BY <1>3, <2>1, <2>3, <2>4 DEF Agree
  <2>6. j > 0
    OBVIOUS
  <2> QED
    BY <1>1, <1>2, <2>1, <2>2, <2>5, <2>6 DEF SameAt
<1>5. k <= Len(s)
  BY <1>1
<1> QED
  BY <1>4, <1>5 DEF Holds

\* Two logs of which a piece is a part hold the same up to its end.
LEMMA SlicesHold ==
  ASSUME NEW s \in Seq(Entry), NEW C \in Seq(Entry), Agree(LogPiece(s), LogPiece(C)), NEW m, IsPiece(m),
         SliceOf(m, LogPiece(s)), SliceOf(m, LogPiece(C)), NEW k \in Nat, k <= End(m)
  PROVE  Holds(C, k, s) /\ k <= Len(C)
<1> DEFINE S == LogPiece(s)
           D == LogPiece(C)
           e == End(m)
<1>1. /\ Len(s) \in Nat /\ IsPiece(S) /\ \A j : Covers(S, j) <=> j \in 0..Len(s)
      /\ \A j \in 1..Len(s) : TermAt(S, j) = s[j].term
  BY LogPieceFacts
<1>2. /\ Len(C) \in Nat /\ IsPiece(D) /\ \A j : Covers(D, j) <=> j \in 0..Len(C)
      /\ \A j \in 1..Len(C) : TermAt(D, j) = C[j].term
  BY LogPieceFacts
<1>3. e \in Nat /\ Covers(m, e)
  BY PieceFacts
<1>4. Covers(S, e) /\ TermAt(m, e) = TermAt(S, e)
  BY <1>1, <1>3, SliceFacts
<1>5. Covers(D, e) /\ TermAt(m, e) = TermAt(D, e)
  BY <1>2, <1>3, SliceFacts
<1>6. e <= Len(s) /\ e <= Len(C)
  BY <1>1, <1>2, <1>3, <1>4, <1>5
<1>7. ASSUME e > 0 PROVE s[e].term = C[e].term
  <2>1. e \in 1..Len(s) /\ e \in 1..Len(C)
    BY <1>1, <1>2, <1>3, <1>6, <1>7
  <2>2. TermAt(S, e) = s[e].term /\ TermAt(D, e) = C[e].term
    BY <1>1, <1>2, <2>1
  <2> HIDE DEF S, D, e
  <2> QED
    BY <1>4, <1>5, <2>2
<1>8. PICK i \in Nat : i = e
  BY <1>3
<1>9. /\ Agree(LogPiece(s), LogPiece(C)) /\ i <= Len(s) /\ i <= Len(C) /\ k <= i
      /\ i > 0 => s[i].term = C[i].term
  BY <1>6, <1>7, <1>8
<1>10. Holds(C, k, s)
  BY ONLY <1>9, AgreeHolds, s \in Seq(Entry), C \in Seq(Entry), k \in Nat, i \in Nat
<1> QED
  BY <1>2, <1>3, <1>6, <1>10

\* A request that is a part of C does not disturb what is held of C.
LEMMA SliceJoins ==
  ASSUME NEW s \in Seq(Entry), NEW m, IsPiece(m), PositionMatches(s, m.previous),
         NEW d, d = AppendDelta(s, m.previous.index, m.entries),
         NEW C \in Seq(Entry), NEW k \in Nat, k <= Len(C), Holds(C, k, s), SliceOf(m, LogPiece(C))
  PROVE  Holds(C, k, d)
<1>1. \A j : Covers(m, j) /\ j <= k => SameAt(m, LogPiece(C), j)
  BY DEF SliceOf
<1> QED
  BY <1>1, JoinHolds

\* Acknowledged entries stay held.
LEMMA AcksStayHeld ==
  ASSUME TypeOK, TypeOK', NEW n \in Members, SafeStep(n), EntriesHaveOrigins, RequestsHaveOrigins,
         RequestsAreSlices, RequestsAreSlices', NumbersAreUnique', AcceptancesAreReal, PiecesAgree',
         AcksAreHeld
  PROVE  AcksAreHeld'
<1> SUFFICES ASSUME NEW x \in Members, NEW v \in Members, NEW i \in Nat, role'[x] = "Leader",
                    current_term'[v] = current_term'[x], Acked(x, v, i)'
             PROVE  i <= Len(log'[x]) /\ Holds(log'[x], i, log'[v])
  BY DEF AcksAreHeld
<1>1. /\ log[x] \in Seq(Entry) /\ log[v] \in Seq(Entry) /\ log'[x] \in Seq(Entry) /\ log'[v] \in Seq(Entry)
      /\ Len(log[x]) \in Nat /\ Len(log[v]) \in Nat /\ Len(log'[x]) \in Nat /\ Len(log'[v]) \in Nat
  BY DEF SafeStep, PiecesAreTyped, LogsAreTyped
<1>2. /\ current_term[v] \in Nat /\ current_term'[v] \in Nat /\ current_term'[v] >= current_term[v]
      /\ current_term[x] \in Nat /\ Requests \subseteq Requests'
  BY TermsGrow
<1>3. \A m \in Requests : IsPiece(m)
  BY DEF SafeStep, PiecesAreTyped, RequestsAreTyped
<1>4. CASE v = x /\ i <= Len(log'[x])
  BY <1>1, <1>4 DEF Holds
<1>5. ASSUME role[x] = "Leader", current_term'[x] = current_term[x],
             log'[x] = log[x] \/ (x = n /\ Extends(n)),
             Acked(x, v, i), current_term[v] >= current_term[x], i <= Len(log[x])
      PROVE  i <= Len(log'[x]) /\ Holds(log'[x], i, log'[v])
  <2>1. current_term[v] = current_term[x]
    BY <1>2, <1>5
  <2>2. Holds(log[x], i, log[v])
    BY <1>5, <2>1 DEF AcksAreHeld
  <2>3. Len(log[x]) <= Len(log'[x]) /\ \A j \in 1..Len(log[x]) : log'[x][j] = log[x][j]
    BY <1>5, LeadersGrow
  <2>4. CASE log'[v] = log[v] \/ (v = n /\ Extends(n))
    <3>1. Len(log[v]) <= Len(log'[v]) /\ \A j \in 1..Len(log[v]) : log'[v][j] = log[v][j]
      BY <2>4, LeadersGrow
    <3>2. i <= Len(log[v]) /\ \A j \in 1..i : log[v][j] = log[x][j]
      BY <2>2 DEF Holds
    <3>3. \A j \in 1..i : j \in 1..Len(log[v]) /\ j \in 1..Len(log[x])
      BY <1>1, <1>5, <3>2
    <3> QED
      BY <1>1, <1>5, <2>3, <3>1, <3>2, <3>3 DEF Holds
  <2>5. ASSUME NEW m \in Requests, Follows(n, m), v = n
        PROVE  i <= Len(log'[x]) /\ Holds(log'[x], i, log'[v])
    <3>1. /\ x # n /\ log'[x] = log[x] /\ m.term = current_term[x]
          /\ PositionMatches(log[n], m.previous)
          /\ log'[n] = AppendDelta(log[n], m.previous.index, m.entries)
      BY <1>5, <2>5, LogChanges DEF Follows
    <3>2. Origin(x, current_term[x]) /\ Origin(m.from, current_term[x]) /\ m.from \in Members
      BY <1>5, <3>1 DEF SafeStep, OriginFacts, LeadersAreOrigins, RequestsHaveOrigins, PiecesAreTyped,
                        RequestsAreTyped
    <3>3. m.from = x
      BY <1>2, <3>2 DEF SafeStep, OriginFacts, OriginsAreUnique
    <3>4. SliceOf(m, LogPiece(log[x]))
      BY <1>5, <3>1, <3>3 DEF RequestsAreSlices
    <3>5. PICK s \in Seq(Entry), C \in Seq(Entry) : s = log[n] /\ C = log[x]
      BY <1>1, <2>5
    <3>6. Holds(C, i, log'[n])
      BY <1>3, <1>5, <2>2, <2>5, <3>1, <3>4, <3>5, SliceJoins
    <3> QED
      BY <1>5, <2>5, <3>1, <3>5, <3>6
  <2> QED
    BY <2>4, <2>5, LogChanges
<1>6. ASSUME NEW m \in Requests, Follows(n, m), v = n, m.from = x, m.term = current_term'[x], i <= End(m)
      PROVE  i <= Len(log'[x]) /\ Holds(log'[x], i, log'[v])
  <2>1. SliceOf(m, LogPiece(log'[x]))
    BY <1>2, <1>6 DEF RequestsAreSlices
  <2>2. PositionMatches(log[n], m.previous) /\ log'[n] = AppendDelta(log[n], m.previous.index, m.entries)
    BY <1>6 DEF Follows
  <2>3. SliceOf(m, LogPiece(log'[n]))
    BY <1>1, <1>3, <1>6, <2>2, JoinPieces
  <2>4. Agree(LogPiece(log'[n]), LogPiece(log'[x]))
    BY DEF PiecesAgree, SafeStep, PiecesAreTyped, LogsAreTyped
  <2>5. PICK s \in Seq(Entry), C \in Seq(Entry) : s = log'[n] /\ C = log'[x]
    BY <1>1, <1>6
  <2>6. Holds(C, i, s) /\ i <= Len(C)
    BY <1>3, <1>6, <2>1, <2>3, <2>4, <2>5, SlicesHold
  <2> QED
    BY <1>6, <2>5, <2>6
<1> QED
  BY <1>4, <1>5, <1>6, AckCases

\* A response that was counted stays counted while the leader leads.
LEMMA AckedStays ==
  ASSUME NEW n \in Members, SafeStep(n), NEW x \in Members, NEW v \in Members, NEW i \in Nat,
         current_term'[x] = current_term[x], log'[x] = log[x] \/ (x = n /\ Extends(n)), Acked(x, v, i)
  PROVE  Acked(x, v, i)'
<1>1. messages \subseteq messages' /\ Requests \subseteq Requests'
  BY TermsGrow
<1>2. Len(log[x]) \in Nat /\ Len(log'[x]) \in Nat /\ Len(log[x]) <= Len(log'[x])
  BY LeadersGrow
<1>3. CASE v = x /\ i <= Len(log[x])
  BY <1>2, <1>3 DEF Acked
<1>4. ASSUME NEW r \in Requests, NEW a \in messages, r.kind = "Replication", r.from = x, r.to = v,
             r.term = current_term[x], Accepts(a, r), i <= Through(r.previous, r.entries).index
      PROVE  Acked(x, v, i)'
  BY <1>1, <1>4 DEF Acked
<1> QED
  BY <1>3, <1>4 DEF Acked

\* What a leader believes matched stays acknowledged.
LEMMA MatchesStayAcked ==
  ASSUME TypeOK, TypeOK', NEW n \in Members, SafeStep(n), ProbesAreSent, MatchesAreAcked
  PROVE  MatchesAreAcked'
<1> SUFFICES ASSUME NEW x \in Members, NEW p \in Members, role'[x] = "Leader",
                    NEW i \in Nat, i = leader'[x].matched[p]
             PROVE  i = 0 \/ Acked(x, p, i)'
  <2>1. \A x, p \in Members : role'[x] = "Leader" => leader'[x].matched[p] \in Nat
    BY DEF TypeOK, LeaderTyped, LeaderState
  <2> QED
    BY <2>1 DEF MatchesAreAcked
<1>1. /\ messages \subseteq messages' /\ Requests \subseteq Requests'
      /\ Len(log'[x]) \in Nat
  BY TermsGrow DEF SafeStep, PiecesAreTyped, LogsAreTyped
<1>2. ASSUME role[x] = "Leader", current_term'[x] = current_term[x],
             log'[x] = log[x] \/ (x = n /\ Extends(n)), leader'[x].matched[p] = leader[x].matched[p]
      PROVE  i = 0 \/ Acked(x, p, i)'
  <2>1. i = 0 \/ Acked(x, p, i)
    BY <1>2 DEF MatchesAreAcked
  <2> QED
    BY <1>2, <2>1, AckedStays
<1>3. CASE x # n
  <2>1. role[x] = "Leader" /\ current_term'[x] = current_term[x] /\ log'[x] = log[x] /\ leader'[x] = leader[x]
    BY <1>3 DEF SafeStep, LogStep, Others
  <2> QED
    BY <1>2, <2>1
<1>4. ASSUME x = n, Wins(n)
      PROVE  i = 0 \/ Acked(x, p, i)'
  <2>1. leader'[n].matched[p] = (IF p = n THEN Len(log[n]) ELSE 0) /\ log'[n] = log[n]
    BY <1>4 DEF Wins
  <2>2. CASE p # n
    BY <1>4, <2>1, <2>2
  <2>3. CASE p = n
    BY <1>1, <1>4, <2>1, <2>3 DEF Acked
  <2> QED
    BY <2>2, <2>3
<1>5. ASSUME x = n, Leads(n)
      PROVE  i = 0 \/ Acked(x, p, i)'
  <2>1. /\ role[n] = "Leader" /\ current_term'[n] = current_term[n] /\ Matches(n, p)
        /\ log'[n] = log[n] \/ Extends(n)
    BY <1>5 DEF Leads, Extends
  <2>2. CASE leader'[n].matched[p] = leader[n].matched[p]
    BY <1>2, <1>5, <2>1, <2>2
  <2>3. CASE p = n /\ leader'[n].matched[p] = Len(log'[n])
    BY <1>1, <1>5, <2>3 DEF Acked
  <2>4. ASSUME NEW probe \in leader[n].probes[p], NEW a \in messages,
               a.type = "AppendResponse", a.accepted, a.from = p, a.to = n, a.term = current_term[n],
               a.probe_id = probe.id, leader'[n].matched[p] = probe.through.index
        PROVE  i = 0 \/ Acked(x, p, i)'
    <3>1. PICK r \in Requests : IsProbe(n, p, probe, r)
      BY <2>1, <2>4 DEF ProbesAreSent
    <3>2. /\ r.kind = "Replication" /\ r.from = n /\ r.to = p /\ r.term = current_term[n]
          /\ r.probe_id = probe.id /\ Through(r.previous, r.entries) = probe.through
      BY <3>1 DEF IsProbe
    <3>3. Accepts(a, r)
      BY <2>4, <3>2 DEF Accepts
    <3>4. probe.through.index \in Nat
      BY <3>2 DEF SafeStep, PiecesAreTyped, RequestsAreTyped, End, IsPiece, LogPosition
    <3>5. r \in Requests' /\ a \in messages' /\ r.term = current_term'[n]
      BY <1>1, <2>1, <3>2
    <3>6. i <= Through(r.previous, r.entries).index
      BY <1>5, <2>4, <3>2, <3>4
    <3> QED
      BY <1>5, <3>2, <3>3, <3>5, <3>6 DEF Acked
  <2> QED
    BY <2>1, <2>2, <2>3, <2>4 DEF Matches
<1>6. ASSUME x = n, Rests(n)
      PROVE  i = 0 \/ Acked(x, p, i)'
  BY <1>2, <1>6 DEF Rests
<1>7. ~Campaigns(n) \/ x # n
  BY DEF Campaigns
<1>8. ~(\E m \in Requests : Follows(n, m)) \/ x # n
  BY DEF Follows
<1> QED
  BY <1>3, <1>4, <1>5, <1>6, <1>7, <1>8 DEF SafeStep, LogStep

\* Who asked for votes has not left the term's campaign with another log.
LEMMA CampaignsStayCurrent ==
  ASSUME TypeOK, TypeOK', NEW n \in Members, SafeStep(n), CampaignsAreCurrent
  PROVE  CampaignsAreCurrent'
<1> SUFFICES ASSUME NEW m \in messages', m.type = "VoteRequest"
             PROVE  /\ current_term'[m.from] >= m.term
                    /\ role'[m.from] = "Candidate" /\ current_term'[m.from] = m.term =>
                         m.last_log = LastPosition(log'[m.from])
  BY DEF CampaignsAreCurrent
<1>1. m.from \in Members /\ m.term \in Nat
  BY MessageFields DEF TypeOK, FieldTypes
<1>2. /\ current_term[m.from] \in Nat /\ current_term'[m.from] \in Nat
      /\ current_term'[m.from] >= current_term[m.from]
  BY <1>1, TermsGrow
<1>3. CASE m \in messages
  <2>1. /\ current_term[m.from] >= m.term
        /\ role[m.from] = "Candidate" /\ current_term[m.from] = m.term =>
             m.last_log = LastPosition(log[m.from])
    BY <1>3 DEF CampaignsAreCurrent
  <2>2. ASSUME role'[m.from] = "Candidate", current_term'[m.from] = m.term
        PROVE  m.last_log = LastPosition(log'[m.from])
    <3>1. current_term'[m.from] = current_term[m.from] /\ current_term[m.from] = m.term
      BY <1>1, <1>2, <2>1, <2>2
    <3>2. role[m.from] = "Candidate" /\ log'[m.from] = log[m.from]
      BY <1>1, <2>2, <3>1, CandidatesKeep
    <3> QED
      BY <2>1, <3>1, <3>2
  <2> QED
    BY <1>1, <1>2, <2>1, <2>2
<1>4. CASE m \notin messages
  <2>1. ~Rests(n) /\ ~(\E r \in Requests : Follows(n, r))
    BY <1>4 DEF Rests, Answers, Follows, Accepts
  <2>2. ~Wins(n) /\ ~Leads(n)
    BY <1>4 DEF Wins, Leads, Sends, SentBy
  <2>3. Campaigns(n)
    BY <2>1, <2>2 DEF SafeStep, LogStep
  <2> QED
    BY <1>2, <1>4, <2>3 DEF Campaigns
<1> QED
  BY <1>3, <1>4

\* Whose vote is granted has asked for it.
LEMMA GrantsStayAsked ==
  ASSUME TypeOK, TypeOK', NEW n \in Members, SafeStep(n), CampaignsAreCurrent, GrantsAreAsked
  PROVE  GrantsAreAsked'
<1> SUFFICES ASSUME NEW m \in messages', m.type = "VoteResponse", m.granted
             PROVE  current_term'[m.to] >= m.term
  BY DEF GrantsAreAsked
<1>1. m.to \in Members /\ m.term \in Nat
  BY MessageFields DEF TypeOK, FieldTypes
<1>2. /\ current_term[m.to] \in Nat /\ current_term'[m.to] \in Nat
      /\ current_term'[m.to] >= current_term[m.to]
  BY <1>1, TermsGrow
<1>3. CASE m \in messages
  BY <1>1, <1>2, <1>3 DEF GrantsAreAsked
<1>4. CASE m \notin messages
  <2>1. ~(\E r \in Requests : Follows(n, r)) /\ ~Campaigns(n)
    BY <1>4 DEF Follows, Accepts, Campaigns
  <2>2. ~Wins(n) /\ ~Leads(n)
    BY <1>4 DEF Wins, Leads, Sends, SentBy
  <2>3. Answers(n)
    BY <2>1, <2>2 DEF SafeStep, LogStep, Rests
  <2>4. PICK q \in messages : q.type = "VoteRequest" /\ q.from = m.to /\ q.term = m.term
    BY <1>4, <2>3 DEF Answers
  <2>5. current_term[m.to] >= m.term
    BY <2>4 DEF CampaignsAreCurrent
  <2> QED
    BY <1>1, <1>2, <2>5
<1> QED
  BY <1>3, <1>4

-----------------------------------------------------------------------------
(* Logs, requests and what may be chosen.                                   *)

\* A log that holds an entry is not older than it.
LEMMA HoldsReaches ==
  ASSUME NEW C \in Seq(Entry), NEW k \in 1..Len(C), NEW s \in Seq(Entry), Ordered(LogPiece(s)),
         Holds(C, k, s)
  PROVE  Reaches(s, C, k)
<1> DEFINE S == LogPiece(s)
<1>1. /\ Len(s) \in Nat /\ \A j : Covers(S, j) <=> j \in 0..Len(s)
      /\ \A j \in 1..Len(s) : TermAt(S, j) = s[j].term /\ s[j].term \in Nat
  BY LogPieceFacts
<1>2. k \in Nat /\ k > 0 /\ Len(C) \in Nat /\ k <= Len(s) /\ s[k] = C[k]
  BY DEF Holds
<1>3. k \in 1..Len(s) /\ Len(s) \in 1..Len(s)
  BY <1>1, <1>2
<1>4. TermAt(S, k) <= TermAt(S, Len(s))
  BY <1>1, <1>2, <1>3 DEF Ordered
<1>5. s[k].term <= s[Len(s)].term /\ s[k].term \in Nat /\ s[Len(s)].term \in Nat
  BY <1>1, <1>3, <1>4
<1>6. /\ LastPosition(s).term = s[Len(s)].term /\ LastPosition(s).index = Len(s)
      /\ Position(C, k).term = C[k].term /\ Position(C, k).index = k
  BY <1>1, <1>2 DEF LastPosition, Position
<1> QED
  BY <1>1, <1>2, <1>5, <1>6 DEF Reaches, PositionAtLeast

\* What is cut from a log that holds the first k entries of C keeps them.
LEMMA SliceConsistent ==
  ASSUME NEW C \in Seq(Entry), NEW k \in 1..Len(C), NEW s \in Seq(Entry), Ordered(LogPiece(s)),
         Holds(C, k, s), NEW m, IsPiece(m), SliceOf(m, LogPiece(s))
  PROVE  Consistent(C, k, m)
<1> DEFINE S == LogPiece(s)
           D == LogPiece(C)
<1>1. /\ IsPiece(S) /\ Len(s) \in Nat /\ \A j : Covers(S, j) <=> j \in 0..Len(s)
      /\ \A j \in 1..Len(s) : TermAt(S, j) = s[j].term /\ EntryAt(S, j) = s[j]
      /\ TermAt(S, 0) = 0 /\ Start(S) = 0
  BY LogPieceFacts
<1>2. /\ IsPiece(D) /\ Len(C) \in Nat /\ \A j : Covers(D, j) <=> j \in 0..Len(C)
      /\ \A j \in 1..Len(C) : TermAt(D, j) = C[j].term /\ EntryAt(D, j) = C[j]
      /\ TermAt(D, 0) = 0 /\ Start(D) = 0
  BY LogPieceFacts
<1>3. k \in Nat /\ k > 0 /\ k <= Len(s) /\ \A j \in 1..k : s[j] = C[j]
  BY DEF Holds
<1>4. \A j : Covers(m, j) => /\ Covers(S, j) /\ TermAt(m, j) = TermAt(S, j)
                             /\ j > Start(m) => j > Start(S) /\ EntryAt(m, j) = EntryAt(S, j)
  BY <1>1, SliceFacts
<1>5. /\ Start(m) \in Nat /\ Covers(m, Start(m)) /\ TermAt(m, Start(m)) = m.previous.term
      /\ Ordered(S)
  BY PieceFacts
<1> HIDE DEF S, D
<1>6. ASSUME NEW j, Covers(m, j), j <= k
      PROVE  SameAt(m, D, j)
  <2>1. j \in 0..Len(s) /\ j \in Nat
    BY <1>1, <1>4, <1>6
  <2>2. CASE j = 0
    <3>1. ~(j > Start(m))
      BY <1>5, <2>2
    <3> QED
      BY <1>1, <1>2, <1>4, <1>6, <2>2, <3>1 DEF SameAt
  <2>3. CASE j # 0
    <3>1. j \in 1..k /\ j \in 1..Len(s) /\ j \in 1..Len(C)
      BY <1>1, <1>2, <1>3, <1>6, <2>1, <2>3
    <3>2. TermAt(S, j) = TermAt(D, j) /\ EntryAt(S, j) = EntryAt(D, j)
      BY <1>1, <1>2, <1>3, <3>1
    <3> QED
      BY <1>4, <1>6, <3>2 DEF SameAt
  <2> QED
    BY <2>2, <2>3
<1>7. ASSUME Start(m) > k
      PROVE  m.previous.term >= C[k].term
  <2>1. k \in 0..Len(s) /\ k \in 1..Len(s) /\ k \in 1..k
    BY <1>1, <1>3
  <2>2. Covers(S, Start(m)) /\ Covers(S, k) /\ k <= Start(m)
    BY <1>1, <1>3, <1>4, <1>5, <1>7, <2>1
  <2>3. TermAt(S, k) <= TermAt(S, Start(m))
    BY <1>5, <2>2 DEF Ordered
  <2>4. TermAt(S, k) = C[k].term
    BY <1>1, <1>3, <2>1
  <2>5. TermAt(S, Start(m)) = m.previous.term
    BY <1>4, <1>5
  <2>6. TermAt(S, k) \in Nat /\ TermAt(S, Start(m)) \in Nat
    BY <1>1, <2>2, PieceFacts
  <2> QED
    BY <2>3, <2>4, <2>5, <2>6
<1> QED
  BY <1>6, <1>7 DEF Consistent, D

\* A log that reaches an entry which no such request replaces still holds it
\* after the request.
LEMMA JoinReaches ==
  ASSUME NEW C \in Seq(Entry), NEW k \in 1..Len(C), Ordered(LogPiece(C)),
         NEW s \in Seq(Entry), Ordered(LogPiece(s)), Reaches(s, C, k) => Holds(C, k, s),
         NEW m, IsPiece(m), PositionMatches(s, m.previous), Consistent(C, k, m),
         NEW d, d = AppendDelta(s, m.previous.index, m.entries), Agree(LogPiece(d), LogPiece(C)),
         Reaches(d, C, k)
  PROVE  Holds(C, k, d)
<1> DEFINE S == LogPiece(s)
           D == LogPiece(d)
           E == LogPiece(C)
           b == Start(m)
           e == End(m)
<1>1. /\ d \in Seq(Entry) /\ e <= Len(d) /\ Len(d) \in Nat
      /\ d = s \/ Len(d) = e
      /\ b <= Len(s) /\ TermAt(S, b) = m.previous.term
  BY JoinFacts
<1>2. /\ b \in Nat /\ e \in Nat /\ b <= e /\ Covers(m, e) /\ \A j : Covers(m, j) => TermAt(m, j) \in Nat
  BY PieceFacts
<1>3. /\ Len(s) \in Nat /\ \A j : Covers(S, j) <=> j \in 0..Len(s)
      /\ \A j \in 1..Len(s) : TermAt(S, j) = s[j].term /\ s[j].term \in Nat
      /\ TermAt(S, 0) = 0 /\ \A j \in 0..Len(s) : Position(s, j) = [term |-> TermAt(S, j), index |-> j]
  BY LogPieceFacts
<1>4. /\ IsPiece(D) /\ \A j : Covers(D, j) <=> j \in 0..Len(d)
      /\ \A j \in 1..Len(d) : TermAt(D, j) = d[j].term
      /\ \A j \in 0..Len(d) : Position(d, j) = [term |-> TermAt(D, j), index |-> j]
  BY <1>1, LogPieceFacts
<1>5. /\ Len(C) \in Nat /\ \A j : Covers(E, j) <=> j \in 0..Len(C)
      /\ \A j \in 1..Len(C) : TermAt(E, j) = C[j].term /\ C[j].term \in Nat
      /\ \A j \in 0..Len(C) : Position(C, j) = [term |-> TermAt(E, j), index |-> j]
  BY LogPieceFacts
<1>6. \A j : Covers(m, j) => Covers(D, j) /\ TermAt(m, j) = TermAt(D, j)
  <2>1. SliceOf(m, D)
    BY JoinPieces
  <2> QED
    BY <1>4, <2>1, SliceFacts
<1>7. /\ \A j : Covers(m, j) /\ j <= k => SameAt(m, E, j)
      /\ b > k => m.previous.term >= C[k].term
  BY DEF Consistent
<1>8. k \in Nat /\ k > 0 /\ k <= Len(C) /\ k \in 1..Len(C) /\ k \in 0..Len(C)
  BY <1>5
<1>9. Ordered(S) /\ Ordered(E) /\ Agree(D, E)
  OBVIOUS
<1>10. CASE d = s
  BY <1>10
<1>11. CASE d # s /\ b > k
  <2>1. b \in 0..Len(s) /\ Len(s) \in 0..Len(s) /\ Len(s) \in 1..Len(s)
    BY <1>1, <1>2, <1>3, <1>8, <1>11
  <2>2. Covers(S, b) /\ Covers(S, Len(s))
    BY <1>3, <2>1
  <2>3. TermAt(S, b) <= TermAt(S, Len(s))
    BY <1>1, <1>9, <2>2 DEF Ordered
  <2>4. TermAt(S, Len(s)) \in Nat /\ TermAt(S, b) \in Nat /\ C[k].term \in Nat
    <3>1. b \in 1..Len(s)
      BY <1>2, <1>3, <1>8, <1>11, <2>1
    <3> QED
      BY <1>3, <1>5, <1>8, <2>1, <3>1
  <2>5. TermAt(S, Len(s)) >= C[k].term
    BY <1>1, <1>7, <1>11, <2>3, <2>4
  <2>6. /\ LastPosition(s).term = TermAt(S, Len(s)) /\ LastPosition(s).index = Len(s)
        /\ Position(C, k).term = C[k].term /\ Position(C, k).index = k
    <3>1. Position(s, Len(s)) = [term |-> TermAt(S, Len(s)), index |-> Len(s)]
      BY <1>3, <2>1
    <3>2. Position(C, k) = [term |-> C[k].term, index |-> k]
      BY <1>5, <1>8
    <3> QED
      BY <3>1, <3>2 DEF LastPosition
  <2>7. Reaches(s, C, k)
    BY <1>1, <1>2, <1>3, <1>8, <1>11, <2>4, <2>5, <2>6 DEF Reaches, PositionAtLeast
  <2>8. Holds(C, k, s)
    BY <2>7
  <2> QED
    BY <1>7, <1>8, <2>8, JoinHolds
<1>12. CASE b <= k /\ k <= e
  <2>1. Covers(m, k)
    BY <1>2, <1>8, <1>12 DEF Covers
  <2>2. TermAt(m, k) = TermAt(E, k)
    BY <1>7, <1>8, <2>1 DEF SameAt
  <2>3. Covers(D, k) /\ TermAt(D, k) = TermAt(E, k)
    BY <1>6, <2>1, <2>2
  <2>4. k \in 1..Len(d) /\ k <= Len(d)
    BY <1>1, <1>2, <1>8, <1>12
  <2>5. d[k].term = C[k].term
    BY <1>4, <1>5, <1>8, <2>3, <2>4
  <2> QED
    BY <1>1, <1>8, <2>4, <2>5, AgreeHolds
<1>13. CASE d # s /\ e < k
  <2>1. Len(d) = e /\ SameAt(m, E, e)
    BY <1>1, <1>2, <1>7, <1>8, <1>13
  <2>2. TermAt(D, e) = TermAt(E, e) /\ e \in 0..Len(d) /\ e \in 0..Len(C)
    BY <1>1, <1>2, <1>5, <1>6, <1>8, <1>13, <2>1 DEF SameAt
  <2>3. TermAt(E, e) <= TermAt(E, k)
    BY <1>2, <1>5, <1>8, <1>9, <1>13, <2>2 DEF Ordered
  <2>4. LastPosition(d) = [term |-> TermAt(E, e), index |-> e] /\ Position(C, k) = [term |-> TermAt(E, k), index |-> k]
    BY <1>4, <1>5, <1>8, <2>1, <2>2 DEF LastPosition
  <2>5. TermAt(E, e) \in Nat /\ TermAt(E, k) \in Nat
    BY <1>2, <1>5, <1>6, <1>8, <2>2
  <2>6. ~Reaches(d, C, k)
    BY <1>2, <1>8, <1>13, <2>3, <2>4, <2>5 DEF Reaches, PositionAtLeast
  <2> QED
    BY <2>6
<1> QED
  BY <1>2, <1>8, <1>10, <1>11, <1>12, <1>13

\* The invariant about pieces, numbers and answers.
ReplicationInv ==
  /\ PiecesAgree /\ PiecesAreOrdered /\ TermsAreBounded
  /\ EntriesHaveOrigins /\ RequestsHaveOrigins /\ LeadersHoldTheirTerm /\ RequestsAreSlices
  /\ NumbersAreUnique /\ ProbesAreSent /\ AcceptancesAreReal /\ AcksAreHeld /\ MatchesAreAcked
  /\ CampaignsAreCurrent /\ GrantsAreAsked

\* Every kind of step keeps it.
LEMMA ReplicationStays ==
  ASSUME TypeOK, TypeOK', NEW n \in Members, SafeStep(n), ReplicationInv
  PROVE  ReplicationInv'
<1>1. PiecesAgree' /\ PiecesAreOrdered'
  BY PiecesStayEqual DEF ReplicationInv
<1>2. TermsAreBounded'
  BY TermsStayBounded DEF ReplicationInv
<1>3. EntriesHaveOrigins' /\ RequestsHaveOrigins'
  BY OriginsStay DEF ReplicationInv
<1>4. LeadersHoldTheirTerm'
  BY LeadersStillHold DEF ReplicationInv
<1>5. RequestsAreSlices'
  BY RequestsStaySlices DEF ReplicationInv
<1>6. NumbersAreUnique'
  BY NumbersStayUnique DEF ReplicationInv
<1>7. ProbesAreSent' /\ AcceptancesAreReal'
  BY ProbesStaySent, AcceptancesStayReal DEF ReplicationInv
<1>8. AcksAreHeld'
  BY <1>1, <1>5, <1>6, AcksStayHeld DEF ReplicationInv
<1>9. MatchesAreAcked'
  BY MatchesStayAcked DEF ReplicationInv
<1>10. CampaignsAreCurrent' /\ GrantsAreAsked'
  BY CampaignsStayCurrent, GrantsStayAsked DEF ReplicationInv
<1> QED
  BY <1>1, <1>2, <1>3, <1>4, <1>5, <1>6, <1>7, <1>8, <1>9, <1>10 DEF ReplicationInv

\* What a log holds of chosen entries it keeps.
LEMMA HoldsStays ==
  ASSUME NEW n \in Members, SafeStep(n), NEW x \in Members, NEW C \in Seq(Entry), NEW k \in 1..Len(C),
         RequestsKeep(C, k), Holds(C, k, log[x]), x = n => current_term'[x] >= C[k].term
  PROVE  Holds(C, k, log'[x])
<1>1. /\ log[x] \in Seq(Entry) /\ Len(log[x]) \in Nat /\ Len(log'[x]) \in Nat /\ Len(C) \in Nat
      /\ k \in Nat /\ k <= Len(C)
  BY DEF SafeStep, PiecesAreTyped, LogsAreTyped
<1>2. CASE log'[x] = log[x] \/ (x = n /\ Extends(n))
  <2>1. Len(log[x]) <= Len(log'[x]) /\ \A j \in 1..Len(log[x]) : log'[x][j] = log[x][j]
    BY <1>2, LeadersGrow
  <2>2. k <= Len(log[x]) /\ \A j \in 1..k : j \in 1..Len(log[x]) /\ log[x][j] = C[j]
    BY <1>1 DEF Holds
  <2> QED
    BY <1>1, <2>1, <2>2 DEF Holds
<1>3. ASSUME NEW m \in Requests, x = n, Follows(n, m)
      PROVE  Holds(C, k, log'[x])
  <2>1. /\ PositionMatches(log[n], m.previous) /\ log'[n] = AppendDelta(log[n], m.previous.index, m.entries)
        /\ m.term >= C[k].term
    BY <1>3 DEF Follows
  <2>2. IsPiece(m)
    BY DEF SafeStep, PiecesAreTyped, RequestsAreTyped
  <2>3. \A j : Covers(m, j) /\ j <= k => SameAt(m, LogPiece(C), j)
    BY <2>1 DEF RequestsKeep, Consistent
  <2>4. PICK s \in Seq(Entry) : s = log[n]
    BY <1>1, <1>3
  <2> QED
    BY <1>1, <1>3, <2>1, <2>2, <2>3, <2>4, JoinHolds
<1> QED
  BY <1>2, <1>3, LogChanges

\* A log that comes to reach the chosen entries holds them.
LEMMA ReachingStay ==
  ASSUME NEW n \in Members, SafeStep(n), ReplicationInv, NEW C \in Seq(Entry), NEW k \in 1..Len(C),
         LogPiece(C) \in Pieces, ReachingHold(C, k), RequestsKeep(C, k), LeadersHold(C, k)
  PROVE  ReachingHold(C, k)'
<1> SUFFICES ASSUME NEW x \in Members, Reaches(log'[x], C, k)
             PROVE  Holds(C, k, log'[x])
  BY DEF ReachingHold
<1>1. /\ log[n] \in Seq(Entry) /\ Len(log[n]) \in Nat /\ log'[n] \in Seq(Entry) /\ Len(log'[n]) \in Nat
      /\ Len(C) \in Nat /\ k \in Nat /\ k > 0 /\ C[k].term \in Nat /\ current_term[n] \in Nat
      /\ LogPiece(log[n]) \in Pieces
  BY LogPieceFacts DEF SafeStep, PiecesAreTyped, LogsAreTyped
<1>2. Ordered(LogPiece(C)) /\ Ordered(LogPiece(log[n])) /\ Agree(LogPiece(log'[n]), LogPiece(C))
  BY <1>1, LogAgrees DEF ReplicationInv, PiecesAreOrdered
<1>3. CASE log'[x] = log[x]
  BY <1>3 DEF ReachingHold
<1>4. ASSUME x = n, Extends(n)
      PROVE  Holds(C, k, log'[x])
  <2>1. PICK e \in Entry : e.term = current_term[n] /\ log'[n] = Append(log[n], e)
    BY <1>4 DEF Extends
  <2>2. Len(log'[n]) = Len(log[n]) + 1 /\ log'[n][Len(log[n]) + 1] = e
    BY <1>1, <2>1, AppendFacts
  <2>3. LastPosition(log'[n]).term = current_term[n] /\ Position(C, k).term = C[k].term
    BY <1>1, <2>1, <2>2 DEF LastPosition, Position
  <2>4. current_term[n] >= C[k].term
    BY <1>1, <1>4, <2>3 DEF Reaches, PositionAtLeast
  <2>5. Holds(C, k, log[n])
    BY <1>4, <2>4 DEF LeadersHold, Extends
  <2>6. current_term'[n] >= C[k].term
    BY <1>4, <2>4 DEF Extends
  <2> QED
    BY <1>4, <2>5, <2>6, HoldsStays
<1>5. ASSUME x = n, NEW m \in Requests, Follows(n, m)
      PROVE  Holds(C, k, log'[x])
  <2>1. PICK s \in Seq(Entry), d \in Seq(Entry) : s = log[n] /\ d = log'[n]
    BY <1>1
  <2>2. PositionMatches(s, m.previous) /\ d = AppendDelta(s, m.previous.index, m.entries)
    BY <1>5, <2>1 DEF Follows
  <2>3. IsPiece(m) /\ m.term \in Nat
    BY DEF SafeStep, PiecesAreTyped, RequestsAreTyped
  <2>4. Reaches(s, C, k) => Holds(C, k, s)
    BY <2>1 DEF ReachingHold
  <2>5. CASE d = s
    BY <1>5, <2>1, <2>4, <2>5
  <2>6. CASE d # s
    <3>1. Len(d) = End(m) /\ SliceOf(m, LogPiece(d))
      BY <2>2, <2>3, <2>6, JoinFacts, JoinPieces
    <3>2. /\ Covers(m, End(m)) /\ TermAt(m, End(m)) \in Nat /\ End(m) \in Nat
      BY <2>3, PieceFacts
    <3>3. TermAt(m, End(m)) <= m.term
      BY <3>2 DEF ReplicationInv, TermsAreBounded
    <3>4. IsPiece(LogPiece(d)) /\ Position(d, Len(d)) = [term |-> TermAt(LogPiece(d), Len(d)), index |-> Len(d)]
      BY LogPieceFacts
    <3>5. TermAt(LogPiece(d), End(m)) = TermAt(m, End(m))
      BY <2>3, <3>1, <3>2, <3>4, SliceFacts
    <3>6. LastPosition(d).term = TermAt(m, End(m)) /\ Position(C, k).term = C[k].term
      <4>1. LastPosition(d).term = TermAt(LogPiece(d), Len(d))
        BY <3>4 DEF LastPosition
      <4>2. Position(C, k).term = C[k].term
        BY <1>1 DEF Position
      <4> QED
        BY <3>1, <3>5, <4>1, <4>2
    <3>7. Reaches(d, C, k)
      BY <1>5, <2>1
    <3>8. m.term >= C[k].term
      BY <1>1, <2>3, <3>2, <3>3, <3>6, <3>7 DEF Reaches, PositionAtLeast
    <3>9. Consistent(C, k, m)
      BY <3>8 DEF RequestsKeep
    <3>10. Ordered(LogPiece(C)) /\ Ordered(LogPiece(s)) /\ Agree(LogPiece(d), LogPiece(C))
      BY <1>2, <2>1
    <3>11. Holds(C, k, d)
      BY ONLY <2>2, <2>3, <2>4, <3>7, <3>9, <3>10, JoinReaches, s \in Seq(Entry), C \in Seq(Entry), k \in 1..Len(C)
    <3> QED
      BY <1>5, <2>1, <3>11
  <2> QED
    BY <2>5, <2>6
<1> QED
  BY <1>3, <1>4, <1>5, LogChanges

\* Who has left the term holds the chosen entries.
LEMMA LeaversStay ==
  ASSUME NEW n \in Members, SafeStep(n), NEW C \in Seq(Entry), NEW k \in 1..Len(C), NEW W \in CommitQuorums,
         LeaversHold(C, k, W), RequestsKeep(C, k),
         \A v \in W : current_term[v] <= C[k].term /\ current_term'[v] > C[k].term => Holds(C, k, log[v])
  PROVE  /\ LeaversHold(C, k, W)'
         /\ \A v \in W : current_term'[v] > C[k].term => Holds(C, k, log[v])
<1>1. \A v \in W : v \in Members
  BY PlanAssumption DEF Members
<1>2. C[k].term \in Nat
  BY LogPieceFacts
<1> SUFFICES ASSUME NEW v \in W, current_term'[v] > C[k].term
             PROVE  Holds(C, k, log[v]) /\ Holds(C, k, log'[v])
  BY DEF LeaversHold
<1>3. current_term[v] \in Nat /\ current_term'[v] \in Nat /\ v \in Members
  BY <1>1, TermsGrow
<1>4. Holds(C, k, log[v])
  BY <1>2, <1>3 DEF LeaversHold
<1>5. current_term'[v] >= C[k].term
  BY <1>2, <1>3
<1> QED
  BY <1>3, <1>4, <1>5, HoldsStays

\* A grant that is new answers a campaign with a log that is not older.
LEMMA NewGrants ==
  ASSUME NEW n \in Members, SafeStep(n), NEW m \in messages', m \notin messages, m.type = "VoteResponse", m.granted
  PROVE  /\ m.from = n /\ m.term = current_term'[n] /\ role'[n] = "Follower"
         /\ \E q \in messages : /\ q.type = "VoteRequest" /\ q.from = m.to /\ q.term = m.term
                                /\ PositionAtLeast(q.last_log, LastPosition(log[n]))
<1>1. ~(\E r \in Requests : Follows(n, r)) /\ ~Campaigns(n)
  BY DEF Follows, Accepts, Campaigns
<1>2. ~Wins(n) /\ ~Leads(n)
  BY DEF Wins, Leads, Sends, SentBy
<1>3. Answers(n)
  BY <1>1, <1>2 DEF SafeStep, LogStep, Rests
<1> QED
  BY <1>3 DEF Answers

\* A leader of the term or a later one holds the chosen entries: it led before,
\* or somebody of W who holds them voted for it.
LEMMA LeadersStay ==
  ASSUME TypeOK, NEW n \in Members, SafeStep(n), ReplicationInv, NEW C \in Seq(Entry), NEW k \in 1..Len(C),
         NEW W \in CommitQuorums, LogPiece(C) \in Pieces, Chosen(C, k, W),
         \A v \in W : current_term'[v] > C[k].term => Holds(C, k, log[v])
  PROVE  LeadersHold(C, k)'
<1> SUFFICES ASSUME NEW x \in Members, role'[x] = "Leader", current_term'[x] >= C[k].term
             PROVE  Holds(C, k, log'[x])
  BY DEF LeadersHold
<1>1. /\ C[k].term \in Nat /\ Covers(LogPiece(C), k) /\ k > 0 /\ TermAt(LogPiece(C), k) = C[k].term
      /\ current_term[x] \in Nat /\ current_term'[x] \in Nat
  BY TermsGrow, LogPieceFacts
<1>2. CASE role[x] = "Leader" /\ current_term'[x] = current_term[x]
  <2>1. Holds(C, k, log[x]) /\ RequestsKeep(C, k)
    BY <1>2 DEF Chosen, LeadersHold
  <2> QED
    BY <2>1, HoldsStays
<1>3. ASSUME x = n, Wins(n)
      PROVE  Holds(C, k, log'[x])
  <2>1. current_term'[n] > C[k].term
    BY <1>1, <1>3, NewLeaderIsFirst DEF ReplicationInv
  <2>2. log'[n] = log[n]
    BY <1>3 DEF Wins
  <2>3. PICK t \in Nat : t = current_term'[n]
    BY <1>1, <1>3
  <2>4. Origin(n, t)'
    BY <1>3, <2>3 DEF SafeStep, OriginFacts, LeadersAreOrigins
  <2>5. PICK Q \in ElectionQuorums : \A v \in Q : v = n \/ Granted(v, t, n)'
    BY <2>4 DEF Origin
  <2>6. PICK v \in Q : v \in W
    BY PlanAssumption
  <2>7. CASE v = n
    BY <1>3, <2>1, <2>2, <2>6, <2>7
  <2>8. CASE v # n
    <3>1. PICK m \in messages' : m.type = "VoteResponse" /\ m.granted /\ m.from = v /\ m.to = n /\ m.term = t
      BY <2>5, <2>8 DEF Granted
    <3>2. m \in messages
      BY <1>3, <3>1, NewGrants
    <3>3. Granted(v, t, n)
      BY <3>1, <3>2 DEF Granted
    <3>4. current_term[n] >= t
      BY <3>1, <3>2 DEF ReplicationInv, GrantsAreAsked
    <3>5. current_term[n] = t /\ role[n] = "Candidate"
      BY <1>1, <1>3, <2>3, <3>4 DEF Wins
    <3>6. Reaches(log[n], C, k)
      BY <2>1, <2>3, <2>6, <3>3, <3>5 DEF Chosen, CandidatesReach
    <3> QED
      BY <1>3, <2>2, <3>6 DEF Chosen, ReachingHold
  <2> QED
    BY <2>7, <2>8
<1> QED
  BY <1>2, <1>3, LeadersLed

\* No append of the term or a later one replaces the chosen entries.
LEMMA RequestsStayKept ==
  ASSUME NEW n \in Members, SafeStep(n), ReplicationInv', NEW C \in Seq(Entry), NEW k \in 1..Len(C),
         RequestsKeep(C, k), LeadersHold(C, k)'
  PROVE  RequestsKeep(C, k)'
<1> SUFFICES ASSUME NEW m \in Requests', m.term >= C[k].term PROVE Consistent(C, k, m)
  BY DEF RequestsKeep
<1>1. CASE m \in Requests
  BY <1>1 DEF RequestsKeep
<1>2. CASE m \notin Requests
  <2>1. SentBy(n, m) /\ role'[n] = "Leader"
    BY <1>2, NewRequests
  <2>2. m.term = current_term'[n] /\ SliceOf(m, LogPiece(log'[n]))
    BY <2>1 DEF SentBy
  <2>3. IsPiece(m) /\ log'[n] \in Seq(Entry) /\ LogPiece(log'[n]) \in Pieces'
    BY DEF SafeStep, PiecesAreTyped, RequestsAreTyped, LogsAreTyped
  <2>4. Holds(C, k, log'[n])
    BY <2>1, <2>2 DEF LeadersHold
  <2>5. Ordered(LogPiece(log'[n]))
    BY <2>3 DEF ReplicationInv, PiecesAreOrdered
  <2>6. PICK s \in Seq(Entry) : s = log'[n]
    BY <2>3
  <2> QED
    BY <2>2, <2>3, <2>4, <2>5, <2>6, SliceConsistent
<1> QED
  BY <1>1, <1>2

\* Who gets a vote from W has a log that is not older than the chosen entries.
LEMMA CandidatesStay ==
  ASSUME TypeOK', NEW n \in Members, SafeStep(n), ReplicationInv, NEW C \in Seq(Entry), NEW k \in 1..Len(C),
         NEW W \in CommitQuorums, CandidatesReach(C, k, W),
         \A v \in W : current_term'[v] > C[k].term => Holds(C, k, log[v])
  PROVE  CandidatesReach(C, k, W)'
<1> SUFFICES ASSUME NEW x \in Members, NEW v \in W, role'[x] = "Candidate", current_term'[x] > C[k].term,
                    NEW t \in Nat, t = current_term'[x], Granted(v, t, x)'
             PROVE  Reaches(log'[x], C, k)
  <2>1. \A x \in Members : current_term'[x] \in Nat
    BY TermsGrow
  <2> QED
    BY <2>1 DEF CandidatesReach
<1>1. PICK m \in messages' : m.type = "VoteResponse" /\ m.granted /\ m.from = v /\ m.to = x /\ m.term = t
  BY DEF Granted
<1>2. /\ current_term[x] \in Nat /\ current_term'[x] \in Nat /\ current_term'[x] >= current_term[x]
      /\ C[k].term \in Nat
  BY TermsGrow, LogPieceFacts
<1>3. CASE m \in messages
  <2>1. current_term[x] >= t
    BY <1>1, <1>3 DEF ReplicationInv, GrantsAreAsked
  <2>2. current_term'[x] = current_term[x]
    BY <1>2, <2>1
  <2>3. role[x] = "Candidate" /\ log'[x] = log[x]
    BY <2>2, CandidatesKeep
  <2>4. Granted(v, current_term[x], x)
    BY <1>1, <1>3, <2>2 DEF Granted
  <2> QED
    BY <2>2, <2>3, <2>4 DEF CandidatesReach
<1>4. CASE m \notin messages
  <2>1. /\ v = n /\ t = current_term'[n] /\ role'[n] = "Follower"
        /\ \E q \in messages : /\ q.type = "VoteRequest" /\ q.from = x /\ q.term = t
                               /\ PositionAtLeast(q.last_log, LastPosition(log[n]))
    BY <1>1, <1>4, NewGrants
  <2>2. PICK q \in messages : /\ q.type = "VoteRequest" /\ q.from = x /\ q.term = t
                              /\ PositionAtLeast(q.last_log, LastPosition(log[n]))
    BY <2>1
  <2>3. x # n
    BY <2>1
  <2>4. role[x] = "Candidate" /\ current_term[x] = t /\ log'[x] = log[x]
    BY <2>3 DEF SafeStep, LogStep, Others
  <2>5. q.last_log = LastPosition(log[x])
    BY <2>2, <2>4 DEF ReplicationInv, CampaignsAreCurrent
  <2>6. Holds(C, k, log[n])
    BY <2>1
  <2>7. /\ log[n] \in Seq(Entry) /\ log[x] \in Seq(Entry) /\ Ordered(LogPiece(log[n]))
    BY DEF ReplicationInv, PiecesAreOrdered, SafeStep, PiecesAreTyped, LogsAreTyped
  <2>8. PICK s \in Seq(Entry) : s = log[n]
    BY <2>7
  <2>9. Reaches(s, C, k)
    BY <2>6, <2>7, <2>8, HoldsReaches
  <2>10. /\ LastPosition(log[x]).term \in Nat /\ LastPosition(log[x]).index \in Nat
         /\ LastPosition(s).term \in Nat /\ LastPosition(s).index \in Nat
         /\ Position(C, k).term \in Nat /\ Position(C, k).index \in Nat
    BY <1>2, <2>7, LogPieceFacts DEF LastPosition, Position
  <2>11. PositionAtLeast(LastPosition(log[x]), LastPosition(s)) /\ PositionAtLeast(LastPosition(s), Position(C, k))
    BY <2>2, <2>5, <2>8, <2>9 DEF Reaches
  <2>12. PositionAtLeast(LastPosition(log[x]), Position(C, k))
    BY <2>10, <2>11 DEF PositionAtLeast
  <2> QED
    BY <2>4, <2>12 DEF Reaches
<1> QED
  BY <1>3, <1>4

\* What is chosen stays chosen, as long as members of W leave the term with it.
LEMMA ChosenStays ==
  ASSUME TypeOK, TypeOK', NEW n \in Members, SafeStep(n), ReplicationInv, ReplicationInv',
         NEW C \in Seq(Entry), NEW k \in 1..Len(C), NEW W \in CommitQuorums, LogPiece(C) \in Pieces,
         Chosen(C, k, W),
         \A v \in W : current_term[v] <= C[k].term /\ current_term'[v] > C[k].term => Holds(C, k, log[v])
  PROVE  Chosen(C, k, W)'
<1>1. /\ LeaversHold(C, k, W) /\ CandidatesReach(C, k, W)
      /\ ReachingHold(C, k) /\ RequestsKeep(C, k) /\ LeadersHold(C, k)
  BY DEF Chosen
<1>2. /\ LeaversHold(C, k, W)'
      /\ \A v \in W : current_term'[v] > C[k].term => Holds(C, k, log[v])
  BY <1>1, LeaversStay
<1>3. ReachingHold(C, k)'
  BY <1>1, ReachingStay
<1>4. LeadersHold(C, k)'
  BY <1>2, LeadersStay
<1>5. RequestsKeep(C, k)'
  BY <1>1, <1>4, RequestsStayKept
<1>6. CandidatesReach(C, k, W)'
  BY <1>1, <1>2, CandidatesStay
<1> QED
  BY <1>2, <1>3, <1>4, <1>5, <1>6 DEF Chosen

-----------------------------------------------------------------------------
(* What may be chosen is safe.                                              *)

\* Being chosen is about the first k entries only.
LEMMA ChosenSame ==
  ASSUME NEW C \in Seq(Entry), NEW D \in Seq(Entry), NEW k \in 1..Len(C), k <= Len(D),
         \A j \in 1..k : C[j] = D[j], NEW W \in CommitQuorums
  PROVE  /\ Chosen(C, k, W) => Chosen(D, k, W)
         /\ Chosen(C, k, W)' => Chosen(D, k, W)'
         /\ ChosenAt(C, k) => ChosenAt(D, k)
         /\ ChosenAt(C, k)' => ChosenAt(D, k)'
<1>1. /\ k \in Nat /\ k > 0 /\ k \in 1..k /\ k \in 1..Len(D) /\ Len(C) \in Nat /\ Len(D) \in Nat
      /\ C[k] = D[k] /\ k <= Len(C)
  OBVIOUS
<1>2. \A s : Holds(C, k, s) => Holds(D, k, s)
  BY DEF Holds
<1>3. \A s : Reaches(s, D, k) <=> Reaches(s, C, k)
  BY <1>1 DEF Reaches, Position
<1>4. /\ Start(LogPiece(C)) = 0 /\ Start(LogPiece(D)) = 0
      /\ TermAt(LogPiece(C), 0) = 0 /\ TermAt(LogPiece(D), 0) = 0
      /\ \A j \in 1..Len(C) : EntryAt(LogPiece(C), j) = C[j] /\ TermAt(LogPiece(C), j) = C[j].term
      /\ \A j \in 1..Len(D) : EntryAt(LogPiece(D), j) = D[j] /\ TermAt(LogPiece(D), j) = D[j].term
  BY LogPieceFacts
<1>5. ASSUME NEW j \in Nat, j <= k
      PROVE  /\ TermAt(LogPiece(C), j) = TermAt(LogPiece(D), j)
             /\ j > 0 => EntryAt(LogPiece(C), j) = EntryAt(LogPiece(D), j)
  <2>1. CASE j = 0
    BY <1>4, <2>1
  <2>2. CASE j # 0
    <3>1. j \in 1..k /\ j \in 1..Len(C) /\ j \in 1..Len(D)
      BY <1>1, <1>5, <2>2
    <3> QED
      BY <1>4, <3>1
  <2> QED
    BY <2>1, <2>2
<1>6. ASSUME NEW m, Consistent(C, k, m)
      PROVE  Consistent(D, k, m)
  <2>1. ASSUME NEW j, Covers(m, j), j <= k
        PROVE  SameAt(m, LogPiece(D), j)
    <3>1. j \in Nat /\ SameAt(m, LogPiece(C), j)
      BY <1>6, <2>1 DEF Consistent, Covers
    <3>2. TermAt(LogPiece(C), j) = TermAt(LogPiece(D), j)
      BY <1>5, <2>1, <3>1
    <3>3. j > 0 => EntryAt(LogPiece(C), j) = EntryAt(LogPiece(D), j)
      BY <1>5, <2>1, <3>1
    <3> QED
      BY <1>4, <3>1, <3>2, <3>3 DEF SameAt
  <2>2. Start(m) > k => m.previous.term >= D[k].term
    BY <1>1, <1>6 DEF Consistent
  <2> QED
    BY <2>1, <2>2 DEF Consistent
<1>7. ASSUME NEW V \in CommitQuorums
      PROVE  (Chosen(C, k, V) => Chosen(D, k, V)) /\ (Chosen(C, k, V)' => Chosen(D, k, V)')
  <2>1. /\ LeaversHold(C, k, V) => LeaversHold(D, k, V)
        /\ LeaversHold(C, k, V)' => LeaversHold(D, k, V)'
    BY <1>1, <1>2 DEF LeaversHold
  <2>2. /\ CandidatesReach(C, k, V) => CandidatesReach(D, k, V)
        /\ CandidatesReach(C, k, V)' => CandidatesReach(D, k, V)'
    BY <1>1, <1>3 DEF CandidatesReach
  <2>3. /\ ReachingHold(C, k) => ReachingHold(D, k)
        /\ ReachingHold(C, k)' => ReachingHold(D, k)'
    BY <1>2, <1>3 DEF ReachingHold
  <2>4. /\ RequestsKeep(C, k) => RequestsKeep(D, k)
        /\ RequestsKeep(C, k)' => RequestsKeep(D, k)'
    BY <1>1, <1>6 DEF RequestsKeep
  <2>5. /\ LeadersHold(C, k) => LeadersHold(D, k)
        /\ LeadersHold(C, k)' => LeadersHold(D, k)'
    BY <1>1, <1>2 DEF LeadersHold
  <2> QED
    BY <2>1, <2>2, <2>3, <2>4, <2>5 DEF Chosen
<1>8. ChosenAt(C, k) => ChosenAt(D, k)
  BY <1>1, <1>2, <1>7 DEF ChosenAt
<1>9. ChosenAt(C, k)' => ChosenAt(D, k)'
  BY <1>1, <1>2, <1>7 DEF ChosenAt
<1> QED
  BY <1>7, <1>8, <1>9

\* An entry a leader has made in its term is chosen for every commit quorum
\* that nobody has left the term of.
FreshAreChosen ==
  \A n \in Members : role[n] = "Leader" =>
     \A k \in 1..Len(log[n]) : \A W \in CommitQuorums :
        log[n][k].term = current_term[n] /\ (\A v \in W : current_term[v] <= current_term[n])
          => Chosen(log[n], k, W)

\* Nothing newer than the leader's term exists then.
LEMMA FreshFollow == PiecesAreTyped /\ OriginFacts /\ ReplicationInv => FreshAreChosen
<1> SUFFICES ASSUME PiecesAreTyped, OriginFacts, ReplicationInv, NEW n \in Members, role[n] = "Leader",
                    NEW k \in 1..Len(log[n]), NEW W \in CommitQuorums, log[n][k].term = current_term[n],
                    \A v \in W : current_term[v] <= current_term[n]
             PROVE  Chosen(log[n], k, W)
  BY DEF FreshAreChosen
<1>1. \A x \in Members : /\ log[x] \in Seq(Entry) /\ Len(log[x]) \in Nat /\ current_term[x] \in Nat
                         /\ LogPiece(log[x]) \in Pieces
  BY DEF PiecesAreTyped, LogsAreTyped
<1>2. PICK C \in Seq(Entry), T \in Nat : C = log[n] /\ T = current_term[n]
  BY <1>1
<1>3. k \in 1..Len(C) /\ C[k].term = T /\ k \in Nat /\ k > 0 /\ k <= Len(C) /\ Len(C) \in Nat
  BY <1>2
<1>4. \A v \in W : v \in Members
  BY PlanAssumption DEF Members
<1>5. ASSUME NEW c \in Members, NEW t \in Nat, Origin(c, t)
      PROVE  t <= T
  <2>1. PICK Q \in ElectionQuorums : \A v \in Q : current_term[v] >= t
    BY <1>5 DEF OriginFacts, OriginsAreReached
  <2>2. PICK v \in W : v \in Q
    BY PlanAssumption
  <2>3. current_term[v] >= t /\ current_term[v] <= T /\ current_term[v] \in Nat
    BY <1>1, <1>2, <1>4, <2>1, <2>2
  <2> QED
    BY <2>3
<1>6. Origin(n, T)
  BY <1>2 DEF OriginFacts, LeadersAreOrigins
<1>7. LeaversHold(C, k, W)
  BY <1>1, <1>2, <1>3, <1>4 DEF LeaversHold
<1>8. CandidatesReach(C, k, W)
  <2> SUFFICES ASSUME NEW x \in Members, NEW v \in W, current_term[x] > T, Granted(v, current_term[x], x)
               PROVE  FALSE
    BY <1>3 DEF CandidatesReach
  <2>1. current_term[v] >= current_term[x]
    BY <1>1, <1>4 DEF OriginFacts, GrantsAreReached
  <2> QED
    BY <1>1, <1>2, <1>4, <2>1
<1>9. ReachingHold(C, k)
  <2> SUFFICES ASSUME NEW x \in Members, Reaches(log[x], C, k)
               PROVE  Holds(C, k, log[x])
    BY DEF ReachingHold
  <2>1. PICK s \in Seq(Entry) : s = log[x]
    BY <1>1
  <2>2. /\ Len(s) \in Nat /\ Position(s, Len(s)) = [term |-> TermAt(LogPiece(s), Len(s)), index |-> Len(s)]
        /\ TermAt(LogPiece(s), 0) = 0 /\ Covers(LogPiece(s), Len(s))
        /\ \A i \in 1..Len(s) : TermAt(LogPiece(s), i) = s[i].term /\ s[i].term \in Nat
    BY LogPieceFacts
  <2>3. Position(C, k).term = T /\ Position(C, k).index = k
    BY <1>3 DEF Position
  <2> DEFINE t == TermAt(LogPiece(s), Len(s))
  <2>4. LastPosition(s).term = t /\ LastPosition(s).index = Len(s)
    BY <2>2 DEF LastPosition
  <2>5. t > T \/ (t = T /\ Len(s) >= k)
    BY <2>1, <2>3, <2>4 DEF Reaches, PositionAtLeast
  <2>6. Len(s) > 0
    BY <1>2, <1>3, <2>2, <2>5
  <2>7. Len(s) \in 1..Len(s) /\ t \in Nat /\ t = s[Len(s)].term
    BY <2>2, <2>6
  <2>8. LogPiece(s) \in Pieces
    BY <1>1, <2>1
  <2>9. \E c \in Members : Origin(c, t)
    BY <2>2, <2>6, <2>8 DEF ReplicationInv, EntriesHaveOrigins
  <2>10. t = T /\ Len(s) >= k
    BY <1>2, <1>5, <2>5, <2>7, <2>9
  <2>11. Len(s) <= Len(C) /\ C[Len(s)].term = T
    BY <1>2, <2>2, <2>6, <2>8, <2>10 DEF ReplicationInv, LeadersHoldTheirTerm
  <2>12. Agree(LogPiece(s), LogPiece(C))
    BY <1>1, <1>2, <2>8 DEF ReplicationInv, PiecesAgree
  <2>13. PICK i \in Nat : i = Len(s)
    BY <2>2
  <2>14. i <= Len(s) /\ i <= Len(C) /\ k <= i /\ (i > 0 => s[i].term = C[i].term)
    BY <1>3, <2>2, <2>7, <2>10, <2>11, <2>13
  <2>15. Holds(C, k, s)
    BY ONLY <1>3, <2>12, <2>14, AgreeHolds, s \in Seq(Entry), C \in Seq(Entry), i \in Nat
  <2> QED
    BY <2>1, <2>15
<1>10. RequestsKeep(C, k)
  <2> SUFFICES ASSUME NEW m \in Requests, m.term >= T PROVE Consistent(C, k, m)
    BY <1>3 DEF RequestsKeep
  <2>1. m.from \in Members /\ m.term \in Nat /\ IsPiece(m)
    BY DEF PiecesAreTyped, RequestsAreTyped
  <2>2. Origin(m.from, m.term)
    BY DEF ReplicationInv, RequestsHaveOrigins
  <2>3. m.term = T
    BY <1>2, <1>5, <2>1, <2>2
  <2>4. m.from = n
    BY <1>6, <2>1, <2>2, <2>3 DEF OriginFacts, OriginsAreUnique
  <2>5. SliceOf(m, LogPiece(C))
    BY <1>2, <2>3, <2>4 DEF ReplicationInv, RequestsAreSlices
  <2>6. Ordered(LogPiece(C)) /\ Holds(C, k, C)
    BY <1>1, <1>2, <1>3 DEF ReplicationInv, PiecesAreOrdered, Holds
  <2> QED
    BY <1>3, <2>1, <2>5, <2>6, SliceConsistent
<1>11. LeadersHold(C, k)
  <2> SUFFICES ASSUME NEW x \in Members, role[x] = "Leader", current_term[x] >= T PROVE Holds(C, k, log[x])
    BY <1>3 DEF LeadersHold
  <2>1. Origin(x, current_term[x])
    BY DEF OriginFacts, LeadersAreOrigins
  <2>2. current_term[x] = T
    BY <1>1, <1>2, <1>5, <2>1
  <2>3. x = n
    BY <1>6, <2>1, <2>2 DEF OriginFacts, OriginsAreUnique
  <2> QED
    BY <1>2, <1>3, <2>3 DEF Holds
<1>12. Chosen(C, k, W)
  BY <1>7, <1>8, <1>9, <1>10, <1>11 DEF Chosen
<1> QED
  BY <1>2, <1>12

\* The same after a step.
LEMMA FreshFollowNext == PiecesAreTyped' /\ OriginFacts' /\ ReplicationInv' => FreshAreChosen'
BY FreshFollow, PTL

\* What may be chosen stays safe: an entry that is still open is fresh, and one
\* that members have left the term with has been acknowledged by them.
LEMMA MayBeChosenStays ==
  ASSUME TypeOK, TypeOK', NEW n \in Members, SafeStep(n), ReplicationInv, ReplicationInv',
         WhatMayBeChosenIsSafe
  PROVE  WhatMayBeChosenIsSafe'
<1> SUFFICES ASSUME NEW x \in Members, role'[x] = "Leader", NEW i \in 1..Len(log'[x]), NEW W \in CommitQuorums,
                    log'[x][i].term = current_term'[x], CanBeChosen(x, i, W)'
             PROVE  Chosen(log[x], i, W)'
  BY DEF WhatMayBeChosenIsSafe
<1>1. /\ \A v \in W : v \in Members
      /\ \A v \in Members : /\ current_term[v] \in Nat /\ current_term'[v] \in Nat
                            /\ current_term'[v] >= current_term[v]
  BY PlanAssumption, TermsGrow DEF Members
<1>2. \A v \in W : current_term'[v] <= current_term'[x] \/ Acked(x, v, i)'
  BY DEF CanBeChosen
<1>3. i \in Nat
  OBVIOUS
<1>4. CASE \A v \in W : current_term'[v] <= current_term'[x]
  <2>1. FreshAreChosen'
    BY FreshFollowNext DEF SafeStep
  <2> QED
    BY <1>4, <2>1 DEF FreshAreChosen
<1>5. ASSUME NEW v \in W, current_term'[v] > current_term'[x]
      PROVE  /\ role[x] = "Leader" /\ current_term'[x] = current_term[x]
             /\ log'[x] = log[x] \/ (x = n /\ Extends(n))
             /\ Acked(x, v, i) /\ current_term[v] >= current_term[x] /\ i <= Len(log[x])
  <2>1. Acked(x, v, i)' /\ v \in Members
    BY <1>1, <1>2, <1>5
  <2>2. v # x
    BY <1>1, <1>5
  <2>3. ~(\E m \in Requests : /\ Follows(n, m) /\ v = n /\ m.from = x /\ x # n
                              /\ m.term = current_term'[x] /\ i <= End(m))
    BY <1>1, <1>5 DEF Follows
  <2>4. /\ EntriesHaveOrigins /\ RequestsHaveOrigins /\ RequestsAreSlices /\ NumbersAreUnique'
        /\ AcceptancesAreReal
    BY DEF ReplicationInv
  <2> QED
    BY <1>3, <2>1, <2>2, <2>3, <2>4, AckCases
<1>6. CASE \E v \in W : current_term'[v] > current_term'[x]
  <2>1. /\ role[x] = "Leader" /\ current_term'[x] = current_term[x] /\ i <= Len(log[x])
        /\ log'[x] = log[x] \/ (x = n /\ Extends(n))
    BY <1>5, <1>6
  <2>2. /\ log[x] \in Seq(Entry) /\ log'[x] \in Seq(Entry) /\ LogPiece(log[x]) \in Pieces
        /\ Len(log[x]) \in Nat /\ Len(log'[x]) \in Nat
    BY DEF SafeStep, PiecesAreTyped, LogsAreTyped
  <2>3. PICK C \in Seq(Entry), D \in Seq(Entry) : C = log[x] /\ D = log'[x]
    BY <2>2
  <2>4. i \in 1..Len(C) /\ i <= Len(D) /\ \A j \in 1..i : C[j] = D[j]
    BY <1>3, <2>1, <2>2, <2>3, LeadersGrow
  <2>5. C[i].term = current_term[x]
    BY <1>3, <2>1, <2>3, <2>4
  <2>6. CanBeChosen(x, i, W)
    <3> SUFFICES ASSUME NEW v \in W PROVE current_term[v] <= current_term[x] \/ Acked(x, v, i)
      BY DEF CanBeChosen
    <3>1. CASE current_term'[v] <= current_term'[x]
      BY <1>1, <2>1, <3>1
    <3>2. CASE current_term'[v] > current_term'[x]
      BY <1>5, <3>2
    <3> QED
      BY <1>1, <3>1, <3>2
  <2>7. Chosen(C, i, W)
    BY <2>1, <2>3, <2>4, <2>5, <2>6 DEF WhatMayBeChosenIsSafe
  <2>8. ASSUME NEW v \in W, current_term[v] <= C[i].term, current_term'[v] > C[i].term
        PROVE  Holds(C, i, log[v])
    <3>1. Acked(x, v, i) /\ current_term[v] >= current_term[x]
      BY <1>5, <2>1, <2>5, <2>8
    <3>2. current_term[v] = current_term[x] /\ v \in Members
      BY <1>1, <2>5, <2>8, <3>1
    <3> QED
      BY <1>3, <2>1, <2>3, <3>1, <3>2 DEF ReplicationInv, AcksAreHeld
  <2>9. LogPiece(C) \in Pieces
    BY <2>2, <2>3
  <2>10. Chosen(C, i, W)'
    BY <2>4, <2>7, <2>8, <2>9, ChosenStays
  <2>11. Chosen(D, i, W)'
    BY <2>4, <2>10, ChosenSame
  <2> QED
    BY <2>3, <2>11
<1> QED
  BY <1>1, <1>4, <1>6

\* An entry of the term that a leader counts as matched by a commit quorum is
\* chosen, and the quorum holds it.
MatchedAreChosen ==
  \A n \in Members : role[n] = "Leader" =>
     \A c \in 1..Len(log[n]) : \A W \in CommitQuorums :
        log[n][c].term = current_term[n] /\ (\A v \in W : leader[n].matched[v] >= c) => ChosenAt(log[n], c)

\* The answers that were counted are evidence.
LEMMA MatchedFollow ==
  TypeOK /\ PiecesAreTyped /\ ReplicationInv /\ WhatMayBeChosenIsSafe => MatchedAreChosen
<1> SUFFICES ASSUME TypeOK, PiecesAreTyped, ReplicationInv, WhatMayBeChosenIsSafe, NEW n \in Members,
                    role[n] = "Leader", NEW c \in 1..Len(log[n]), NEW W \in CommitQuorums,
                    log[n][c].term = current_term[n], \A v \in W : leader[n].matched[v] >= c
             PROVE  ChosenAt(log[n], c)
  BY DEF MatchedAreChosen
<1>1. /\ \A v \in W : v \in Members
      /\ \A v \in Members : current_term[v] \in Nat
      /\ log[n] \in Seq(Entry) /\ Len(log[n]) \in Nat /\ c \in Nat /\ c > 0
  BY PlanAssumption DEF Members, PiecesAreTyped, LogsAreTyped
<1>2. ASSUME NEW v \in W
      PROVE  Acked(n, v, c) /\ current_term[v] >= current_term[n]
  <2>1. v \in Members
    BY <1>1
  <2>2. PICK i \in Nat : i = leader[n].matched[v]
    BY <2>1 DEF TypeOK, LeaderTyped, LeaderState
  <2>3. i >= c /\ i # 0
    BY <1>1, <2>2
  <2>4. Acked(n, v, i)
    BY <2>1, <2>2, <2>3 DEF ReplicationInv, MatchesAreAcked
  <2>5. CASE v = n /\ i <= Len(log[n])
    BY <1>1, <2>3, <2>5 DEF Acked
  <2>6. ASSUME NEW r \in Requests, NEW a \in messages, r.kind = "Replication", r.from = n, r.to = v,
               r.term = current_term[n], Accepts(a, r), i <= Through(r.previous, r.entries).index
        PROVE  Acked(n, v, c) /\ current_term[v] >= current_term[n]
    <3>1. a.type = "AppendResponse" /\ a.accepted /\ a.from = v /\ a.term = current_term[n]
      BY <2>6 DEF Accepts
    <3>2. current_term[v] >= current_term[n]
      BY <3>1 DEF ReplicationInv, AcceptancesAreReal
    <3>3. Through(r.previous, r.entries).index \in Nat
      BY PieceFacts DEF PiecesAreTyped, RequestsAreTyped
    <3>4. c <= Through(r.previous, r.entries).index
      BY <1>1, <2>3, <2>6, <3>3
    <3> QED
      BY <2>6, <3>2, <3>4 DEF Acked
  <2> QED
    BY <2>4, <2>5, <2>6 DEF Acked
<1>3. CanBeChosen(n, c, W)
  BY <1>2 DEF CanBeChosen
<1>4. Chosen(log[n], c, W)
  BY <1>3 DEF WhatMayBeChosenIsSafe
<1>5. ASSUME NEW v \in W
      PROVE  current_term[v] >= log[n][c].term /\ Holds(log[n], c, log[v])
  <2>1. Acked(n, v, c) /\ current_term[v] >= current_term[n] /\ v \in Members
    BY <1>1, <1>2
  <2>2. CASE current_term[v] = current_term[n]
    BY <1>1, <2>1, <2>2 DEF ReplicationInv, AcksAreHeld
  <2>3. CASE current_term[v] > current_term[n]
    BY <1>4, <2>1, <2>3 DEF Chosen, LeaversHold
  <2> QED
    BY <1>1, <2>1, <2>2, <2>3
<1> QED
  BY <1>4, <1>5 DEF ChosenAt

\* The same after a step.
LEMMA MatchedFollowNext ==
  TypeOK' /\ PiecesAreTyped' /\ ReplicationInv' /\ WhatMayBeChosenIsSafe' => MatchedAreChosen'
BY MatchedFollow, PTL

\* What is chosen and held by a quorum stays so.
LEMMA ChosenAtStays ==
  ASSUME TypeOK, TypeOK', NEW n \in Members, SafeStep(n), ReplicationInv, ReplicationInv',
         NEW C \in Seq(Entry), NEW k \in 1..Len(C), LogPiece(C) \in Pieces, ChosenAt(C, k)
  PROVE  ChosenAt(C, k)'
<1>1. PICK W \in CommitQuorums :
        /\ Chosen(C, k, W)
        /\ \A v \in W : current_term[v] >= C[k].term /\ Holds(C, k, log[v])
  BY DEF ChosenAt
<1>2. \A v \in W : v \in Members
  BY PlanAssumption DEF Members
<1>3. Chosen(C, k, W)'
  BY <1>1, ChosenStays
<1>4. C[k].term \in Nat /\ RequestsKeep(C, k)
  BY <1>1, LogPieceFacts DEF Chosen
<1>5. ASSUME NEW v \in W
      PROVE  current_term'[v] >= C[k].term /\ Holds(C, k, log'[v])
  <2>1. v \in Members /\ current_term[v] >= C[k].term /\ Holds(C, k, log[v])
    BY <1>1, <1>2
  <2>2. current_term[v] \in Nat /\ current_term'[v] \in Nat /\ current_term'[v] >= current_term[v]
    BY <2>1, TermsGrow
  <2>3. current_term'[v] >= C[k].term
    BY <1>4, <2>1, <2>2
  <2> QED
    BY <1>4, <2>1, <2>3, HoldsStays
<1> QED
  BY <1>3, <1>5 DEF ChosenAt

\* Of two chosen parts the one with the older end is a prefix of the other.
ChosenAreOne ==
  \A C, D \in Seq(Entry) : \A c \in 1..Len(C), d \in 1..Len(D) :
     /\ ElectionQuorums # {} /\ ChosenAt(C, c) /\ ChosenAt(D, d)
     /\ PositionAtLeast(Position(D, d), Position(C, c))
     => c <= d /\ \A j \in 1..c : C[j] = D[j]

\* Somebody holds both.
LEMMA ChosenFollow == PiecesAreTyped /\ ReplicationInv => ChosenAreOne
<1> SUFFICES ASSUME PiecesAreTyped, ReplicationInv, NEW C \in Seq(Entry), NEW D \in Seq(Entry),
                    NEW c \in 1..Len(C), NEW d \in 1..Len(D), ElectionQuorums # {},
                    ChosenAt(C, c), ChosenAt(D, d), PositionAtLeast(Position(D, d), Position(C, c))
             PROVE  c <= d /\ \A j \in 1..c : C[j] = D[j]
  BY DEF ChosenAreOne
<1>1. PICK W \in CommitQuorums : \A v \in W : Holds(D, d, log[v])
  BY DEF ChosenAt
<1>2. ReachingHold(C, c)
  BY DEF ChosenAt, Chosen
<1>3. d > 0 /\ D[d].term \in Nat /\ C[c].term \in Nat /\ Len(C) \in Nat /\ Len(D) \in Nat
  BY LogPieceFacts
<1>4. PICK Q \in ElectionQuorums : TRUE
  OBVIOUS
<1>5. PICK v \in W : v \in Q
  BY PlanAssumption
<1>6. v \in Members
  BY <1>5, PlanAssumption DEF Members
<1>7. PICK s \in Seq(Entry) : s = log[v]
  BY <1>6 DEF PiecesAreTyped, LogsAreTyped
<1>8. Ordered(LogPiece(s)) /\ Holds(D, d, s)
  BY <1>1, <1>5, <1>6, <1>7 DEF ReplicationInv, PiecesAreOrdered, PiecesAreTyped, LogsAreTyped
<1>9. Reaches(s, D, d)
  BY <1>8, HoldsReaches
<1>10. /\ LastPosition(s).term \in Nat /\ LastPosition(s).index \in Nat
       /\ Position(C, c).term = C[c].term /\ Position(C, c).index = c
       /\ Position(D, d).term = D[d].term /\ Position(D, d).index = d
  BY <1>3, LogPieceFacts DEF LastPosition, Position
<1>11. PositionAtLeast(LastPosition(s), Position(C, c))
  BY <1>3, <1>9, <1>10 DEF Reaches, PositionAtLeast
<1>12. Holds(C, c, s)
  BY <1>2, <1>6, <1>7, <1>11 DEF ReachingHold, Reaches
<1>13. /\ Len(s) \in Nat /\ c <= Len(s) /\ d <= Len(s)
       /\ \A j \in 1..c : s[j] = C[j]
       /\ \A j \in 1..d : s[j] = D[j]
  BY <1>8, <1>12 DEF Holds
<1>14. c <= d
  <2> SUFFICES ASSUME c > d PROVE FALSE
    OBVIOUS
  <2>1. d \in 0..Len(s) /\ c \in 0..Len(s) /\ d \in 1..Len(s) /\ c \in 1..Len(s) /\ d <= c /\ c \in 1..c /\ d \in 1..d
    BY <1>13
  <2>2. TermAt(LogPiece(s), d) <= TermAt(LogPiece(s), c)
    BY <1>8, <2>1, LogPieceFacts DEF Ordered
  <2>3. TermAt(LogPiece(s), d) = s[d].term /\ TermAt(LogPiece(s), c) = s[c].term
    BY <2>1, LogPieceFacts
  <2>4. D[d].term <= C[c].term
    BY <1>13, <2>1, <2>2, <2>3
  <2>5. PositionAtLeast(Position(D, d), Position(C, c))
    OBVIOUS
  <2> QED
    BY <1>3, <1>10, <2>4, <2>5 DEF PositionAtLeast
<1> QED
  BY <1>13, <1>14

\* The same after a step.
LEMMA ChosenFollowNext == PiecesAreTyped' /\ ReplicationInv' => ChosenAreOne'
BY ChosenFollow, PTL

-----------------------------------------------------------------------------
(* What is committed.                                                       *)

\* The committed history only grows.
HistoryGrows ==
  Len(committed) <= Len(committed') /\ \A j \in 1..Len(committed) : committed'[j] = committed[j]

\* What lies below a committed index is committed as well.
LEMMA BackedBelow ==
  ASSUME NEW i \in Nat, NEW j \in Nat, NEW t \in Nat, j <= i, committed \in Seq(Entry), committed' \in Seq(Entry)
  PROVE  (Backed(i, t) => Backed(j, t)) /\ (Backed(i, t)' => Backed(j, t)')
<1>1. Len(committed) \in Nat /\ Len(committed') \in Nat
  OBVIOUS
<1>2. Backed(i, t) => Backed(j, t)
  BY <1>1 DEF Backed
<1>3. Backed(i, t)' => Backed(j, t)'
  BY <1>1 DEF Backed
<1> QED
  BY <1>2, <1>3

\* What was committed in a term stays committed, and in later terms.
LEMMA BackedStays ==
  ASSUME TypeOK, TypeOK', NEW n \in Members, SafeStep(n), ReplicationInv, ReplicationInv', HistoryGrows,
         NEW i \in Nat, NEW t \in Nat, NEW u \in Nat, t <= u, Backed(i, t)
  PROVE  Backed(i, u)'
<1>1. /\ committed \in Seq(Entry) /\ committed' \in Seq(Entry) /\ LogPiece(committed) \in Pieces
      /\ Len(committed) \in Nat /\ Len(committed') \in Nat
  BY DEF SafeStep, PiecesAreTyped, LogsAreTyped
<1>2. CASE i = 0
  BY <1>2 DEF Backed
<1>3. ASSUME NEW k \in 1..Len(committed), i <= k, ChosenAt(committed, k), committed[k].term <= t
      PROVE  Backed(i, u)'
  <2>1. PICK C \in Seq(Entry), D \in Seq(Entry) : C = committed /\ D = committed'
    BY <1>1
  <2>2. k \in 1..Len(C) /\ k <= Len(D) /\ LogPiece(C) \in Pieces /\ ChosenAt(C, k)
        /\ \A j \in 1..k : C[j] = D[j]
    BY <1>1, <1>3, <2>1 DEF HistoryGrows
  <2>3. ChosenAt(C, k)'
    BY <2>2, ChosenAtStays
  <2>4. ASSUME NEW W \in CommitQuorums PROVE ChosenAt(D, k)'
    BY <2>2, <2>3, ChosenSame
  <2>5. ChosenAt(D, k)'
    BY <2>3, <2>4 DEF ChosenAt
  <2>6. k \in 1..Len(committed') /\ committed'[k] = C[k]
    BY <1>1, <1>3, <2>1, <2>2
  <2>7. C[k].term <= u
    <3>1. C[k].term \in Nat /\ C[k].term <= t
      BY <1>3, <2>1, <2>2, LogPieceFacts
    <3> QED
      BY <3>1
  <2>8. ChosenAt(committed, k)'
    BY <2>1, <2>5
  <2> QED
    BY <1>3, <2>6, <2>7, <2>8 DEF Backed
<1> QED
  BY <1>2, <1>3 DEF Backed

\* A leader that moves its commit index commits what the history holds, or
\* extends the history.
LEMMA LeaderCommitsSafely ==
  ASSUME TypeOK, TypeOK', NEW n \in Members, SafeStep(n), ReplicationInv, ReplicationInv',
         WhatMayBeChosenIsSafe', CommitsAreBacked, role'[n] = "Leader", current_term'[n] = current_term[n],
         NEW c \in 1..Len(log'[n]), log'[n][c].term = current_term[n],
         NEW W \in CommitQuorums, \A v \in W : leader'[n].matched[v] >= c,
         committed' = IF c > Len(committed) THEN Prefix(log'[n], c) ELSE committed
  PROVE  /\ HistoryGrows /\ Holds(committed', c, log'[n]) /\ c <= Len(committed')
         /\ ChosenAt(committed, c)' /\ committed'[c].term = current_term'[n]
         /\ committed' = committed \/ c = Len(committed')
<1>1. /\ committed \in Seq(Entry) /\ committed' \in Seq(Entry) /\ LogPiece(committed) \in Pieces
      /\ Len(committed) \in Nat /\ Len(committed') \in Nat
      /\ log'[n] \in Seq(Entry) /\ Len(log'[n]) \in Nat /\ LogPiece(log'[n]) \in Pieces'
      /\ c \in Nat /\ c > 0 /\ c <= Len(log'[n])
  BY DEF SafeStep, PiecesAreTyped, LogsAreTyped
<1>2. PICK C \in Seq(Entry), D \in Seq(Entry), E \in Seq(Entry) :
        C = committed /\ D = log'[n] /\ E = committed'
  BY <1>1
<1>3. ChosenAt(D, c)'
  <2>1. MatchedAreChosen'
    BY MatchedFollowNext DEF SafeStep
  <2>2. ChosenAt(log[n], c)'
    BY <2>1 DEF MatchedAreChosen
  <2> QED
    BY <1>2, <2>2
<1>4. c > Len(C) => Len(E) = c /\ \A j \in 1..c : E[j] = D[j]
  BY <1>1, <1>2, PrefixFacts
<1>5. c <= Len(C) => E = C
  BY <1>1, <1>2
<1>6. ASSUME Len(C) > 0, Len(C) <= c, \A j \in 1..Len(C) : C[j] = D[j]
      PROVE  /\ Len(C) <= Len(E) /\ \A j \in 1..Len(C) : E[j] = C[j]
             /\ c <= Len(E) /\ \A j \in 1..c : E[j] = D[j]
  <2>1. CASE c > Len(C)
    BY <1>1, <1>2, <1>4, <1>6, <2>1
  <2>2. CASE c = Len(C)
    BY <1>1, <1>2, <1>5, <1>6, <2>2
  <2> QED
    BY <1>1, <1>2, <1>6, <2>1, <2>2
<1>7. /\ Len(C) <= Len(E) /\ \A j \in 1..Len(C) : E[j] = C[j]
      /\ c <= Len(E) /\ \A j \in 1..c : E[j] = D[j]
  <2>1. CASE Len(C) = 0
    BY <1>1, <1>4, <2>1
  <2>2. CASE Len(C) # 0
    <3> DEFINE K == Len(C)
    <3>1. K \in 1..Len(C) /\ K > 0 /\ K \in Nat /\ C # <<>>
      BY <1>1, <1>2, <2>2
    <3>2. ChosenAt(C, K)
      BY <1>2, <3>1 DEF CommitsAreBacked
    <3>3. ChosenAt(C, K)'
      <4>1. PICK k \in 1..Len(C) : k = K
        BY <3>1
      <4>2. ChosenAt(C, k) /\ LogPiece(C) \in Pieces
        BY <1>1, <1>2, <3>2, <4>1
      <4>3. ChosenAt(C, k)'
        BY <4>2, ChosenAtStays
      <4> QED
        BY <4>1, <4>3
    <3>4. ChosenAreOne' /\ ElectionQuorums # {} /\ c \in 1..Len(D)
      <4>1. Origin(n, current_term[n])'
        BY DEF SafeStep, OriginFacts, LeadersAreOrigins
      <4>2. ElectionQuorums # {}
        BY <4>1 DEF Origin
      <4> QED
        BY <1>1, <1>2, <4>2, ChosenFollowNext DEF SafeStep
    <3>5. /\ Position(C, K).term = C[K].term /\ Position(C, K).index = K /\ C[K].term \in Nat
          /\ Position(D, c).term = D[c].term /\ Position(D, c).index = c /\ D[c].term \in Nat
      BY <1>1, <1>2, <3>1, <3>4, LogPieceFacts DEF Position
    <3>6. PositionAtLeast(Position(D, c), Position(C, K)) \/ PositionAtLeast(Position(C, K), Position(D, c))
      BY <1>1, <3>1, <3>5 DEF PositionAtLeast
    <3>7. CASE PositionAtLeast(Position(D, c), Position(C, K))
      <4>1. K <= c /\ \A j \in 1..K : C[j] = D[j]
        BY <1>3, <3>1, <3>3, <3>4, <3>7 DEF ChosenAreOne
      <4> QED
        BY <1>6, <3>1, <4>1
    <3>8. CASE PositionAtLeast(Position(C, K), Position(D, c))
      <4>1. c <= K /\ \A j \in 1..c : D[j] = C[j]
        BY <1>3, <3>1, <3>3, <3>4, <3>8 DEF ChosenAreOne
      <4>2. E = C
        BY <1>5, <4>1
      <4> QED
        BY <3>1, <4>1, <4>2
    <3> QED
      BY <3>6, <3>7, <3>8
  <2> QED
    BY <2>1, <2>2
<1>8. ChosenAt(E, c)'
  <2>1. c \in 1..Len(D) /\ c <= Len(E) /\ \A j \in 1..c : D[j] = E[j]
    BY <1>1, <1>2, <1>7
  <2> QED
    BY <1>3, <2>1, ChosenSame
<1>9. E = C \/ c = Len(E)
  BY <1>1, <1>2, <1>4, <1>5
<1>10. E[c].term = current_term'[n]
  BY <1>1, <1>2, <1>7
<1> QED
  BY <1>1, <1>2, <1>7, <1>8, <1>9, <1>10 DEF HistoryGrows, Holds

\* What an append proves of the committed history its receiver then holds.
LEMMA FollowHolds ==
  ASSUME NEW n \in Members, SafeStep(n), ReplicationInv, NEW C \in Seq(Entry), NEW k \in 1..Len(C),
         LogPiece(C) \in Pieces, ReachingHold(C, k), RequestsKeep(C, k),
         NEW m \in Requests, Follows(n, m), m.term >= C[k].term,
         NEW c \in Nat, c > 0, c <= k, c <= End(m)
  PROVE  Holds(C, c, log'[n])
<1>1. PICK s \in Seq(Entry), d \in Seq(Entry) : s = log[n] /\ d = log'[n]
  BY DEF SafeStep, PiecesAreTyped, LogsAreTyped
<1>2. PositionMatches(s, m.previous) /\ d = AppendDelta(s, m.previous.index, m.entries)
  BY <1>1 DEF Follows
<1>3. IsPiece(m) /\ Consistent(C, k, m)
  BY DEF SafeStep, PiecesAreTyped, RequestsAreTyped, RequestsKeep
<1>4. Agree(LogPiece(d), LogPiece(C)) /\ Ordered(LogPiece(s))
  BY <1>1, LogAgrees DEF ReplicationInv, PiecesAreOrdered, SafeStep, PiecesAreTyped, LogsAreTyped
<1>5. /\ Start(m) \in Nat /\ End(m) \in Nat /\ Start(m) <= End(m) /\ Len(C) \in Nat /\ k \in Nat /\ k <= Len(C)
      /\ C[k].term \in Nat
  BY <1>3, PieceFacts, LogPieceFacts
<1>6. SliceOf(m, LogPiece(d)) /\ End(m) <= Len(d) /\ Len(d) \in Nat
  BY <1>2, <1>3, JoinFacts, JoinPieces
<1>7. ASSUME NEW i \in Nat, Covers(m, i), i > 0, i <= k, c <= i
      PROVE  Holds(C, c, d)
  <2>1. SameAt(m, LogPiece(C), i)
    BY <1>3, <1>7 DEF Consistent
  <2>2. TermAt(LogPiece(d), i) = TermAt(LogPiece(C), i)
    <3>1. TermAt(m, i) = TermAt(LogPiece(d), i)
      BY <1>3, <1>6, <1>7, SliceFacts, LogPieceFacts
    <3> QED
      BY <2>1, <3>1 DEF SameAt
  <2>3. i <= Len(d) /\ i <= Len(C) /\ i \in 1..Len(d) /\ i \in 1..Len(C)
    BY <1>5, <1>6, <1>7 DEF Covers
  <2>4. d[i].term = C[i].term
    <3>1. TermAt(LogPiece(d), i) = d[i].term
      BY <2>3, LogPieceFacts
    <3>2. TermAt(LogPiece(C), i) = C[i].term
      BY <2>3, LogPieceFacts
    <3> QED
      BY <2>2, <3>1, <3>2
  <2>5. i > 0 => d[i].term = C[i].term
    BY <2>4
  <2> QED
    BY ONLY <1>4, <1>7, <2>3, <2>5, AgreeHolds, d \in Seq(Entry), C \in Seq(Entry), c \in Nat, i \in Nat
<1>8. CASE c >= Start(m)
  <2>1. Covers(m, c) /\ c <= c
    BY <1>5, <1>8 DEF Covers
  <2> QED
    BY <1>1, <1>7, <2>1
<1>9. CASE c < Start(m) /\ Start(m) <= k
  <2>1. Covers(m, Start(m)) /\ Start(m) > 0 /\ c <= Start(m)
    BY <1>3, <1>5, <1>9, PieceFacts
  <2> QED
    BY <1>1, <1>5, <1>7, <1>9, <2>1
<1>10. CASE Start(m) > k
  <2>1. m.previous.term >= C[k].term
    BY <1>3, <1>10 DEF Consistent
  <2>2. Start(m) <= Len(s) /\ TermAt(LogPiece(s), Start(m)) = m.previous.term /\ Len(s) \in Nat
    BY <1>2, <1>3, JoinFacts
  <2>3. Start(m) \in 1..Len(s) /\ Len(s) \in 1..Len(s) /\ Start(m) \in 0..Len(s) /\ Len(s) \in 0..Len(s)
    BY <1>5, <1>10, <2>2
  <2>4. /\ TermAt(LogPiece(s), Len(s)) = s[Len(s)].term /\ TermAt(LogPiece(s), Start(m)) = s[Start(m)].term
        /\ s[Len(s)].term \in Nat /\ s[Start(m)].term \in Nat
    BY <2>3, LogPieceFacts
  <2>5. TermAt(LogPiece(s), Start(m)) <= TermAt(LogPiece(s), Len(s))
    BY <1>4, <2>2, <2>3, LogPieceFacts DEF Ordered
  <2>6. s[Len(s)].term >= C[k].term
    BY <1>5, <2>1, <2>2, <2>4, <2>5
  <2>7. /\ LastPosition(s).term = s[Len(s)].term /\ LastPosition(s).index = Len(s)
        /\ Position(C, k).term = C[k].term /\ Position(C, k).index = k
    BY <1>5, <2>3 DEF LastPosition, Position
  <2>8. Reaches(s, C, k)
    BY <1>5, <1>10, <2>2, <2>4, <2>6, <2>7 DEF Reaches, PositionAtLeast
  <2>9. Holds(C, k, log[n])
    BY <1>1, <2>8 DEF ReachingHold
  <2>10. current_term'[n] >= C[k].term
    BY DEF Follows
  <2>11. Holds(C, k, log'[n])
    BY <2>9, <2>10, HoldsStays
  <2> QED
    BY <1>5, <2>11 DEF Holds
<1> QED
  BY <1>5, <1>8, <1>9, <1>10

\* The committed part of a log stays where it is, whoever it follows.
LEMMA CommittedKept ==
  ASSUME TypeOK, NEW n \in Members, SafeStep(n), NEW x \in Members, CommitsAreBacked, CommitsAgree
  PROVE  Holds(committed, commit_index[x], log'[x]) /\ commit_index[x] <= Len(committed)
<1>1. PICK C \in Seq(Entry), i \in Nat : C = committed /\ i = commit_index[x]
  BY DEF SafeStep, PiecesAreTyped, LogsAreTyped
<1>2. Holds(C, i, log[x]) /\ Backed(i, current_term[x])
  BY <1>1 DEF CommitsAreBacked, CommitsAgree
<1>3. /\ current_term[x] \in Nat /\ current_term'[x] \in Nat /\ current_term'[x] >= current_term[x]
      /\ Len(log'[x]) \in Nat /\ Len(C) \in Nat
  <2>1. Len(log'[x]) \in Nat
    BY DEF SafeStep, PiecesAreTyped, LogsAreTyped
  <2> QED
    BY <2>1, TermsGrow
<1>4. CASE i = 0
  BY <1>1, <1>3, <1>4 DEF Holds
<1>5. CASE i # 0
  <2>1. PICK k \in 1..Len(C) : i <= k /\ ChosenAt(C, k) /\ C[k].term <= current_term[x]
    BY <1>1, <1>2, <1>5 DEF Backed
  <2>2. C[k].term \in Nat /\ RequestsKeep(C, k)
    BY <2>1, LogPieceFacts DEF ChosenAt, Chosen
  <2>3. CASE log'[x] = log[x] \/ (x = n /\ Extends(n))
    <3>1. Len(log[x]) <= Len(log'[x]) /\ \A j \in 1..Len(log[x]) : log'[x][j] = log[x][j]
      BY <2>3, LeadersGrow
    <3>2. Len(log[x]) \in Nat /\ i <= Len(log[x]) /\ \A j \in 1..i : j \in 1..Len(log[x]) /\ log[x][j] = C[j]
      BY <1>2 DEF Holds, SafeStep, PiecesAreTyped, LogsAreTyped
    <3>3. Holds(C, i, log'[x])
      BY <1>3, <3>1, <3>2 DEF Holds
    <3> QED
      BY <1>1, <1>3, <2>1, <3>3
  <2>4. ASSUME NEW m \in Requests, x = n, Follows(n, m)
        PROVE  Holds(C, i, log'[x])
    <3>1. /\ PositionMatches(log[n], m.previous) /\ log'[n] = AppendDelta(log[n], m.previous.index, m.entries)
          /\ m.term >= current_term[n] /\ m.term = current_term'[n]
      BY <2>4 DEF Follows
    <3>2. m.term >= C[k].term
      BY <1>3, <2>1, <2>2, <2>4, <3>1
    <3>3. Consistent(C, k, m) /\ IsPiece(m)
      BY <2>2, <3>2 DEF RequestsKeep, SafeStep, PiecesAreTyped, RequestsAreTyped
    <3>4. \A j : Covers(m, j) /\ j <= i => SameAt(m, LogPiece(C), j)
      BY <1>3, <2>1, <3>3 DEF Consistent, Covers
    <3>5. PICK s \in Seq(Entry) : s = log[n]
      BY DEF SafeStep, PiecesAreTyped, LogsAreTyped
    <3>6. i <= Len(C)
      BY <1>3, <2>1
    <3> QED
      BY <1>2, <2>4, <3>1, <3>3, <3>4, <3>5, <3>6, JoinHolds
  <2>5. i <= Len(C)
    BY <1>3, <2>1
  <2> QED
    BY <1>1, <2>3, <2>4, <2>5, LogChanges
<1> QED
  BY <1>4, <1>5

\* The parts of the commit invariant, when the history grows and the commit
\* index of n is backed and held.
LEMMA CommitsCombine ==
  ASSUME TypeOK, TypeOK', NEW n \in Members, SafeStep(n), ReplicationInv, ReplicationInv',
         CommitsAreBacked, CommitsAgree, HistoryGrows,
         committed' = committed \/ ChosenAt(committed, Len(committed))',
         NEW c \in Nat, c = commit_index'[n], NEW t \in Nat, t = current_term'[n],
         Holds(committed', c, log'[n]), Backed(c, t)'
  PROVE  CommitsAreBacked' /\ CommitsAgree'
<1>1. /\ committed \in Seq(Entry) /\ committed' \in Seq(Entry) /\ LogPiece(committed) \in Pieces
      /\ Len(committed) \in Nat /\ Len(committed') \in Nat
  BY DEF SafeStep, PiecesAreTyped, LogsAreTyped
<1>2. \A x \in Members : x # n => /\ commit_index'[x] = commit_index[x] /\ current_term'[x] = current_term[x]
                                  /\ log'[x] = log[x]
  BY DEF SafeStep, LogStep, Others
<1>3. committed' # <<>> => ChosenAt(committed, Len(committed))'
  <2> SUFFICES ASSUME committed' = committed, committed # <<>> PROVE ChosenAt(committed, Len(committed))'
    OBVIOUS
  <2>1. PICK C \in Seq(Entry), k \in Nat : C = committed /\ k = Len(committed)
    BY <1>1
  <2>2. k \in 1..Len(C) /\ ChosenAt(C, k) /\ LogPiece(C) \in Pieces
    BY <1>1, <2>1 DEF CommitsAreBacked
  <2>3. ChosenAt(C, k)'
    BY <2>2, ChosenAtStays
  <2> QED
    BY <2>1, <2>3
<1>4. ASSUME NEW x \in Members
      PROVE  Backed(commit_index[x], current_term[x])' /\ Holds(committed', commit_index'[x], log'[x])
  <2>1. CASE x = n
    BY <2>1
  <2>2. CASE x # n
    <3>1. PICK i \in Nat, u \in Nat : i = commit_index[x] /\ u = current_term[x]
      BY DEF SafeStep, PiecesAreTyped, LogsAreTyped
    <3>2. i = commit_index'[x] /\ u = current_term'[x]
      BY <1>2, <2>2, <3>1
    <3>3. Backed(i, u)
      BY <3>1 DEF CommitsAreBacked
    <3>4. Backed(i, u)'
      BY <3>3, BackedStays
    <3>5. Holds(committed, i, log'[x]) /\ i <= Len(committed)
      BY <3>1, CommittedKept
    <3>6. Holds(committed', i, log'[x])
      BY <1>1, <3>5 DEF Holds, HistoryGrows
    <3> QED
      BY <3>2, <3>4, <3>6
  <2> QED
    BY <2>1, <2>2
<1>5. ASSUME NEW m \in Requests'
      PROVE  Backed(m.leader_commit_index, m.term)'
  <2>1. m.leader_commit_index \in Nat /\ m.term \in Nat
    BY DEF SafeStep, PiecesAreTyped, RequestsAreTyped
  <2>2. CASE m \in Requests
    <3>1. Backed(m.leader_commit_index, m.term)
      BY <2>2 DEF CommitsAreBacked
    <3>2. PICK i \in Nat, u \in Nat : i = m.leader_commit_index /\ u = m.term
      BY <2>1
    <3>3. Backed(i, u)'
      BY <3>1, <3>2, BackedStays
    <3> QED
      BY <3>2, <3>3
  <2>3. CASE m \notin Requests
    <3>1. m.term = t /\ m.leader_commit_index <= c
      BY <2>3, NewRequests DEF SentBy
    <3>2. PICK i \in Nat : i = m.leader_commit_index
      BY <2>1
    <3>3. Backed(i, t)'
      BY <1>1, <3>1, <3>2, BackedBelow
    <3> QED
      BY <3>1, <3>2, <3>3
  <2> QED
    BY <2>2, <2>3
<1>6. CommitsAreBacked'
  BY <1>3, <1>4, <1>5 DEF CommitsAreBacked
<1> QED
  BY <1>4, <1>6 DEF CommitsAgree

\* Commits stay backed and agree.
LEMMA CommitsStay ==
  ASSUME TypeOK, TypeOK', NEW n \in Members, SafeStep(n), ReplicationInv, ReplicationInv',
         WhatMayBeChosenIsSafe', CommitsAreBacked, CommitsAgree
  PROVE  CommitsAreBacked' /\ CommitsAgree'
<1>1. /\ committed \in Seq(Entry) /\ committed' \in Seq(Entry) /\ LogPiece(committed) \in Pieces
      /\ Len(committed) \in Nat /\ Len(committed') \in Nat
      /\ commit_index[n] \in Nat /\ commit_index'[n] \in Nat /\ commit_index'[n] <= Len(log'[n])
      /\ Len(log'[n]) \in Nat
  BY DEF SafeStep, PiecesAreTyped, LogsAreTyped
<1>2. /\ current_term[n] \in Nat /\ current_term'[n] \in Nat /\ current_term'[n] >= current_term[n]
  BY TermsGrow
<1>3. PICK i \in Nat, c \in Nat, u \in Nat, t \in Nat :
        i = commit_index[n] /\ c = commit_index'[n] /\ u = current_term[n] /\ t = current_term'[n]
  BY <1>1, <1>2
<1>4. Holds(committed, i, log'[n]) /\ i <= Len(committed) /\ Backed(i, u) /\ u <= t
  BY <1>2, <1>3, CommittedKept DEF CommitsAreBacked
<1>5. CASE committed' = committed /\ c <= i
  <2>1. HistoryGrows
    BY <1>1, <1>5 DEF HistoryGrows
  <2>2. Backed(i, t)'
    BY <1>4, <2>1, BackedStays
  <2>3. Backed(c, t)'
    BY <1>1, <1>5, <2>2, BackedBelow
  <2>4. Holds(committed', c, log'[n])
    BY <1>1, <1>4, <1>5 DEF Holds
  <2> QED
    BY <1>3, <1>5, <2>1, <2>3, <2>4, CommitsCombine
<1>6. ASSUME NEW W \in CommitQuorums, role'[n] = "Leader", current_term'[n] = current_term[n],
             c > i, c <= Len(log'[n]), log'[n][c].term = current_term[n],
             \A v \in W : leader'[n].matched[v] >= c,
             committed' = IF c > Len(committed) THEN Prefix(log'[n], c) ELSE committed
      PROVE  CommitsAreBacked' /\ CommitsAgree'
  <2>1. c \in 1..Len(log'[n])
    BY <1>1, <1>3, <1>6
  <2>2. /\ HistoryGrows /\ Holds(committed', c, log'[n]) /\ c <= Len(committed')
        /\ ChosenAt(committed, c)' /\ committed'[c].term = t
        /\ committed' = committed \/ c = Len(committed')
    BY <1>3, <1>6, <2>1, LeaderCommitsSafely
  <2>3. c \in 1..Len(committed')
    BY <1>1, <2>1, <2>2
  <2>4. Backed(c, t)'
    BY <2>2, <2>3 DEF Backed
  <2>5. committed' = committed \/ ChosenAt(committed, Len(committed))'
    BY <2>2
  <2> QED
    BY <1>3, <2>2, <2>4, <2>5, CommitsCombine
<1>7. ASSUME NEW m \in Requests, Follows(n, m)
      PROVE  CommitsAreBacked' /\ CommitsAgree'
  <2>1. /\ m.term = t /\ m.term \in Nat /\ m.leader_commit_index \in Nat /\ IsPiece(m)
        /\ Through(m.previous, m.entries).index = End(m)
    BY <1>3, <1>7 DEF Follows, SafeStep, PiecesAreTyped, RequestsAreTyped
  <2>2. PICK f \in Nat, b \in Nat : f = FollowerCommit(m, log'[n]) /\ b = m.leader_commit_index
                                    /\ f <= b /\ f <= End(m)
    <3>1. End(m) \in Nat
      BY <2>1, PieceFacts
    <3> QED
      BY <1>1, <2>1, <3>1 DEF FollowerCommit, Min2
  <2>3. /\ c = (IF i >= f THEN i ELSE f)
        /\ committed' = IF c > Len(committed) THEN Prefix(log'[n], c) ELSE committed
    BY <1>3, <1>7, <2>2 DEF Follows, Max2
  <2>4. CASE i >= f
    <3>1. c = i /\ committed' = committed
      BY <1>1, <1>4, <2>3, <2>4
    <3> QED
      BY <1>5, <3>1
  <2>5. CASE i < f
    <3>1. c = f /\ f > 0 /\ b > 0
      BY <2>2, <2>3, <2>5
    <3>2. Backed(b, t)
      BY <2>1, <2>2 DEF CommitsAreBacked
    <3>3. PICK C \in Seq(Entry) : C = committed
      BY <1>1
    <3>4. PICK k \in 1..Len(C) : b <= k /\ ChosenAt(C, k) /\ C[k].term <= t
      BY <3>1, <3>2, <3>3 DEF Backed
    <3>5. ReachingHold(C, k) /\ RequestsKeep(C, k) /\ C[k].term \in Nat
      BY <3>4, LogPieceFacts DEF ChosenAt, Chosen
    <3>6. c > 0 /\ c <= k /\ c <= End(m) /\ m.term >= C[k].term /\ c <= Len(C) /\ LogPiece(C) \in Pieces
      BY <1>1, <2>1, <2>2, <3>1, <3>3, <3>4, <3>5
    <3>7. Holds(C, c, log'[n])
      BY <1>7, <3>5, <3>6, FollowHolds
    <3>8. committed' = committed
      BY <1>1, <2>3, <3>3, <3>6
    <3>9. HistoryGrows
      BY <1>1, <3>8 DEF HistoryGrows
    <3>10. Backed(b, t)'
      BY <3>2, <3>9, BackedStays
    <3>11. Backed(c, t)'
      BY <1>1, <2>2, <3>1, <3>10, BackedBelow
    <3>12. Holds(committed', c, log'[n])
      BY <3>3, <3>7, <3>8
    <3> QED
      BY <1>3, <3>8, <3>9, <3>11, <3>12, CommitsCombine
  <2> QED
    BY <2>4, <2>5
<1>8. CASE Rests(n) \/ Campaigns(n) \/ Wins(n)
  <2>1. committed' = committed /\ c <= i
    BY <1>1, <1>3, <1>8 DEF Rests, Campaigns, Wins
  <2> QED
    BY <1>5, <2>1
<1>9. CASE Leads(n)
  <2>1. role'[n] = "Leader" /\ current_term'[n] = current_term[n] /\ Commits(n)
    BY <1>9 DEF Leads
  <2>2. CASE c = i
    <3>1. committed' = committed
      BY <1>1, <1>3, <1>4, <2>1, <2>2 DEF Commits
    <3> QED
      BY <1>5, <2>2, <3>1
  <2>3. CASE c # i
    <3>1. /\ c > i /\ c <= Len(log'[n]) /\ log'[n][c].term = current_term[n]
          /\ committed' = IF c > Len(committed) THEN Prefix(log'[n], c) ELSE committed
      BY <1>3, <2>1, <2>3 DEF Commits
    <3>2. PICK W \in CommitQuorums : \A v \in W : leader'[n].matched[v] >= c
      BY <1>3, <2>1, <2>3 DEF Commits
    <3> QED
      BY <1>6, <2>1, <3>1, <3>2
  <2> QED
    BY <2>2, <2>3
<1> QED
  BY <1>7, <1>8, <1>9 DEF SafeStep, LogStep

-----------------------------------------------------------------------------
(* The inductive invariant.                                                 *)

\* Replication, what may be chosen, and what is committed.
LogInv == ReplicationInv /\ WhatMayBeChosenIsSafe /\ CommitsAreBacked /\ CommitsAgree

\* It holds initially: every piece is the empty log.
LEMMA InitLog == Init => LogInv
<1> SUFFICES ASSUME Init PROVE LogInv
  OBVIOUS
<1> DEFINE O == LogPiece(<<>>)
<1>1. /\ messages = {} /\ committed = <<>> /\ Requests = {}
      /\ \A n \in Members : log[n] = <<>> /\ commit_index[n] = 0 /\ role[n] = "Follower"
  BY DEF Init, Requests
<1>2. \A P \in Pieces : P = O
  BY <1>1 DEF Pieces
<1>3. /\ IsPiece(O) /\ \A i : Covers(O, i) <=> i \in 0..0
  <2>1. <<>> \in Seq(Entry) /\ Len(<<>>) = 0
    OBVIOUS
  <2> QED
    BY <2>1, LogPieceFacts
<1>4. \A i : Covers(O, i) => i = 0 /\ TermAt(O, i) \in Nat
  BY <1>3, PieceFacts
<1> HIDE DEF O
<1>5. PiecesAgree
  <2>1. Agree(O, O)
    BY DEF Agree, SameAt
  <2> QED
    BY <1>2, <2>1 DEF PiecesAgree
<1>6. PiecesAreOrdered
  <2>1. Ordered(O)
    BY <1>4 DEF Ordered
  <2> QED
    BY <1>2, <2>1 DEF PiecesAreOrdered
<1>7. TermsAreBounded
  BY <1>1 DEF TermsAreBounded
<1>8. EntriesHaveOrigins /\ RequestsHaveOrigins
  BY <1>1, <1>2, <1>4 DEF EntriesHaveOrigins, RequestsHaveOrigins
<1>9. LeadersHoldTheirTerm /\ RequestsAreSlices /\ NumbersAreUnique /\ ProbesAreSent
  BY <1>1 DEF LeadersHoldTheirTerm, RequestsAreSlices, NumbersAreUnique, ProbesAreSent
<1>10. AcceptancesAreReal /\ AcksAreHeld /\ MatchesAreAcked /\ CampaignsAreCurrent /\ GrantsAreAsked
  BY <1>1 DEF AcceptancesAreReal, AcksAreHeld, MatchesAreAcked, CampaignsAreCurrent, GrantsAreAsked
<1>11. WhatMayBeChosenIsSafe
  BY <1>1 DEF WhatMayBeChosenIsSafe
<1>12. CommitsAreBacked
  BY <1>1 DEF CommitsAreBacked, Backed
<1>13. CommitsAgree
  BY <1>1 DEF CommitsAgree, Holds
<1> QED
  BY <1>5, <1>6, <1>7, <1>8, <1>9, <1>10, <1>11, <1>12, <1>13 DEF LogInv, ReplicationInv

\* A step that changes nothing keeps it.
LEMMA StutterLog ==
  ASSUME LogInv, UNCHANGED vars
  PROVE  LogInv'
<1>1. UNCHANGED <<current_term, voted_for, log, commit_index, role, leader, next_append_probe_id,
                  messages, committed>>
  BY DEF vars
<1>2. Requests' = Requests /\ Pieces' = Pieces
  BY <1>1 DEF Requests, Pieces
<1>3. \A v, t, c : Granted(v, t, c)' <=> Granted(v, t, c)
  BY <1>1 DEF Granted
<1>4. \A c, t : Origin(c, t)' <=> Origin(c, t)
  BY <1>1, <1>3 DEF Origin
<1>5. \A n, v, i : Acked(n, v, i)' <=> Acked(n, v, i)
  BY <1>1, <1>2 DEF Acked
<1>6. PiecesAgree' /\ PiecesAreOrdered' /\ TermsAreBounded'
  BY <1>1, <1>2 DEF LogInv, ReplicationInv, PiecesAgree, PiecesAreOrdered, TermsAreBounded
<1>7. EntriesHaveOrigins' /\ RequestsHaveOrigins'
  BY <1>2, <1>4 DEF LogInv, ReplicationInv, EntriesHaveOrigins, RequestsHaveOrigins
<1>8. LeadersHoldTheirTerm' /\ RequestsAreSlices' /\ NumbersAreUnique'
  BY <1>1, <1>2 DEF LogInv, ReplicationInv, LeadersHoldTheirTerm, RequestsAreSlices, NumbersAreUnique
<1>9. ProbesAreSent'
  BY <1>1, <1>2 DEF LogInv, ReplicationInv, ProbesAreSent, IsProbe
<1>10. AcceptancesAreReal' /\ CampaignsAreCurrent' /\ GrantsAreAsked'
  BY <1>1, <1>2 DEF LogInv, ReplicationInv, AcceptancesAreReal, CampaignsAreCurrent, GrantsAreAsked
<1>11. AcksAreHeld' /\ MatchesAreAcked'
  BY <1>1, <1>5 DEF LogInv, ReplicationInv, AcksAreHeld, MatchesAreAcked
<1>12. \A n, i, W : CanBeChosen(n, i, W)' <=> CanBeChosen(n, i, W)
  BY <1>1, <1>5 DEF CanBeChosen
<1>13. \A C, k, W : Chosen(C, k, W)' <=> Chosen(C, k, W)
  <2> TAKE C, k, W
  <2>1. LeaversHold(C, k, W)' <=> LeaversHold(C, k, W)
    BY <1>1 DEF LeaversHold
  <2>2. CandidatesReach(C, k, W)' <=> CandidatesReach(C, k, W)
    BY <1>1, <1>3 DEF CandidatesReach
  <2>3. ReachingHold(C, k)' <=> ReachingHold(C, k)
    BY <1>1 DEF ReachingHold
  <2>4. RequestsKeep(C, k)' <=> RequestsKeep(C, k)
    BY <1>2 DEF RequestsKeep
  <2>5. LeadersHold(C, k)' <=> LeadersHold(C, k)
    BY <1>1 DEF LeadersHold
  <2> QED
    BY <2>1, <2>2, <2>3, <2>4, <2>5 DEF Chosen
<1>14. \A C, k : ChosenAt(C, k)' <=> ChosenAt(C, k)
  BY <1>1, <1>13 DEF ChosenAt
<1>15. WhatMayBeChosenIsSafe'
  BY <1>1, <1>12, <1>13 DEF LogInv, WhatMayBeChosenIsSafe
<1>16. \A i, t : Backed(i, t)' <=> Backed(i, t)
  BY <1>1, <1>14 DEF Backed
<1>17. CommitsAreBacked'
  BY <1>1, <1>2, <1>14, <1>16 DEF LogInv, CommitsAreBacked
<1>18. CommitsAgree'
  BY <1>1 DEF LogInv, CommitsAgree
<1> QED
  BY <1>6, <1>7, <1>8, <1>9, <1>10, <1>11, <1>15, <1>17, <1>18 DEF LogInv, ReplicationInv

\* Every step keeps it.
LEMMA NextLogInv ==
  ASSUME TypeOK, TypeOK', ElectionEvidence, ElectionEvidence', LogInv, [Next]_vars
  PROVE  LogInv'
<1>1. CASE UNCHANGED vars
  BY <1>1, StutterLog
<1>2. ASSUME NEW n \in Members, LogStep(n)
      PROVE  LogInv'
  <2>1. ElectionStep
    BY NextStep DEF ElectionEvidence
  <2>2. PiecesAreTyped /\ PiecesAreTyped' /\ OriginFacts /\ OriginFacts'
    BY PiecesTyped, PiecesTypedNext, OriginsFollow, OriginsFollowNext
  <2>3. SafeStep(n)
    BY <1>2, <2>1, <2>2 DEF SafeStep
  <2>4. ReplicationInv /\ WhatMayBeChosenIsSafe /\ CommitsAreBacked /\ CommitsAgree
    BY DEF LogInv
  <2>5. ReplicationInv'
    BY <2>3, <2>4, ReplicationStays
  <2>6. WhatMayBeChosenIsSafe'
    BY <2>3, <2>4, <2>5, MayBeChosenStays
  <2>7. CommitsAreBacked' /\ CommitsAgree'
    BY <2>3, <2>4, <2>5, <2>6, CommitsStay
  <2> QED
    BY <2>5, <2>6, <2>7 DEF LogInv
<1> QED
  BY <1>1, <1>2, NextLog

\* The log invariant holds in every behaviour, for every quorum plan that
\* compile_plan accepts, whatever is lost, repeated, reordered or crashes.
THEOREM LogsAreSafe == Spec => []LogInv
<1>1. Init => LogInv
  BY InitLog
<1>2. TypeOK /\ TypeOK' /\ ElectionEvidence /\ ElectionEvidence' /\ LogInv /\ [Next]_vars => LogInv'
  BY NextLogInv
<1> QED
  BY <1>1, <1>2, TypeCorrect, ElectionsAreEvident, PTL DEF Spec
-----------------------------------------------------------------------------
(* The theorems.                                                            *)

\* A log that holds the first k entries of C has the same prefix.
LEMMA HoldsPrefix ==
  ASSUME NEW s \in Seq(Entry), NEW C \in Seq(Entry), NEW k \in Nat, k <= Len(C), Holds(C, k, s)
  PROVE  /\ k <= Len(s) /\ Prefix(s, k) = Prefix(C, k)
         /\ IsPrefixOf(Prefix(s, k), C) /\ IsPrefixOf(Prefix(C, k), s)
<1>1. k <= Len(s) /\ \A j \in 1..k : s[j] = C[j]
  BY DEF Holds
<1>2. /\ Prefix(s, k) \in Seq(Entry) /\ Len(Prefix(s, k)) = k /\ \A j \in 1..k : Prefix(s, k)[j] = s[j]
  BY <1>1, PrefixFacts
<1>3. /\ Prefix(C, k) \in Seq(Entry) /\ Len(Prefix(C, k)) = k /\ \A j \in 1..k : Prefix(C, k)[j] = C[j]
  BY PrefixFacts
<1>4. Prefix(s, k) = Prefix(C, k)
  BY <1>1, <1>2, <1>3
<1>5. IsPrefixOf(Prefix(s, k), C)
  BY <1>1, PrefixAgrees
<1>6. IsPrefixOf(Prefix(C, k), s)
  BY <1>1, PrefixAgrees
<1> QED
  BY <1>1, <1>4, <1>5, <1>6

\* Log matching: two members' logs that hold the same position agree on
\* everything up to it.
THEOREM LogsMatch == Spec => []LogMatching
<1>1. TypeOK /\ LogInv => LogMatching
  <2> SUFFICES ASSUME TypeOK, LogInv, NEW a \in Members, NEW b \in Members,
                      NEW i \in 1..Min2(Len(log[a]), Len(log[b])), log[a][i].term = log[b][i].term
               PROVE  Prefix(log[a], i) = Prefix(log[b], i)
    BY DEF LogMatching
  <2>1. /\ log[a] \in Seq(Entry) /\ LogPiece(log[a]) \in Pieces
        /\ log[b] \in Seq(Entry) /\ LogPiece(log[b]) \in Pieces
    BY PiecesTyped DEF PiecesAreTyped, LogsAreTyped
  <2>2. PICK s \in Seq(Entry), C \in Seq(Entry) : s = log[a] /\ C = log[b]
    BY <2>1
  <2>3. Agree(LogPiece(s), LogPiece(C))
    BY <2>1, <2>2 DEF LogInv, ReplicationInv, PiecesAgree
  <2>4. i \in Nat /\ i <= Len(s) /\ i <= Len(C) /\ (i > 0 => s[i].term = C[i].term) /\ i <= i
    BY <2>2 DEF Min2
  <2>5. Holds(C, i, s)
    BY ONLY <2>3, <2>4, AgreeHolds, s \in Seq(Entry), C \in Seq(Entry)
  <2>6. Prefix(s, i) = Prefix(C, i)
    BY <2>4, <2>5, HoldsPrefix
  <2> QED
    BY <2>2, <2>6
<1> QED
  BY <1>1, TypeCorrect, LogsAreSafe, PTL

\* Replication is never overstated: a peer in the leader's term holds every
\* entry the leader believes it matched.
THEOREM MatchesAreHeld == Spec => []MatchedIsHeld
<1>1. TypeOK /\ LogInv => MatchedIsHeld
  <2> SUFFICES ASSUME TypeOK, LogInv, NEW n \in Members, NEW p \in Members, role[n] = "Leader",
                      current_term[p] = current_term[n]
               PROVE  /\ leader[n].matched[p] <= Len(log[n])
                      /\ leader[n].matched[p] <= Len(log[p])
                      /\ Prefix(log[p], leader[n].matched[p]) = Prefix(log[n], leader[n].matched[p])
    BY DEF MatchedIsHeld
  <2>1. PICK i \in Nat : i = leader[n].matched[p]
    BY DEF TypeOK, LeaderTyped, LeaderState
  <2>2. PICK s \in Seq(Entry), C \in Seq(Entry) : s = log[p] /\ C = log[n]
    BY PiecesTyped DEF PiecesAreTyped, LogsAreTyped
  <2>3. i <= Len(C) /\ Holds(C, i, s)
    <3>1. CASE i = 0
      BY <3>1 DEF Holds
    <3>2. CASE i # 0
      <4>1. Acked(n, p, i)
        BY <2>1, <3>2 DEF LogInv, ReplicationInv, MatchesAreAcked
      <4> QED
        BY <2>2, <4>1 DEF LogInv, ReplicationInv, AcksAreHeld
    <3> QED
      BY <3>1, <3>2
  <2>4. i <= Len(s) /\ Prefix(s, i) = Prefix(C, i)
    BY <2>3, HoldsPrefix
  <2> QED
    BY <2>1, <2>2, <2>3, <2>4
<1> QED
  BY <1>1, TypeCorrect, LogsAreSafe, PTL

\* Leader completeness: a leader whose term is not older than the newest
\* committed entry holds every committed entry.
THEOREM LeadersAreComplete == Spec => []LeaderCompleteness
<1>1. TypeOK /\ LogInv => LeaderCompleteness
  <2> SUFFICES ASSUME TypeOK, LogInv, NEW n \in Members, role[n] = "Leader",
                      current_term[n] >= LastPosition(committed).term
               PROVE  IsPrefixOf(committed, log[n])
    BY DEF LeaderCompleteness
  <2>1. PICK s \in Seq(Entry), C \in Seq(Entry) : s = log[n] /\ C = committed
    BY PiecesTyped DEF PiecesAreTyped, LogsAreTyped
  <2>2. PICK k \in Nat : k = Len(C)
    BY <2>1
  <2>3. Holds(C, k, s)
    <3>1. CASE k = 0
      BY <3>1 DEF Holds
    <3>2. CASE k # 0
      <4>1. LastPosition(C).term = C[k].term /\ C # <<>>
        BY <2>2, <3>2 DEF LastPosition, Position
      <4>2. ChosenAt(C, k)
        BY <2>1, <2>2, <4>1 DEF LogInv, CommitsAreBacked
      <4>3. LeadersHold(C, k)
        BY <4>2 DEF ChosenAt, Chosen
      <4> QED
        BY <2>1, <4>1, <4>3 DEF LeadersHold
    <3> QED
      BY <3>1, <3>2
  <2>4. IsPrefixOf(Prefix(C, k), s)
    BY <2>2, <2>3, HoldsPrefix
  <2>5. Prefix(C, k) = C
    <3>1. Prefix(C, k) \in Seq(Entry) /\ Len(Prefix(C, k)) = k /\ \A j \in 1..k : Prefix(C, k)[j] = C[j]
      <4>1. k <= Len(C)
        BY <2>2
      <4> QED
        BY ONLY <4>1, PrefixFacts, C \in Seq(Entry), k \in Nat
    <3>2. PICK p \in Seq(Entry) : p = Prefix(C, k)
      BY <3>1
    <3>3. p = C
      BY ONLY <2>2, <3>1, <3>2, C \in Seq(Entry), p \in Seq(Entry)
    <3> QED
      BY <3>2, <3>3
  <2> QED
    BY <2>1, <2>4, <2>5
<1> QED
  BY <1>1, TypeCorrect, LogsAreSafe, PTL

\* State machine safety: every member commits a prefix of one sequence.
THEOREM StateMachinesAgree == Spec => []StateMachineSafety
<1>1. TypeOK /\ LogInv => StateMachineSafety
  <2> SUFFICES ASSUME TypeOK, LogInv, NEW n \in Members
               PROVE  IsPrefixOf(Prefix(log[n], commit_index[n]), committed)
    BY DEF StateMachineSafety
  <2>1. PICK s \in Seq(Entry), C \in Seq(Entry), i \in Nat : s = log[n] /\ C = committed /\ i = commit_index[n]
    BY PiecesTyped DEF PiecesAreTyped, LogsAreTyped
  <2>2. Holds(C, i, s) /\ Backed(i, current_term[n])
    BY <2>1 DEF LogInv, CommitsAgree, CommitsAreBacked
  <2>3. i <= Len(C)
    <3>1. Len(C) \in Nat
      OBVIOUS
    <3> QED
      BY <2>1, <2>2, <3>1 DEF Backed
  <2>4. IsPrefixOf(Prefix(s, i), C)
    BY <2>2, <2>3, HoldsPrefix
  <2> QED
    BY <2>1, <2>4
<1> QED
  BY <1>1, TypeCorrect, LogsAreSafe, PTL

\* log_delta never meets its refusal: no append that passes the checks before
\* it would replace a committed entry.
THEOREM CommitsAreNeverReplaced == Spec => []NoCommittedConflict
<1>1. TypeOK /\ LogInv => NoCommittedConflict
  <2> SUFFICES ASSUME TypeOK, LogInv, NEW m \in messages, m.type = "AppendRequest",
                      m.term >= current_term[m.to], PositionMatches(log[m.to], m.previous),
                      NEW o \in FreshOffsets(log[m.to], m.previous.index, m.entries),
                      m.previous.index + o <= Len(log[m.to]), m.previous.index + o <= commit_index[m.to]
               PROVE  FALSE
    BY DEF NoCommittedConflict, DeltaConflictsWithCommit
  <2>1. /\ m \in Requests /\ m.to \in Members /\ IsPiece(m) /\ m.term \in Nat
    BY PiecesTyped DEF Requests, PiecesAreTyped, RequestsAreTyped
  <2>2. PICK s \in Seq(Entry), C \in Seq(Entry), i \in Nat, t \in Nat :
          s = log[m.to] /\ C = committed /\ i = commit_index[m.to] /\ t = current_term[m.to]
    BY <2>1, PiecesTyped DEF PiecesAreTyped, LogsAreTyped
  <2>3. Holds(C, i, s) /\ Backed(i, t)
    BY <2>1, <2>2 DEF LogInv, CommitsAgree, CommitsAreBacked
  <2>4. /\ m.previous.index \in Nat /\ o \in 1..Len(m.entries) /\ Len(m.entries) \in Nat
    BY <2>1 DEF FreshOffsets, IsPiece, LogPosition
  <2>5. PICK j \in Nat : j = m.previous.index + o
    BY <2>4
  <2>6. s[j] # m.entries[o] /\ j <= Len(s) /\ j <= i /\ j > 0
    BY <2>2, <2>4, <2>5 DEF FreshOffsets
  <2>7. PICK k \in 1..Len(C) : i <= k /\ ChosenAt(C, k) /\ C[k].term <= t
    BY <2>2, <2>3, <2>6 DEF Backed
  <2>8. C[k].term \in Nat /\ Len(C) \in Nat
    BY <2>7, LogPieceFacts
  <2>9. m.term >= C[k].term
    BY <2>1, <2>2, <2>7, <2>8
  <2>10. Consistent(C, k, m)
    BY <2>1, <2>7, <2>9 DEF ChosenAt, Chosen, RequestsKeep
  <2>11. Covers(m, j) /\ j > Start(m) /\ EntryAt(m, j) = m.entries[o]
    BY <2>4, <2>5 DEF Covers, Start, End, EntryAt
  <2>12. j <= k /\ j \in 1..Len(C) /\ j \in 1..i
    BY <2>6, <2>7, <2>8
  <2>13. SameAt(m, LogPiece(C), j)
    BY <2>10, <2>11, <2>12 DEF Consistent
  <2>14. EntryAt(LogPiece(C), j) = C[j] /\ Start(LogPiece(C)) = 0
    BY <2>12, LogPieceFacts
  <2>15. m.entries[o] = C[j]
    BY <2>6, <2>11, <2>13, <2>14 DEF SameAt
  <2>16. s[j] = C[j]
    BY <2>3, <2>12 DEF Holds
  <2> QED
    BY <2>6, <2>15, <2>16
<1> QED
  BY <1>1, TypeCorrect, LogsAreSafe, PTL
=============================================================================
