SPECIFICATION Spec
CONSTANTS
  v1 = v1
  v2 = v2
  v3 = v3
  Voters = {v1, v2, v3}
  Learners = {}
  EligibleLeaders = {v1, v2}
  Anchor = v2
  First = v1
  ElectionQuorums <- FlatElectionQuorums
  CommitQuorums <- FlatCommitQuorums
  ReadQuorums <- FlatReadQuorums
  Commands = {w}
  TermConfirmation = noop
  None = None
  Readers = {v1}
  Crashing = {v1}
  MaxTerm = 2
  MaxLog = 1
  MaxReads = 0
  MaxHeartbeats = 0
  MaxRestarts = 0
  MaxAppendEntries = 1
SYMMETRY CandidateSymmetry
CHECK_DEADLOCK FALSE
INVARIANTS
  OneLeaderPerTerm
  LeaderCompleteness
  StateMachineSafety
