SPECIFICATION FairSpec
CONSTANTS
  v1 = v1
  v2 = v2
  Voters = {v1, v2}
  Learners = {}
  EligibleLeaders = {v1, v2}
  Anchor = v2
  First = v1
  ElectionQuorums <- AnchorQuorums
  CommitQuorums <- AnchorQuorums
  ReadQuorums <- AnchorQuorums
  Commands = {w}
  TermConfirmation = noop
  None = None
  Readers = {v1}
  Crashing = {v1}
  MaxTerm = 2
  MaxLog = 2
  MaxReads = 1
  MaxHeartbeats = 0
  MaxRestarts = 0
  MaxAppendEntries = 1
CHECK_DEADLOCK FALSE
INVARIANTS
  TypeOK
PROPERTIES
  ImplementsLinearizableLog
  ConfirmedReadsAnswered
