SPECIFICATION Spec

CONSTANTS
  Nodes <- ThreeNodes
  Founder = 1
  MaxLeaderChanges = 1

INVARIANTS
  AuthorityRuns

CHECK_DEADLOCK FALSE
