SPECIFICATION Spec
CONSTANTS
  v1 = v1
  v2 = v2
  v3 = v3
  v4 = v4
  stranger = stranger
  Voters <- FourVoters
  Drafts <- AllDrafts
  MaxDepth = 3
  MaxNodes = 7
INVARIANTS
  CompiledDecides
  CompiledPlansAreSafe
  NoDoubleCounting
  CutSetsAreDual
CHECK_DEADLOCK FALSE
