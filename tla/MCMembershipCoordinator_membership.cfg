SPECIFICATION FairSpec

CONSTANTS
  Nodes <- FourNodes
  Founder = 1
  MaxLeaderChanges = 2

INVARIANTS
  TypeOK
  FirstLeaderRuns
  SurvivorLeads
  ProjectionAgrees

PROPERTIES
  PhasesOverlap
  StagedAreAdmitted
  RetiringAreRemoved
  TargetReached

CHECK_DEADLOCK FALSE
