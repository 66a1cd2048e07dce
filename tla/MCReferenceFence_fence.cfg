SPECIFICATION Spec
CONSTANTS
  Gateways = {g, h}
  MaxCommits = 3
  None = None
SYMMETRY GatewaySymmetry
CHECK_DEADLOCK FALSE
INVARIANTS
  NothingReachableIsDeleted
