SPECIFICATION FairSpec
CONSTANTS
  Indexes = {i}
  MaxOthers = 1
  Workers = {w1, w2}
  Attempts = {1, 2}
  None = None
CHECK_DEADLOCK FALSE
INVARIANTS
  TypeOK
  LayoutsAreSerial
  RoutesAreStored
  WritesAreRetained
PROPERTIES
  DamageIsRepaired
  EffectsAreClosed
