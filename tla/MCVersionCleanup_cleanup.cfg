SPECIFICATION FairSpec
CONSTANTS
  Items = {s}
  Workers = {w1, w2}
  MaxAttempts = 3
  MaxEpochs = 2
  None = None
CHECK_DEADLOCK FALSE
PROPERTIES
  SealedItemsAreReclaimed
