SPECIFICATION FairSpec
CONSTANTS
  a = a
  b = b
  write = write
  repair = repair
  other = other
  permit = permit
  Shards = {a, b}
  Puts = {write, repair, other}
  RepairPuts = {repair}
  Removals = {permit}
  ShardOf <- MCShardOf
  Maximum <- MCMaximum
  Length <- MCLength
  Backups = {k}
  Ceiling = 4
  Disk = 8
  RepairReserve = 1
  PackRecords = 1
  MaxPacks = 2
  None = None
CHECK_DEADLOCK FALSE
INVARIANTS
  TypeOK
  CapacityBalanced
  PayloadIsCharged
  RetiredPacksAreIdle
PROPERTIES
  ImplementsShardStore
  PreparedRepairsFinish
  ReclaimedPacksRetire
