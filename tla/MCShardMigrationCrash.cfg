CONSTANTS
  Nodes = {a, b, c}
  Shards = {s0}
  ZeroShard = s0
  NoShard = NoShard
  NoNode = NoNode
  Callers = {c1}
  MaxEvents = 1
  MaxMigrations = 2
SPECIFICATION FairCrashSpec
INVARIANTS OwnershipInv InTransitMarked
PROPERTIES KeepsOwnershipThroughCrashes MigrationCompletes BusyEnds UnmarkedShardStarts
CHECK_DEADLOCK FALSE
