CONSTANTS
  Nodes = {a, b, c}
  Shards = {s0, s1}
  ZeroShard = s0
  NoShard = NoShard
  NoNode = NoNode
  Callers = {c1}
  MaxEvents = 1
  MaxMigrations = 1
SPECIFICATION LossySpec
SYMMETRY Symmetry
INVARIANTS NoPanic
PROPERTIES StateBeforeResume
CHECK_DEADLOCK FALSE
