CONSTANTS
  Nodes = {a, b, c}
  Shards = {s0, s1}
  ZeroShard = s0
  NoShard = NoShard
  NoNode = NoNode
  Callers = {c1, c2}
  MaxEvents = 1
  MaxMigrations = 3
SPECIFICATION Spec
SYMMETRY Symmetry
INVARIANTS TypeOK OneGateway ViewsAgree TransferInv
PROPERTY KeepsOwnership
CHECK_DEADLOCK FALSE
