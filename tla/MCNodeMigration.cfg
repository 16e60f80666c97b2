CONSTANTS
  Nodes = {a, b}
  Shards = {s0, s1}
  ZeroShard = s0
  NoShard = NoShard
  NoNode = NoNode
  Callers = {c1}
  FullCaller = c1
  MaxEvents = 2
  MaxMigrations = 2
SPECIFICATION FairFullSpec
PROPERTIES ShutdownEmpty BusyStaysBusy NodeMoves
CHECK_DEADLOCK FALSE
