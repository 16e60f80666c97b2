CONSTANTS
  Nodes = {a,b,c}
  Shards = {s0, s1}
  ZeroShard = s0
  NoShard = NoShard
  NoNode = NoNode
  Callers = {c1, c2}
  FullCaller = c1
  MaxEvents = 0
  MaxMigrations = 2
SPECIFICATION SharedSpec
PROPERTY BusyStaysBusy
CHECK_DEADLOCK FALSE
