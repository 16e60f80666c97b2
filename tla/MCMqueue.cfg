CONSTANTS
  f = f
  g = g
  h = h
  c1 = c1
  c2 = c2
  s1 = s1
  s2 = s2
  Items <- MCItems
  Channels = {c1, c2}
  Shards = {s1, s2}
  ChannelOf <- MCChannelOf
  ShardOf <- MCShardOf
  StoredOrder <- MCStoredOrder
  Backlog = {f, h}
  Failing = {f}
  MaxConcurrent = 2
  MaxReady = 2
  MaxStarts = 2
SPECIFICATION FairSpec
INVARIANTS TypeOK NothingLost AttemptsApart NeverIdle WorkKnown
PROPERTIES OthersSent OnlyLatePushesRevive
CHECK_DEADLOCK FALSE
