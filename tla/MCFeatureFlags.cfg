CONSTANTS
  g1 = g1
  g2 = g2
  streaming = streaming
  automod = automod
  role = role
  enabled = enabled
  process = process
  worker = worker
  handler = handler
  None = None
  Guilds = {g1, g2}
  Plugins = {streaming, automod}
  Order <- MCOrder
  FlagsOf <- MCFlagsOf
  Direct = {streaming}
  Early = {automod}
  Nodes = {process}
  Updaters = {worker, handler}
  Worker = worker
  Home <- MCHome
  Ready <- MCReady
  Initial <- MCInitial
  Initialized = {role}
  BatchSize = 2
  MaxSaves = 1
  MaxFaults = 1
SPECIFICATION Spec
INVARIANTS TypeOK CacheFollows FlagsFollow
PROPERTY SettingsArrive
