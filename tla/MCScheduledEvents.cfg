CONSTANTS
  e1 = e1
  n1 = n1
  n2 = n2
  Events = {e1}
  Nodes = {n1, n2}
  Unhandled = {}
  MaxPanics = 1
  MaxRemoving = 1
  MaxReady = 2
  MaxLeaves = 0
  MaxFailures = 0
SPECIFICATION FairSpec
INVARIANTS TypeOK OnceUnlessInterrupted MarksTrue
PROPERTIES DueHandled
CHECK_DEADLOCK FALSE
