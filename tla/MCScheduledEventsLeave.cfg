CONSTANTS
  e1 = e1
  n1 = n1
  n2 = n2
  Events = {e1}
  Nodes = {n1}
  Unhandled = {}
  MaxPanics = 1
  MaxRemoving = 1
  MaxReady = 2
  MaxLeaves = 1
  MaxFailures = 1
SPECIFICATION Spec
INVARIANTS OnceUnlessInterrupted NotForgotten
CHECK_DEADLOCK FALSE
