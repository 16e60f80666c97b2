CONSTANTS
  Procs = {p1, p2, p3}
  Keys = {k1, k2}
  Timeout = 2
  TTL = 2
  MaxExecs = 4
SPECIFICATION Spec
SYMMETRY Symmetry
INVARIANTS LeaseExclusion
PROPERTY OnlyHolderReleases
