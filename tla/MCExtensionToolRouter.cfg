\* Two windows, two folders and two calls in flight; liveness, so no symmetry.
CONSTANTS
  Sockets = {s1, s2}
  Paths = {p1, p2}
  None = None
  Calls = {c1, c2}
SPECIFICATION FairSpec
INVARIANTS
  PendingIsWaiting
  PendingHasWindow
PROPERTIES
  EveryCallReturns
CHECK_DEADLOCK FALSE
