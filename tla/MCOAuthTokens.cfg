\* Three consents for two workspaces, two requests served at the same time.
SPECIFICATION TokensSpec
CONSTANTS
  Consents = {q1, q2, q3}
  Workspaces = {w1, w2}
  None = None
  NoText = NoText
  Ops = {o1, o2}
SYMMETRY TokenSymmetry
INVARIANTS
  CodeMintsOnce
  OneTakeoverYields
  DiskIsCurrent
PROPERTIES
  TakeoverNeverUnbinds
  UnbindIsComplete
CHECK_DEADLOCK FALSE
