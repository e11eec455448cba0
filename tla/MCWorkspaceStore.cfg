\* Two windows compete for two folders, with two requests being written.
SPECIFICATION Spec
CONSTANTS
  Sockets = {s1, s2}
  Paths = {p1, p2}
  None = None
  NoText = NoText
  MaxWrites = 2
  Modes = {"per_call", "auto"}
SYMMETRY StoreSymmetry
INVARIANTS
  HolderIsTrusted
  PromiseIsKept
PROPERTIES
  OnlyConfirmIntrudes
CHECK_DEADLOCK FALSE
