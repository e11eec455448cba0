\* One window with two folders, two MCP sessions and one delegation of each:
\* the smallest instance in which a bypass can be keyed wrongly either way.
SPECIFICATION Spec
CONSTANTS
  Sockets = {s1}
  Paths = {p1, p2}
  None = None
  Requests = {r1, r2}
  Sessions = {m1, m2}
SYMMETRY GateSymmetry
INVARIANTS
  ApprovedByOperator
  PendingIsUnanswered
CHECK_DEADLOCK FALSE
