\* One consent asked of two windows, three status requests; liveness, so no
\* symmetry.
SPECIFICATION FairSpec
CONSTANTS
  Consents = {q1}
  Workspaces = {w1, w2}
  None = None
  Polls = {b1, b2, b3}
INVARIANT
  ClickDecides
PROPERTIES
  FirstDecisionStands
  NewestPollReturns
CHECK_DEADLOCK FALSE
