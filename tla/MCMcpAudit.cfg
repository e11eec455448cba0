\* Two calls, three days, retention two, the daemon started twice; liveness, so
\* no symmetry.
SPECIFICATION Spec
CONSTANTS
  Entries = {c1, c2}
  Rotate = Rotate
  Idle = Idle
  MaxDay = 3
  Retention = 2
  MaxStarts = 2
INVARIANTS
  AcknowledgedIsKept
PROPERTIES
  AnsweredIsLogged
  EveryCallIsAnswered
CHECK_DEADLOCK FALSE
