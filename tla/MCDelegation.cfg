\* One job running while another waits, with a poll and a cancel, or two
\* cancels, parked at the same time; liveness, so no symmetry.
CONSTANTS
  Jobs = {j1, j2}
  None = None
  MaxTurns = 1
  MaxClock = 2
  Callers = {c1, c2}
SPECIFICATION FairSpec
INVARIANTS
  NoOvertaking
  VerdictIsAnnounced
  PollFindsItsJob
  RunnerOwnsRunning
  CancelHitsItsJob
  WorkIsWoken
PROPERTIES
  LifecycleSpec
  EveryJobEnds
  CancelWins
CHECK_DEADLOCK FALSE
