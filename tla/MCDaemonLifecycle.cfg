\* Two daemons one after the other or at once, shutdown entered twice, one stop
\* command, one start command that is followed to its report.
CONSTANTS
  MaxDaemons = 2
  MaxEntries = 2
  Stoppers = {c1}
SPECIFICATION FairSpec
CONSTRAINT Orderly
INVARIANTS
  Findable
  OrphanIsReclaimable
PROPERTIES
  ReportIsTrue
  ShutdownEnds
CHECK_DEADLOCK FALSE
