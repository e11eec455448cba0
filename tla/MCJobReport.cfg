\* Two files, three contents, a cap on files below and above their number; a
\* transcript cap that is met with room for the whole marker, for a part of it
\* and for nothing.
SPECIFICATION Spec
CONSTANTS
  Files = {f1, f2}
  Texts = {t1, t2}
  Binaries = {b1}
  None = None
  Moving = Moving
  FileCaps = {1, 3}
  Sizes = {1, 3}
  CapBytes = 2
  MarkerBytes = 2
  MaxTurns = 2
  MaxEdits = 2
SYMMETRY ReportSymmetry
INVARIANTS
  ReportTellsChanges
  ReportTellsWhatIsMissing
CHECK_DEADLOCK FALSE
