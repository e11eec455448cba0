\* One window, one folder, three connections; liveness, so no symmetry.
SPECIFICATION LinkSpec
CONSTANTS
  Sockets = {s1, s2, s3}
  Paths = {p1}
  None = None
  Windows = {w1}
PROPERTIES
  AnswerIsItsOwn
  TrustIsGranted
  LinkRecovers
CHECK_DEADLOCK FALSE
