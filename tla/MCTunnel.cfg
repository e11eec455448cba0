\* Four children, a budget of two respawns, two calls in progress, one window.
SPECIFICATION TunnelSpec
CONSTANTS
  MaxSpawns = 4
  MaxRestarts = 2
  Callers = {c1, c2}
  Windows = {w1}
SYMMETRY TunnelSymmetry
INVARIANTS
  OneTunnel
PROPERTIES
  NeverSilentAdopt
  NoUnwantedRespawn
CHECK_DEADLOCK FALSE
