\* One restart of a tunnel that works: its own stop is taken for a drop.
CONSTANTS
  MaxSpawns = 3
  MaxRestarts = 2
  Callers = {c1}
  Windows = {w1}
SPECIFICATION TunnelSpec
PROPERTIES
  RespawnIsUnexpected
CHECK_DEADLOCK FALSE
