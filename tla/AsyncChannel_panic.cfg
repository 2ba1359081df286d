SPECIFICATION Spec
CONSTANTS
  Procs = {p, q}
  Caps = {1}
  MaxSends = 2
CHECK_DEADLOCK FALSE
INVARIANT NoPanic
