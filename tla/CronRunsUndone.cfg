SPECIFICATION Spec
CONSTANTS
  d1 = d1
  d2 = d2
  Daemons = {d1, d2}
  MaxFaults = 0
INVARIANT UndoneWasNotSent
CHECK_DEADLOCK FALSE
