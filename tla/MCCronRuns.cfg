SPECIFICATION LiveSpec
CONSTANTS
  d1 = d1
  d2 = d2
  Daemons = {d1, d2}
  MaxFaults = 1
CHECK_DEADLOCK FALSE
INVARIANTS TypeOK PromptedOnce OwnSessionOnly OneVerdictNotice
PROPERTIES VerdictStands EveryRunEnds
