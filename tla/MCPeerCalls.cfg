SPECIFICATION LiveSpec
CONSTANTS
  c1 = c1
  n1 = n1
  a = a
  Calls = {c1, n1}
  Callers = {a}
  Caller <- MCCaller
  OneShot = {n1}
  MaxCrashes = 2
INVARIANTS TypeOK EndsHeard ToldOnce BookMatchesCalls QuietWithoutRestart
PROPERTIES PollingEnds
CHECK_DEADLOCK FALSE
