SPECIFICATION LiveSpec
CONSTANTS
  q1 = q1
  q2 = q2
  a = a
  b = b
  h1 = h1
  h2 = h2
  Reqs <- MCReqs
  Callers = {a, b}
  Caller <- TwoCallers
  Handlers <- OneHandler
  MaxCrashes = 1
  Gated = {q1}
PROPERTIES RouteEnds
CHECK_DEADLOCK FALSE
