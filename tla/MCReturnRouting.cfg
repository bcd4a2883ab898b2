SPECIFICATION Spec
CONSTANTS
  q1 = q1
  q2 = q2
  a = a
  b = b
  h1 = h1
  h2 = h2
  Reqs <- MCReqs
  Callers = {a}
  Caller <- OneCaller
  Handlers <- TwoHandlers
  MaxCrashes = 0
  Gated <- MCReqs
SYMMETRY SameCaller
INVARIANTS TypeOK UnreceivedIsKept RouteKept
CHECK_DEADLOCK FALSE
