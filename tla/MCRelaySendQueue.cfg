SPECIFICATION LiveSpec
CONSTANTS
  r1 = r1
  r2 = r2
  Reqs <- MCReqs
  Streams = {r1}
  Sizes = {2}
  CtlSizes = {3}
  PingSize = 1
  MinWindow = 3
  MaxWindow = 4
  MinProbe = 3
  MaxGraces = 1
  MaxChunks = 1
  MaxDirect = 1
  MaxProbes = 8
  MaxConns = 1
INVARIANTS TypeOK ReopensByProbe AnswersAreWanted
PROPERTIES WindowRespected QueuedIsSent
CHECK_DEADLOCK FALSE
