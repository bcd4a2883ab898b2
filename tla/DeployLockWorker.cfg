SPECIFICATION Spec
CONSTANTS
  w1 = w1
  w2 = w2
  k = k
  Holders = {w1, k}
  Workers = {k}
  MaxLosses = 0
INVARIANT OneDeployment
CHECK_DEADLOCK FALSE
