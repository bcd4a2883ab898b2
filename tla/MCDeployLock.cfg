SPECIFICATION LiveSpec
CONSTANTS
  w1 = w1
  w2 = w2
  k = k
  Holders <- MCHolders
  Workers = {k}
  MaxLosses = 1
INVARIANTS TypeOK Exclusive
PROPERTIES AbandonedIsReaped
CHECK_DEADLOCK FALSE
