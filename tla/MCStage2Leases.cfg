SPECIFICATION LiveSpec
CONSTANTS
  b1 = b1
  c1 = c1
  c2 = c2
  Boots = {b1}
  Cards = {c1, c2}
  Lease = 3
  Renew = 1
  Margin = 1
  CallTimeout = 1
  CommandTimeout = 1
  MaxBackoff = 1
  MaxEpoch = 1
CHECK_DEADLOCK FALSE
INVARIANTS TypeOK CoveredIsLeased
PROPERTIES AsksAgain
