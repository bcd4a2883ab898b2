SPECIFICATION LiveSpec
CONSTANTS
  m1 = m1
  m2 = m2
  Msgs <- MCMsgs
  Kind <- AgentAndAsk
  Pinned = {m1}
  Long = {}
  Pi = {1}
  LateAge = 1
  LeaseLen = 1
  NotifyAge = 0
  GiveUpAge = 1
  MaxTake = 0
  MaxLives = 2
  MaxCrashes = 0
  MaxBatches = 0
PROPERTIES PinnedStaysHome EndIsFinal LateIsDelivered
CHECK_DEADLOCK FALSE
