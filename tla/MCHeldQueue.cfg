SPECIFICATION Spec
CONSTANTS
  m1 = m1
  m2 = m2
  Msgs <- MCMsgs
  Kind <- AgentAndOwner
  Pinned = {}
  Long = {}
  Pi = {1}
  LateAge = 1
  LeaseLen = 1
  NotifyAge = 1
  GiveUpAge = 1
  MaxTake = 2
  MaxLives = 1
  MaxCrashes = 1
  MaxBatches = 1
INVARIANTS TypeOK OneDeliverer NothingVanishes OneCopyPerRun
PROPERTIES LeaseKeepsFlushAway KeepsPromise FollowsRoad
CHECK_DEADLOCK FALSE
