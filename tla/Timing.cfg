CONSTANTS
  IdCount = 2
  IdBase = 0
  NoId = NoId
  Cores = {c1, c2}
  Messages = {m1, m2}
  NoMessage = NoMessage
  Receivers = {w1}
  NoReceiver = NoReceiver
  PeriodsUs = {0, 1, 3}
  NsPerTick = 1500
  MaxInFlight = 3
SPECIFICATION FairSpec
INVARIANTS EventAccounting MessageOwnership TableMatchesRing
PROPERTIES OnlyUnfinishedTimersFail ImplementsTimerService DestroyCompletes TimeoutServed
CHECK_DEADLOCK FALSE
