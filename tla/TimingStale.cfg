CONSTANTS
  IdCount = 2
  IdBase = 0
  NoId = NoId
  Cores = {c1, c2}
  Messages = {m1, m2}
  NoMessage = NoMessage
  Receivers = {w1}
  NoReceiver = NoReceiver
  PeriodsUs = {0, 1, 3}
  NsPerTick = 1500
  MaxInFlight = 3
SPECIFICATION Spec
INVARIANTS ArmTimerAssertHolds
CHECK_DEADLOCK FALSE
