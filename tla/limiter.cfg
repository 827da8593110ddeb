CONSTANTS
  p1 = p1
  p2 = p2
  p3 = p3
  p4 = p4
  Permits = {p1, p2, p3, p4}
  StaticCap = 2
  Cooldown = 1
  MaxUnmarked = 2
  Scale = 4
  Loads = {0, 5}
  Threshold = 3
  SmoothingWindow = 3
SPECIFICATION FairGateSpec
INVARIANT TypeOK
INVARIANT CountIsExact
INVARIANT ProbeOutlivesLoop
PROPERTY ImplementsSemaphore
PROPERTY ImplementsSlotLimiter
PROPERTY StopWakesWaiters
PROPERTY GateOpens
CHECK_DEADLOCK FALSE
