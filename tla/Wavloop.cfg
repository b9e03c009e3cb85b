SPECIFICATION Spec
CONSTANTS
  Half = 32
  Capacity = 4
  FrameTicks = 2
  Interval = 2
  MaxPaceCatchup = 0
  TargetDelay = 14
  Fec = TRUE
  MaxConcealRun = 2
  MaxCatchup = 1
  MaxJump = 8
  StreamIdle = 8
  ParetoTail = 2
  Scenarios <- Bounded
  Frames = 3
  FirstSequence = 62
  FirstTimestamp = 62
  HeldCapacity = 4
  Stall = 1
  MaxFailures = 1
INVARIANTS
  TailNotCut
  LatencyNotUnderstated
