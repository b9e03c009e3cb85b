CONSTANTS
  Half = 16
  Capacity = 4
  FrameTicks = 1
  TargetDelay = 2
  Fec = TRUE
  MaxConcealRun = 2
  MaxCatchup = 1
  MaxJump = 8
  StreamIdle = 4
  FirstSequence <- NearWrapSequence
  FirstTimestamp <- NearWrapTimestamp
  MaxStreams = 2
  Profiles <- Environments
SPECIFICATION Spec
INVARIANTS
  ProjectionNeverAhead
  LatencyBounded
  PlayedOnce
  PlayedInTime
  NoFrameVanishes
  NoConcealment
  LateMeansLate
