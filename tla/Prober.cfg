SPECIFICATION Spec
CONSTANTS
  Interval = 1
  MaxPaceCatchup = 0
  MaxOutstanding = 2
  Timeout = 2
  LinkTimeout = 1
  SyncWindow = 1
  MaxPlausible = 2
  Offset <- PeerBehind
  MaxDatagrams = 2
  MaxCopies = 1
  MaxProbes = 2
  MaxRestarts = 1
  Horizon = 5
INVARIANTS
  
  BurstBounded
  RttTrueInSession
  OffsetBounded
  LinkIsFresh
