SPECIFICATION Spec
CONSTANTS
  Interval = 1
  MaxPaceCatchup = 0
  MaxOutstanding = 2
  Timeout = 3
  LinkTimeout = 1
  SyncWindow = 2
  MaxPlausible = 3
  Offset <- PeerBehind
  MaxDatagrams = 2
  MaxCopies = 1
  MaxProbes = 3
  MaxRestarts = 1
  Horizon = 6
INVARIANT RttIsTrue
