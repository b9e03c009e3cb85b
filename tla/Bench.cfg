SPECIFICATION Spec
CONSTANTS
  Half = 16
  Window = 8
  MaxDatagram = 9
  Interval = 2
  MaxPaceCatchup = 0
  SyncWindow = 1
  MaxPlausible = 6
  ParetoTail = 2
  Tools = {"send", "ping"}
  Scenarios <- Catalogue
  FirstSequence = 30
  FirstTimestamp = 29
  Duration = 6
  Count = 2
  Timeout = 5
  Offset <- PeerBehind
  QueueCapacity = 2
  MaxDrain = 1
  Stall = 2
  MaxRefusals = 1
  Horizon = 12
INVARIANTS
  RelayBooks
  LossMatchesLog
  RateConforms
  JitterIsNetworks
  PingIsHonest
