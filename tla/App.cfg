SPECIFICATION Spec
CONSTANTS
  RingBursts = 4
  Cushion = 2
  MaxErrors = 1
  MaxStarts = 3
INVARIANTS
  ResetsAreQuiet
  HeadStartDropped
  NothingLeftRunning
PROPERTIES
  HandlersReturn
