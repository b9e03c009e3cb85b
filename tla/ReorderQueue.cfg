CONSTANTS
  Half = 4
  Capacity = 2
  Times = {0, 1}
  MaxAccepted = 3
  MaxTicks = 4
  MaxResyncs = 1
SPECIFICATION Spec
INVARIANTS
  SlotsInWindow
  HighestCoversHeld
  FramesConserved
  TimelineAccounted
PROPERTIES
  CursorNeverRewinds
  ImplementsTimeline
