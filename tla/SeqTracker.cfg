CONSTANTS
  Half = 16
  Window = 4
  Positions <- Stream
  MaxSpan = 15
SPECIFICATION Spec
INVARIANTS
  WindowIsExact
  VerdictIsTrue
  LossIsTrue
