CONSTANTS
  Half = 4
  Capacity = 2
  Values = {0}
  MaxCount = 2
  Observed = TRUE
SPECIFICATION Spec
INVARIANTS
  SizeWithinCapacity
