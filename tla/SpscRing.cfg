CONSTANTS
  Half = 2
  Capacity = 2
  Values = {0, 1}
  MaxCount = 2
  Observed = TRUE
SPECIFICATION FairSpec
INVARIANTS
  IndicesOrdered
  NoRace
PROPERTIES
  ImplementsFifo
  ConsumerServed
