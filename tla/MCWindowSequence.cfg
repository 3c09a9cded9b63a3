CONSTANTS
  NonNumeric = NonNumeric
  NoTime = NoTime
  FlushThreshold = 2
  CompactThreshold = 2
  Callers = {c}
  SequenceIds = {"s"}
  DerivedIds = {"s"}
  Batches <- MCSequenceBatches
  DerivedBatches <- MCDerivedBatches
  Patches <- MCPatches
  Sizes = {1, 2}
  DefaultSize = 2
  MinTime = 0
  MaxGeneration = 1
SPECIFICATION Spec
INVARIANT StatisticsExact
PROPERTIES
  WindowIsMap
  SafeIsSuffix
