CONSTANTS
  NonNumeric = NonNumeric
  NoTime = NoTime
  FlushThreshold = 2
  CompactThreshold = 2
  Callers = {c}
  SequenceIds = {"r", "s"}
  DerivedIds = {"s"}
  Batches <- MCSharedBatches
  DerivedBatches <- MCDerivedBatches
  Patches <- MCNoPatches
  Sizes = {1, 3}
  DefaultSize = 2
  MinTime = 0
  MaxGeneration = 1
SPECIFICATION Spec
INVARIANTS TypeOK NothingExpiredAtRest
