CONSTANTS
  NonNumeric = NonNumeric
  NoTime = NoTime
  FlushThreshold = 2
  CompactThreshold = 2
  Callers = {c1, c2}
  SequenceIds = {"r", "s"}
  DerivedIds = {}
  Batches <- MCSharedBatches
  DerivedBatches <- MCDerivedBatches
  Patches <- MCNoPatches
  Sizes = {}
  DefaultSize = 2
  MinTime = 0
  MaxGeneration = 1
SPECIFICATION Spec
INVARIANT ReportCovers
SYMMETRY MCSymmetry
