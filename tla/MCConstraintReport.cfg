CONSTANTS
  Callers = {c1, c2}
  Rules <- MCRules
  SequenceOf <- MCSequenceOf
  GroupOf <- MCGroupOf
  Batches <- MCFailingBatches
  Limits = {1}
  Sizes = {3}
  DefaultSize = 2
  MaxUpdates <- MCDecreasing
  MaxSyncs = 1
  NotNumeric = NotNumeric
  NoGroup = NoGroup
  NoTime = NoTime
SPECIFICATION Spec
INVARIANTS
  ReportExact
  FullCheckRestores
  NothingOutlives
  RangesAddUp
SYMMETRY MCSymmetry
