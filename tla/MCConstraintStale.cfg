CONSTANTS
  Callers = {c}
  Rules <- MCOneRule
  SequenceOf <- MCOneSequenceOf
  GroupOf <- MCOneGroupOf
  Batches <- MCOneBatches
  Limits = {1, 2}
  Sizes = {}
  DefaultSize = 2
  MaxUpdates <- MCThreeUpdates
  MaxSyncs = 1
  NotNumeric = NotNumeric
  NoGroup = NoGroup
  NoTime = NoTime
SPECIFICATION Spec
INVARIANT StateSound
