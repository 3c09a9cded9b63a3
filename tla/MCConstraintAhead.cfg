CONSTANTS
  Callers = {c}
  Rules <- MCTwoRules
  SequenceOf <- MCTwoSequenceOf
  GroupOf <- MCTwoGroupOf
  Batches <- MCBatches
  Limits = {1}
  Sizes = {}
  DefaultSize = 2
  MaxUpdates <- MCThreeUpdates
  MaxSyncs = 0
  NotNumeric = NotNumeric
  NoGroup = NoGroup
  NoTime = NoTime
SPECIFICATION Spec
INVARIANT StateComplete
