CONSTANTS
  Callers = {c}
  Rules <- MCRules
  SequenceOf <- MCSequenceOf
  GroupOf <- MCGroupOf
  Batches <- MCBatches
  Limits = {1}
  Sizes = {1}
  DefaultSize = 2
  MaxUpdates <- MCThreeUpdates
  MaxSyncs = 0
  NotNumeric = NotNumeric
  NoGroup = NoGroup
  NoTime = NoTime
SPECIFICATION Spec
INVARIANT StateSound
