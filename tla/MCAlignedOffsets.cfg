CONSTANTS
  NotNumeric = NotNumeric  Missing = Missing  Failed = Failed
  NoTime = NoTime  NoRange = NoRange
  SequenceIds = {"a", "b"}
  KindOf <- MCKindOf
  Rules <- MCOffsetRule
  Batches <- MCBatchesSmall
  Size = 3
  Windows <- MCWindows
  Requests <- MCRequestsOrdered
SPECIFICATION Spec
INVARIANT AlignedOffsetsFound
