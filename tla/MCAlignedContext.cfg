CONSTANTS
  NotNumeric = NotNumeric  Missing = Missing  Failed = Failed
  NoTime = NoTime  NoRange = NoRange
  SequenceIds = {"a", "b"}
  KindOf <- MCKindOf
  Rules <- MCAlignedRule
  Batches <- MCBatchesApart
  Size = 3
  Windows <- MCWindows
  Requests <- MCRequestsOrdered
SPECIFICATION Spec
INVARIANT ContextUsed
\* On the same instance:
\* INVARIANT NumbersChecked
