CONSTANTS
  Kinds = {"double", "int"}
  Unknown = Unknown
  Null = Null
  Callers = {c1, c2, c3}
  Requests <- MCHistoryRequests
  Registered <- MCRegistered
  ConnectionCount = 2
  HashOf <- MCHashOf
  Hashed = Hashed
  OpenAtStart <- MCOpen
  MaxRefusals = 1
  NoCaller = NoCaller
SPECIFICATION Spec
SYMMETRY MCSymmetry
INVARIANTS
  LocksHeld
  NoDeadlock
  SchemaFirst
  AcknowledgedStored
  AnswerIsSnapshot
