CONSTANTS
  Kinds = {"double", "int"}
  Unknown = Unknown
  Null = Null
  Callers = {c1, c2, c3}
  Requests <- MCRetypedRequests
  Registered <- MCRegistered
  ConnectionCount = 2
  HashOf <- MCHashOf
  Hashed = Hashed
  OpenAtStart <- MCOpen
  MaxRefusals = 0
  NoCaller = NoCaller
SPECIFICATION Spec
INVARIANT HistoryReadable
