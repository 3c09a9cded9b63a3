CONSTANTS
  Kinds = {"double", "int"}
  Unknown = Unknown
  Null = Null
  Callers = {c1, c2}
  Requests <- MCAllRequests
  Registered <- MCRegistered
  ConnectionCount = 2
  HashOf <- MCHashOf
  Hashed = Hashed
  OpenAtStart <- MCOpen
  MaxRefusals = 1
  NoCaller = NoCaller
SPECIFICATION FairSpec
PROPERTY CallsReturn
