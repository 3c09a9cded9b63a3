CONSTANTS
  c1 = c1  c2 = c2  p1 = p1  p2 = p2
  a = a  b = b  r = r  k1 = k1  k2 = k2  real = real  label = label
  Callers = {c1}
  Projects = {p1, p2}
  SequenceIds = {a, b}
  EntryIds = {a, b, r}
  Keys = {k1, k2}
  Types = {real, label}
  NumericTypes <- MCNumericTypes
  Requests <- MCRequests
  Points <- MCPoints
  NoSequence = NoSequence  NoKey = NoKey  NoConfig = NoConfig
SPECIFICATION Spec
INVARIANTS TypeOK IndexExact ReferencesKnown ResolvedRegistered
PROPERTY PublishedWhole
