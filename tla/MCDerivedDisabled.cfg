CONSTANTS
  Callers = {c1, c2}
  Projects = {"p"}
  ProjectOf <- MCProjectOf
  Formula <- MCFormula
  Batches <- MCUnevenBatches
  Size = 4
  MaxUpdates = 2
  MaxOverlapped = 2
  MaxSyncs = 1
  NoTime = NoTime
  NoCaller = NoCaller
SPECIFICATION Spec
INVARIANT DisabledStaysCleared
