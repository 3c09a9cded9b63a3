CONSTANTS
  Callers = {c}
  Projects = {"p"}
  ProjectOf <- MCProjectOf
  Formula <- MCFormula
  Batches <- MCEvictedBatches
  Size = 3
  MaxUpdates = 4
  MaxOverlapped = 4
  MaxSyncs = 0
  NoTime = NoTime
  NoCaller = NoCaller
SPECIFICATION Spec
INVARIANT LevelComplete
