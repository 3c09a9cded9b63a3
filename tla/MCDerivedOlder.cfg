CONSTANTS
  Callers = {c1, c2}
  Projects = {"p"}
  ProjectOf <- MCProjectOf
  Formula <- MCFormula
  Batches <- MCUnevenBatches
  Size = 4
  MaxUpdates = 3
  MaxOverlapped = 3
  MaxSyncs = 0
  NoTime = NoTime
  NoCaller = NoCaller
SPECIFICATION Spec
PROPERTY NoOlderOverNewer
