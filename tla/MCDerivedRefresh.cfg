CONSTANTS
  Callers = {c1, c2}
  Projects = {"p"}
  ProjectOf <- MCProjectOf
  Formula <- MCFormula
  Batches <- MCEvictedBatches
  Size = 3
  MaxUpdates = 4
  MaxOverlapped = 2
  MaxSyncs = 1
  NoTime = NoTime
  NoCaller = NoCaller
SPECIFICATION Spec
INVARIANTS
  DerivedSound
  WholeWhenLevel
PROPERTY PatchesInOrder
SYMMETRY MCSymmetry
