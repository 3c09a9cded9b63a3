CONSTANTS
  Callers = {c}
  Projects = {"p", "q"}
  ProjectOf <- MCTwoProjectsOf
  Formula <- MCTwoFormula
  Batches <- MCProjectBatches
  Size = 4
  MaxUpdates = 2
  MaxOverlapped = 2
  MaxSyncs = 0
  NoTime = NoTime
  NoCaller = NoCaller
SPECIFICATION Spec
PROPERTY SkipIsCovered
