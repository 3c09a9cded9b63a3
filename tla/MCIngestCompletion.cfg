CONSTANTS
  Tasks = {t1, t2}
  SequenceIds = {1, 2}
  Batches = {{1, 2}}
  ColdCount = 2
  HotWorkers = {h1, h2}
  Capacity = 2
  ColdCodes = {"Ok", "Failed"}
  NoTask = NoTask
SPECIFICATION FairSpec
INVARIANT CompletionWhole
PROPERTIES
  PromisedResultFinal
  AdmittedCompletes
  StopTerminates
  ImplementsPromise
