CONSTANTS
  Tasks = {t1, t2, t3}
  SequenceIds <- MCSequenceIds
  Batches <- MCBatches
  ColdCount = 2
  HotWorkers = {h1, h2}
  Capacity = 2
  ColdCodes = {"Ok"}
  NoTask = NoTask
  HotOutcomes <- MCHotOutcomes
  Unresolved <- MCUnresolved
SPECIFICATION RpcSpec
SYMMETRY MCSymmetry
INVARIANTS
  TypeOK
  HotInOrder
  ColdInOrder
  SlotsExact
  AnswerHolds
  StoreFollowsWindow
