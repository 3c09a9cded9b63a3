CONSTANTS
  Events = {e1, e2}
  Capacity = 2
  Deadline = 1
  Budget = 4
  Delays <- MCDelays
  Oversleep = 1
  InFlightBound = 2
  NoEvent = NoEvent
SPECIFICATION FairSpec
INVARIANTS
  VerdictIsReal
  NotOvertaken
  BudgetKept
PROPERTIES
  QueuedSettles
  StopEnds
