CONSTANTS
  v = v
  w = w
  a = a
  b = b
  Workers = {v, w}
  Clients = {a, b}
  MaxThreads = 1
  QueueCap = 1
  MaxCalls = 1
SPECIFICATION FairSpec
INVARIANTS
  SlotsMatchThreads
PROPERTIES
  ImplementsCalls
  FailureShowsInState
  EveryRequestReturns
  UnheldThreadEnds
CHECK_DEADLOCK FALSE
