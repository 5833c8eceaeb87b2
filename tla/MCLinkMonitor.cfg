SPECIFICATION FairSpec
CONSTANTS
  h1 = h1
  h2 = h2
  Handlers <- MCHandlers
  NoHandler = NoHandler
  MaxEvents = 3
INVARIANTS
  TypeOK
  WriterAlive
  NoDuplicates
  OneLoopKeepsOrder
PROPERTIES
  WaitersAreServed
  EventsArrive
  AbandonedCallReturns
CHECK_DEADLOCK FALSE
