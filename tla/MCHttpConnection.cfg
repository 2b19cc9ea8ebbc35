\* A connection that has halted, or whose client has sent all, stops.
CHECK_DEADLOCK FALSE
SPECIFICATION FairSpec
CONSTANTS
  Request <- Varied
  MaxPipeline = 3
INVARIANTS
  TypeOK
  InOrder
  Isolated
  StatusIsOwn
  HandlersSeeSound
PROPERTIES
  AllAnswered
  
