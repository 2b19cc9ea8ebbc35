\* A connection that has halted, or whose client has sent all, stops.
CHECK_DEADLOCK FALSE
SPECIFICATION FairSpec
CONSTANTS
  Request <- WithExpect
  MaxPipeline = 1
PROPERTY ExpectIsMet
