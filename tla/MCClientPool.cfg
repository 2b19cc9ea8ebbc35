\* Handlers that have used up their rounds stop.
CHECK_DEADLOCK FALSE
SPECIFICATION Spec
CONSTANTS
  Socket = {3, 4, 5}
  MaxPoolSize = 2
  Handler = {h1, h2, h3}
  NoFd = NoFd
  Kind = {"memory", "expect"}
  Fault = {"close", "malformed", "early"}
  ReuseClient = FALSE
  MaxRounds = 1
  MaxSends = 1
SYMMETRY Sym
INVARIANTS
  Disjoint
  Bounded
  HoldsOpen
  Exclusive
  TakenInUse
PROPERTY RefinesPool
