\* Handlers that have used up their rounds stop.
CHECK_DEADLOCK FALSE
SPECIFICATION Spec
CONSTANTS
  Socket = {3}
  MaxPoolSize = 1
  Handler = {h1, h2, h3}
  NoFd = NoFd
  Kind = {"memory"}
  Fault = {}
  ReuseClient = TRUE
  MaxRounds = 1
  MaxSends = 2
INVARIANT Exclusive
