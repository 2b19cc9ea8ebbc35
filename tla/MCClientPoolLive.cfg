\* Handlers that have used up their rounds stop.
CHECK_DEADLOCK FALSE
SPECIFICATION FairSpec
CONSTANTS
  Socket = {3, 4}
  MaxPoolSize = 2
  Handler = {h1, h2}
  NoFd = NoFd
  Kind = {"memory", "disk", "expect"}
  Fault = {"close"}
  ReuseClient = FALSE
  MaxRounds = 2
  MaxSends = 1
INVARIANTS
  TypeOK
  RepliesMatch
PROPERTY SendsEnd
