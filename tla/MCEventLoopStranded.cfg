CHECK_DEADLOCK FALSE
SPECIFICATION FairSpec
CONSTANTS
  Conn = {c1, c2}
  Fd = {f1}
  PoolFd = {p1}
  NoFd = NoFd
  NoConn = NoConn
PROPERTY FailedRegistrationEnds
