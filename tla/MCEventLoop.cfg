\* Every slot may end up stranded by a failed event_add, or waiting on -1.
CHECK_DEADLOCK FALSE
SPECIFICATION FairSpec
CONSTANTS
  Conn = {c1, c2}
  Fd = {f1, f2}
  PoolFd = {p1}
  NoFd = NoFd
  NoConn = NoConn
INVARIANTS
  TypeOK
  NoDanglingEvent
  RunsLiveCoroutine
  Accounted
  FdAccounted
  WatchesOpenFd
PROPERTIES
  RefinesScheduler
  LoopReturns
  ReadyIsServed
