\* Two descriptors for connections, servers and attempts to connect, so that
\* they are used again; two functions a task.
SPECIFICATION FairSpec
CONSTANTS
  d1 = d1
  d2 = d2
  MaxFd = 2
  Port = {1}
  Dbref = {d1}
  MaxOutput = 1
  MaxCalls = 2
  NoFd = NoFd
INVARIANTS
  TypeOK
  DescriptorsOwned
  WalkedRecordsLive
  CurConnLives
  PortServedOnce
PROPERTY
  ClosedOwesNothing
  ConnectAnswered
  DeadReported
  AttemptsEnd
  ShutdownEnds
CHECK_DEADLOCK FALSE
