\* Three connections on two descriptors, so that a descriptor is used again.
CONSTANTS
  Conns = {c1, c2, c3}
  Fds = {f1, f2}
  Workers = {w1}
  TimerChannel = timer
  WakeChannel = wake
  NoConn = noconn
  NoFd = nofd
  MaxQueue = 1
SPECIFICATION SafetySpec
SYMMETRY Symmetry
INVARIANTS
  TypeOK
  TcpEntryIsInLoop
  OneConnPerFd
PROPERTIES
  InsertNeverOverwrites
  LoopErasesIdle
  TimerErasesIdleOrNewer
