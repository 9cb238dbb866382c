\* Two connections on one descriptor, one worker.
CONSTANTS
  Conns = {c1, c2}
  Fds = {f1}
  Workers = {w1}
  TimerChannel = timer
  WakeChannel = wake
  NoConn = noconn
  NoFd = nofd
  MaxQueue = 1
SPECIFICATION Spec
PROPERTIES
  ClosedIsDestroyed
