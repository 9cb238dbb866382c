\* One worker, as HttpServer is used by default.
CONSTANTS
  Conns = {c1, c2}
  Fds = {f1, f2}
  Workers = {w1}
  TimerChannel = timer
  WakeChannel = wake
  NoConn = noconn
  NoFd = nofd
  MaxQueue = 1
SPECIFICATION SafetySpec
INVARIANTS
  UsedIsAlive
