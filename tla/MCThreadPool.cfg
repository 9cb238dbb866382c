\* Two threads, one of them kept by a task that does not return, as those of
\* TcpServer are by EventLoop::Run; two tasks that return; two threads that add.
CONSTANTS
  Threads = {w1, w2}
  Submitters = {io1, io2}
  Tasks = {run1, t1, t2}
  Returning = {t1, t2}
  NoThread = none
  NoTask = notask
SPECIFICATION Spec
INVARIANTS
  TypeOK
  EnoughWakeUps
  TakenInOrder
  OneThreadPerTask
PROPERTIES
  AddedIsStarted
  BusyThreadLeaves
  ImplementsPool
