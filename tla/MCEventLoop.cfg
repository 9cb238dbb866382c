\* Two workers and three tasks, so that one worker queues twice; two other
\* channels and an epoll_wait array of two, so that it overflows.
CONSTANTS
  Producers = {p1, p2}
  Tasks = {t1, t2, t3}
  Others = {c1, c2}
  WakeChannel = wake
  LoopThread = loop
  NoThread = none
  NoTask = notask
  MaxEvents = 2
SPECIFICATION Spec
INVARIANTS
  TypeOK
  NoLostWakeUp
  NoLostStop
  FifoExactlyOnce
PROPERTIES
  DrainOnlyShrinks
  QueuedIsExecuted
  StopEndsRun
  ImplementsMailbox
