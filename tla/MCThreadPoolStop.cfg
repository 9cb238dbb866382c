CONSTANTS
  Threads = {w1, w2}
  Submitters = {io1}
  Tasks = {t1, t2, t3}
  Returning = {t1, t2, t3}
  NoThread = none
  NoTask = notask
SPECIFICATION Spec
PROPERTIES
  StopEndsThreads
