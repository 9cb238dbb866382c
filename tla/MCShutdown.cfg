\* Two sub-loops with their threads; the signal comes at any point or not at all.
\* The handler and the threads it joins can wait for each other: the system may stop.
CONSTANTS
  Threads = {io1, io2}
  Loops = {l1, l2}
  Main = main
  NoThread = none
  NoTask = notask
SPECIFICATION Spec
INVARIANTS
  ShutdownInv
PROPERTIES
  SignalEnds
  MutexesAreGiven
CHECK_DEADLOCK FALSE
