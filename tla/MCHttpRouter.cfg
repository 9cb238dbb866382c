\* Two threads and five patterns.
CONSTANTS
  Threads = {io1, io2}
  Requests <- MCRequests
  Patterns <- MCPatterns
  Blanks <- MCBlanks
SPECIFICATION Spec
INVARIANTS
  RouterInv
  LfRequestParsed
PROPERTIES
  RaceEnds
