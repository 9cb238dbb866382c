\* None, one or two workers (Init chooses); replies of two units and room for one in the
\* kernel, so that every reply needs several sends; reads of at most two bytes.
\* The system stops when the client has nothing more to do, or the process has ended.
CONSTANTS
  Workers = {w1, w2}
  ReplyLen = 2
  SendCap = 1
  ReadMax = 2
  MaxBytes = 3
SPECIFICATION Spec
INVARIANTS
  IOInv
  RepliesInOrder
  NoEdgeLost
  EndsInKnownWays
PROPERTIES
  ArrivedIsPicked
  ImplementsReplyStream
CHECK_DEADLOCK FALSE
