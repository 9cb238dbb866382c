\* Three messages; what arrives together may be all of two short messages.
\* The system stops when everything has been sent and picked, or has thrown.
CONSTANTS
  Radix = 4
  HeaderLen = 3
  Messages <- MCMessages
  ReadMax = 9
  MaxSent = 3
SPECIFICATION Spec
INVARIANTS
  FramingInv
PROPERTIES
  PartOfHeaderWaits
  EveryMessagePicked
CHECK_DEADLOCK FALSE
