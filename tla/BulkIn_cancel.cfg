SPECIFICATION Spec
CONSTANTS
  WORD = 8
  Buffer = {0, 1, 2, 3}
  NULL = 0
  PacketSize = 2
  Lengths = {0, 2, 5}
  MaxTransfers = 3
  MaxEvents = 4
  MaxLost = 1
CHECK_DEADLOCK FALSE
PROPERTY CancelledStaysCancelled
