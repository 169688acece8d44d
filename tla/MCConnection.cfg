SPECIFICATION ConnectionFairSpec
CONSTANTS
  BUFFER_SIZE = 6
  Lengths = {2, 3}
  MaxMessages = 4
INVARIANTS
  ReceiveInv
  InOrder
  NoFalseReset
  NoLostWakeup
PROPERTIES
  Delivered
