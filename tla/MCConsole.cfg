SPECIFICATION Spec
CONSTANTS
  PacketSize = 4
  RX_BUF_SIZE = 3
  Lens = {1, 3, 4}
  MaxSent = 8
  Breaks = {3, 4, 7}
INVARIANTS TypeOK RingInOrder
PROPERTIES NeverBack NoGap BreakGetsThrough
CHECK_DEADLOCK FALSE
