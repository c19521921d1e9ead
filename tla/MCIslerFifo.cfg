SPECIFICATION Spec
CONSTANTS
  RX_BUF_SIZE = 8
  Byte = 8
  SizeT = 65536
  HeapSize = 64
  SchedDepth = 2
  FrameLens = {0, 1, 4, 5, 6, 7}
  Requests = {0, 1, 3}
  MaxFrames = 4
INVARIANTS TypeOK FifoExact NoUnderrun NoLostWakeup
PROPERTY EventuallyDrained
CHECK_DEADLOCK FALSE
