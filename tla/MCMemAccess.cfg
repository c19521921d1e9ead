SPECIFICATION Spec
CONSTANTS
  Word = 32
  Byte = 2
  RAM_START = 4
  RAM_SIZE = 3
  Ints <- MCInts
  Buffers <- MCBuffers
  Registers <- MCRegisters
INVARIANTS TypeOK ServedIffInside
PROPERTY WritesStayInside
CHECK_DEADLOCK FALSE
