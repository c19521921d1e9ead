SPECIFICATION Spec
CONSTANTS
  PacketSize = 64
  BlockSize = 128
  Word = 65536
  Tags = {0, 1}
  AllocLens = {0, 8, 31, 36, 192}
  BlockCounts = {0, 1, 2}
  MaxResets = 0
INVARIANT ResidueIsUnsent
CHECK_DEADLOCK FALSE
