SPECIFICATION Spec
CONSTANTS
  Wrap = 30
  US = 2
  MS = 4
  MaxLag = 2
  MaxDelay = 2
  MaxPrint = 2
INVARIANTS TypeOK PollLatency
PROPERTIES NeverShort OnlySlowHostLoses DelayEnds CtrlCEndsDelay PrintEnds
