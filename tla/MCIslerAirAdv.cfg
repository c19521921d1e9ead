SPECIFICATION Spec
CONSTANTS
  Payloads <- MCPayloads
  MacLens <- MCMacLens
INVARIANT AdvLengthByte
