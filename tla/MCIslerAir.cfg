SPECIFICATION Spec
CONSTANTS
  Payloads <- MCPayloads
  MacLens <- MCMacLens
INVARIANTS TypeOK TxFits ArrivesWhole
