SPECIFICATION LinkFairSpec
CONSTANTS
  ClksPerBit = 8
  DataBits = 2
  MaxDrift = 3
  MaxBytes = 3
INVARIANTS ReceivedAsSent
PROPERTIES AllReceived
