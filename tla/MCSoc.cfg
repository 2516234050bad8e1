SPECIFICATION Spec
CONSTANTS
  ClksPerBit = 5
  DataBits = 1
  Slots = 3
  Cores = {puf}
  Nobody = Nobody
INVARIANTS NoByteLost DoneNeverLost DoneIsFresh
PROPERTIES ImplementsQueue
