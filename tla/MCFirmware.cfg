SPECIFICATION FairSpec
CONSTANTS
  NumWords = 1
  BytesPerWord = 2
  Byte = {0, 1, 2}
  HelperOutputs <- MCHelperOutputs
  RxCapacity = 1
  MaxTxn = 2
  LateCores = {}
  Param = 2
  Zero = Zero
INVARIANTS KeyIsFresh EnrolmentIsFresh
PROPERTIES ImplementsProtocol SeedsHeldWhileBusy CommandAnswered
