SPECIFICATION FairSpec
CONSTANTS
  NumWords = 2
  BytesPerWord = 1
  Byte = {1, 2, 3}
  HelperOutputs <- MCHelperOutputs
  RxCapacity = 1
  MaxTxn = 2
  LateCores = {"puf", "fe", "kdf"}
  Param = 3
  Zero = Zero
INVARIANTS ReplyFollowsProtocol SecretsErased
