SPECIFICATION UsersFairSpec
CONSTANTS
  Modes <- MCModes
  Rate <- MCRate
  DigestLen <- MCDigestLen
  AnyLen = AnyLen
  StateBytes = 4
  Rounds = 3
  Lengths <- MCLengths
  Kdf256 = "SHAKE"
  KeyBytes = 4
  SeedBytes = 7
  Keys = {"a", "b", "c"}
  Wanted <- MCWanted
  CavpMessages = {"", "abc"}
  Empty = ""
  MaxLines = 7
INVARIANTS DigestIsRight IdleErased SeedIsDigest RecordsAreBlocks
PROPERTIES UsersServed
CHECK_DEADLOCK FALSE
