SPECIFICATION FeedSpec
CONSTANTS
  Coefs = 4
  Rank = 2
  Depth = 16
  Word <- MCWords
  FifoZero = 0
INVARIANTS LastWordWaited
