SPECIFICATION KyberSpec
CONSTANTS
  Secrets = {s1, s2}
  Zero = Zero
  Coefs = 4
  Rank = 2
  Depth = 16
  Word <- MCWords
  FifoZero = 0
INVARIANTS WrittenOnce CtrlNeverIgnored CleanStart MatchIsHonest ErasedByZeroize OwnWord
PROPERTIES RequestAnswered PhaseEnds ImplementsDevice ImplementsQueue
