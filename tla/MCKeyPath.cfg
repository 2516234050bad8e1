SPECIFICATION KeySpec
CONSTANTS
  BitCount = 3
  RefCycles = 2
  ResetCycles = 2
  SettleCycles = 2
  Ticks = {0, 1}
  DataWords = 2
  CodeWords = 6
  T = 1
  Ecc <- MCEcc
  Enrolled <- MCEnrolled
  Noise <- MCNoise
  Miscorrected <- MCMiscorrected
INVARIANTS ResponseIsMeasured EnrolmentIsCodeword KeyRecovered SuccessIsCodeword
PROPERTIES ChallengeStable MeasurementEnds OperationEnds
