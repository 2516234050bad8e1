SPECIFICATION Spec
CONSTANTS
  NumWords = 1
  BytesPerWord = 2
  Byte = {0, 1, 2, 170}
  KeyLength = 1
  Counts = {0}
  None = None
  Enrolments <- MCEnrolments
  Keys <- MCKeys
  Builds = {FALSE}
  RxCapacity = 3
  MaxSessions = 2
  MaxResets = 0
INVARIANTS SavedIsEnrolled
CHECK_DEADLOCK FALSE
