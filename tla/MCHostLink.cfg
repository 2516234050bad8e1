SPECIFICATION FairSpec
CONSTANTS
  NumWords = 1
  BytesPerWord = 2
  Byte = {0, 1, 2, 170}
  KeyLength = 1
  Counts = {0, 2}
  None = None
  Enrolments <- MCEnrolments
  Keys <- MCKeys
  Builds = {FALSE, TRUE}
  RxCapacity = 3
  MaxSessions = 2
  MaxResets = 1
INVARIANTS NoFalseAlarm
PROPERTIES SavesOwnEnrolment AcceptedIsUsed LeavesNothingBehind SessionEnds
CHECK_DEADLOCK FALSE
