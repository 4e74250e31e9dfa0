SPECIFICATION BvtLiveSpec
CONSTANTS
  p1 = p1
  p2 = p2
  Processes = {p1}
  NoProcess = none
  Mains <- Attaching
  Assignments <- AttachingAlike
  Suites <- OneTest
  MaySignal = FALSE
PROPERTY TestEnds
CHECK_DEADLOCK FALSE
