SPECIFICATION BvtSpec
CONSTANTS
  p1 = p1
  p2 = p2
  Processes = {p1}
  NoProcess = none
  Mains <- Detached
  Assignments <- DetachedAlike
  Suites <- OneTest
  MaySignal = TRUE
INVARIANT PassMeansAttached
CHECK_DEADLOCK FALSE
