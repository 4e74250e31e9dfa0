\* Two loaders: both under test, one after the other, or one a user's beside
\* the test; with fairness and so without symmetry.
SPECIFICATION BvtFairSpec
CONSTANTS
  p1 = p1
  p2 = p2
  Processes = {p1, p2}
  NoProcess = none
  Mains <- Attaching
  Assignments <- Together
  Suites <- OneOrTwo
  MaySignal = TRUE
INVARIANTS BvtTypeOK TeardownComplete SkeletonOutlives FailureReported RunningIsAttached NothingLeft PassMeansAttached FailHasCause ZeroMeansAttached
PROPERTIES Stops TestEnds
CHECK_DEADLOCK FALSE
