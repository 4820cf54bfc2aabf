SPECIFICATION FairSpec
CONSTANTS
  NTracks = 1
  MaxGen = 2
CHECK_DEADLOCK FALSE
INVARIANT EndsOnlyWhenStopped
INVARIANT NothingLeaks
PROPERTY StopEnds
PROPERTY LossIsNoticed
