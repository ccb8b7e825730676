CONSTANTS
  w1 = w1
  w2 = w2
  Workers = {w1, w2}
  Owner = Owner
  NoThread = NoThread
  Jobs = 2
  MaxItems = 3
  MaxSpurious = 1
SPECIFICATION FairSpec
INVARIANT TypeOK
INVARIANT EachJobOnce
INVARIANT ReturnsAfterWork
INVARIANT PoolInv
PROPERTY ImplementsJobRun
PROPERTY EveryJobRuns
PROPERTY EndsUnlessStranded
CHECK_DEADLOCK FALSE
