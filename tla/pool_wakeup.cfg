CONSTANTS
  w1 = w1
  w2 = w2
  Workers = {w1, w2}
  Owner = Owner
  NoThread = NoThread
  Jobs = 2
  MaxItems = 1
  MaxSpurious = 1
SPECIFICATION FairSpec
PROPERTY WaitEndsOnExit
CHECK_DEADLOCK FALSE
