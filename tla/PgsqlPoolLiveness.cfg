SPECIFICATION FairSpec
CONSTANTS
  w1 = w1
  w2 = w2
  w3 = w3
  Workers <- Two
  N = 2
\* after DestroyLocks the process ends
CHECK_DEADLOCK FALSE
PROPERTIES
  BadIsRepaired
  WaitersServed
  ShutdownEnds
