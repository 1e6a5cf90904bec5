SPECIFICATION FairSpec
CONSTANTS
  d1 = d1
  d2 = d2
  dsets <- Two
  MaxTime = 2
  Start = 0
  Period = 1
  MaxWait = 2
  HeaderHasColumn = FALSE
  RrdtoolFails = FALSE
PROPERTY
  EveryValueArrives
