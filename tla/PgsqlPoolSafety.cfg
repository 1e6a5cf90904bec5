SPECIFICATION Spec
CONSTANTS
  w1 = w1
  w2 = w2
  w3 = w3
  Workers <- Three
  N = 2
SYMMETRY Symmetry
\* after DestroyLocks the process ends
CHECK_DEADLOCK FALSE
INVARIANTS
  TypeOK
  NothingLost
  ExclusiveUse
  CountersMatch
  LentIsInUse
  NoLostWakeup
  RepairNotAsleep
PROPERTY
  ImplementsConnPool
