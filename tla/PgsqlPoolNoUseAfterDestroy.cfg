SPECIFICATION Spec
CONSTANTS
  w1 = w1
  w2 = w2
  w3 = w3
  Workers <- Two
  N = 1
\* after DestroyLocks the process ends
CHECK_DEADLOCK FALSE
INVARIANT
  NoUseAfterDestroy
