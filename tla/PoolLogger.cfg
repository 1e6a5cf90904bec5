SPECIFICATION Spec
CONSTANTS
  N = 2
  Limit = 3
INVARIANT
  TypeOK
PROPERTIES
  CatchesUp
  LoggerEnds
