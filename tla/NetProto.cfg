SPECIFICATION FairSpec
CONSTANTS
  Times = {60, 120, 180, 240}
  Value <- MCValue
  Resolutions <- MCResolutions
  MaxInt = 256
  MaxRequests = 2
\* a closed connection stays closed, and nobody may serve a socket
CHECK_DEADLOCK FALSE
INVARIANTS
  TypeOK
  FreesBehindItself
  TallyIsOwed
  ReplyIsGroups
  NextHighestResolution
PROPERTY
  HangUpEndsThread
