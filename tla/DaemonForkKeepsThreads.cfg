SPECIFICATION Spec
CONSTANTS
  pgsql = pgsql
  rrd = rrd
  net = net
  permit = permit
  a = a
  b = b
  host = host
  Eth = Eth
  eth = eth
  long = long
  longCut = longCut
  none = none
  Absent = none
  Kept <- MCKept
  Asked <- MCAsked
  Files <- MCComplete
  MaxDefs = 4
  Periodic <- MCPeriodic
  Callback <- MCCallback
\* the program ends, or main() waits for threads for ever
CHECK_DEADLOCK FALSE
INVARIANT
  ForkKeepsThreads
