SPECIFICATION FairSpec
CONSTANTS
  s1 = s1
  s2 = s2
  k1 = k1
  k2 = k2
  d1 = d1
  c1 = c1
  c2 = c2
  Maint = Maint
  NoOne = NoOne
  Sensors = {s1, s2}
  Clients = {}
  Dsets = {d1}
  Conns = {c1}
  Times = {1}
\* after Destroy and with no call in progress nothing needs to happen
CHECK_DEADLOCK FALSE
PROPERTIES
  
  CallsProgress
