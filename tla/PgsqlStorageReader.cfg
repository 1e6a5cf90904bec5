SPECIFICATION Spec
CONSTANTS
  s1 = s1
  s2 = s2
  k1 = k1
  k2 = k2
  d1 = d1
  c1 = c1
  c2 = c2
  Maint = Maint
  NoOne = NoOne
  Sensors = {s1}
  Clients = {k1}
  Dsets = {d1}
  Conns = {c1, c2}
  Times = {1, 2}
SYMMETRY Symmetry
\* after Destroy and with no call in progress nothing needs to happen
CHECK_DEADLOCK FALSE
INVARIANTS
  TypeOK
  ConnectionWhileRunning
  TablesFirst
  NoneMissesReady
PROPERTY
  ImplementsTsStore
