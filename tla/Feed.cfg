SPECIFICATION FairSpec
CONSTANTS
  s1 = s1
  s2 = s2
  w1 = w1
  w2 = w2
  c1 = c1
  c2 = c2
  Gone = Gone
  Sessions = {s1}
  Writers = {w1, w2}
  Clients = {c1, c2}
  Once = {c2}
  Capacity = 1
  MaxChanges = 3
  MaxConnects = 2
INVARIANTS
  TypeOK
  NothingIsLost
PROPERTIES
  EveryUpdateArrives
CHECK_DEADLOCK FALSE
