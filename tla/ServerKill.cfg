SPECIFICATION Spec
CONSTANTS
  p1 = p1
  p2 = p2
  web = web
  low = low
  Pids = {p1, p2}
  Ports = {web, low}
  LowPorts = {low}
  Sites <- FourSites
  None = None
  MaxLives = 2
SYMMETRY PidSymmetry
INVARIANTS
  TypeOK
  OnlyServersAreSignalled
  KilledMeansGone
CHECK_DEADLOCK FALSE
