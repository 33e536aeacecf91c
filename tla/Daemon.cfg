SPECIFICATION Spec
CONSTANTS
  p1 = p1
  p2 = p2
  p3 = p3
  e1 = e1
  e2 = e2
  None = None
  Blank = Blank
  Serves = {p1, p2, p3}
  Pairs = {e1, e2}
  Addrs = {"localhost", "tailnet"}
  Loopback = {"localhost"}
  Hosts = {"tailnet"}
  MaxPolls = 2
SYMMETRY Symmetry
INVARIANTS
  TypeOK
  SocketIsTheServers
  StaleNeverBlocks
  QrIsHonoured
CHECK_DEADLOCK FALSE
