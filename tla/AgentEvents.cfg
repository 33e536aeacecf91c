SPECIFICATION FairSpec
CONSTANTS
  h1 = h1
  h2 = h2
  s1 = s1
  Hooks = {h1, h2}
  Sessions = {}
  Uuids = {}
  Anonymous = Anonymous
  Fleets <- FewFleets
  Envs <- FewEnvs
  Usages = {130}
  Endpoint = TRUE
  Blank = Blank
  None = None
ACTION_CONSTRAINT FewLaunches
INVARIANTS
  TypeOK
  NeverKilledWaiting
  HeldOnlyForAnAnswer
  DecisionsAreReadable
  StateComesFromAPane
  HostIdIsShared
PROPERTIES
  NothingLearntIsForgotten
  LinesAreHandled
CHECK_DEADLOCK FALSE
