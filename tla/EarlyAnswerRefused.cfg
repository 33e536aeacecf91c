SPECIFICATION Spec
CONSTANTS
  h1 = h1
  h2 = h2
  h3 = h3
  a1 = a1
  a2 = a2
  s1 = s1
  s2 = s2
  None = None
  Hooks <- TwoHooks
  Answerers <- OneAnswerer
  Sessions <- OneSession
  Kinds = {"permission"}
  MaxRestarts = 0
PROPERTIES
  RefusedOnlyIfNotWaiting
CHECK_DEADLOCK FALSE
