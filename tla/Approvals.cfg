SPECIFICATION LiveSpec
CONSTANTS
  h1 = h1
  h2 = h2
  h3 = h3
  a1 = a1
  a2 = a2
  s1 = s1
  s2 = s2
  None = None
  Hooks <- TwoHooks
  Answerers <- TwoAnswerers
  Sessions <- TwoSessions
  Kinds = {"permission", "notification", "report", "anonymous"}
  MaxRestarts = 1
INVARIANTS
  TypeOK
  NeverAllowUnlessAnswered
  OnlyTheWinnerIsTold
  ResolutionIsTheRowsOwn
  RegistryIsBacked
  HttpOkMeansMarked
PROPERTIES
  ImplementsContract
  HooksTerminate
  AnswersAreDelivered
  AnswersAreShown
  AsksAreReplied
CHECK_DEADLOCK FALSE
