SPECIFICATION Spec
CONSTANTS
  u1 = u1
  u2 = u2
  UserHooks = {u1, u2}
  Theirs = Theirs
  Names = {"Elicit", "k1", "k2"}
  Other = Other
  Absent = Absent
  Blank = Blank
  Torn = Torn
  Current = Current
  Older = Older
  Moved = Moved
  Cut = Cut
  NotOurs = NotOurs
  Exes = {"old", "new"}
  Starts <- AllStarts
  MaxCommands = 2
  MaxEdits = 1
INVARIANTS
  TypeOK
  TheirsSurvive
  OverwriteIsRecoverable
  OursAreExact
  InstallIsIdempotent
  UninstallIsInverse
PROPERTIES
  TornIsLeft
CHECK_DEADLOCK FALSE
