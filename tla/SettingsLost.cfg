SPECIFICATION Spec
CONSTANTS
  u1 = u1
  u2 = u2
  UserHooks = {u1, u2}
  Theirs = Theirs
  Names = {"Elicit", "k1", "k2"}
  Other = Other
  Absent = Absent
  Blank = Blank
  Torn = Torn
  Current = Current
  Older = Older
  Moved = Moved
  Cut = Cut
  NotOurs = NotOurs
  Exes = {"old"}
  Starts <- OneStart
  MaxCommands = 2
  MaxEdits = 0
INVARIANTS
  Recoverable
CHECK_DEADLOCK FALSE
