SPECIFICATION Spec
CONSTANTS
  a = a
  b = b
  q = q
  g = g
  l = l
  v1 = v1
  v2 = v2
  Names = {a, b, q, g, l}
  Quoted = {q}
  Ignored = {g}
  Linked = {l}
  Versions = {v1, v2}
  Big = {v2}
  Wordy = {v2}
  Absent = Absent
  None = None
  MaxChanges = 2
  Requests <- FewRequests
  Repos <- SmallRepos
ACTION_CONSTRAINT PlainAdditions
INVARIANTS
  TypeOK
  QuietIsExact
  NoEntryIsInvented
  ErrorsHaveACause
CHECK_DEADLOCK FALSE
