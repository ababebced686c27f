\* Two commands at once.
CONSTANTS
  core = core   mine = mine   u = u   master = master   p1 = p1   p2 = p2
  Name = {core, mine}
  Official = core
  OfficialUrl = u
  Master = master
  Pid = {p1, p2}
  Dir <- Dirs
  Url = {u}
  Branch = {master}
  File = {f1}
  None = None
  Empty = Empty
  Garbled = Garbled
  Unlinked = Unlinked
  MaxCommit = 2
  Descends <- Linear
  CommandLine <- PlaceLines
  MaxCommands = 3
  Overlap = TRUE
  MayFail = TRUE
SPECIFICATION MCSpec
INVARIANTS StaysWhole
PROPERTIES AppearsWhole UpdateBringsOfficial
SYMMETRY Processes
CHECK_DEADLOCK FALSE
