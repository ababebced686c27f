\* Commands one after the other, any of which may fail or be killed.
CONSTANTS
  core = core   mine = mine   u = u   master = master   p1 = p1   p2 = p2
  Name = {core, mine}
  Official = core
  OfficialUrl = u
  Master = master
  Pid = {p1}
  Dir <- Dirs
  Url = {u}
  Branch = {master}
  File = {f1}
  None = None
  Empty = Empty
  Garbled = Garbled
  Unlinked = Unlinked
  MaxCommit = 2
  Descends <- Linear
  CommandLine <- SettingLines
  MaxCommands = 4
  Overlap = FALSE
  MayFail = TRUE
SPECIFICATION MCSpec
INVARIANTS RepoTypeOK ConfigIsAsAsked
PROPERTIES PinnedStays UpdateUpdates
CHECK_DEADLOCK FALSE
