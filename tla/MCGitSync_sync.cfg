\* Syncs that overlap, any of which may be cut off.
CONSTANTS
  d = d   u = u   master = master   dev = dev   p1 = p1   p2 = p2   p3 = p3
  Dir = {d}
  Url = {u}
  Branch = {master}
  Pid = {p1, p2, p3}
  File = {f1, f2}
  None = None
  MaxCommit = 3
  MaxSyncs = 4
  Overlap = TRUE
  MayFail = TRUE
  Cloned = TRUE
  Descends <- Linear
SPECIFICATION MCSpec
INVARIANTS SuccessMeansClean
PROPERTIES SyncedIsRemote
SYMMETRY Processes
CHECK_DEADLOCK FALSE
