\* Two commands at once; a formula moves on; near and far output files.
CONSTANTS
  a = a   b = b   c = c   d = d   e = e   s = s   u = u
  p1 = p1   p2 = p2   near = near   far = far
  Package = {a, b, c, d, e, s, u}
  Unknown = Unknown
  Pid = {p1, p2}
  MaxRev = 2
  Directory = {Here}
  Here = Here
  Plain = {near, far}
  Far = {far}
  Blocks = 2
  None = None
  Dependency <- MCDependency
  CommandLine <- MCCommandLine
SPECIFICATION MCSpec
INVARIANTS EveryMentionExpanded PrintsReachable OutputIsWhole
PROPERTIES OkMeansWritten EveryCommandEnds
CHECK_DEADLOCK FALSE
