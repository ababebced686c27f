\* Two commands at once; a formula that names itself.
CONSTANTS
  a = a   b = b   c = c
  ua = ua   ub = ub   uc = uc   ub2 = ub2
  sa = sa   sb = sb   sc = sc   sb2 = sb2
  p1 = p1   p2 = p2   p3 = p3
  Package = {a, b, c}
  Pid = {p1, p2}
  Url = {ua, ub, uc}
  Sha = {sa, sb, sc}
  Junk = Junk
  None = None
  Directory = Directory
  Unknown = Unknown
  MaxRev = 1
  MaxTime = 0
  MaxDepth = 4
  OneAtATime = FALSE
  MayFail = TRUE
  Formula <- MCFormula
  Dependency <- MCCycle
  Version <- MCVersion
  VersionLine <- MCVersionLine
  CommandLine <- AllLines
  Scenes <- AllAtOnce
SPECIFICATION MCFairSpec
PROPERTIES ImplementsStore EveryCommandEnds
CHECK_DEADLOCK FALSE
