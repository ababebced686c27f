\* A reinstall, alone and with nothing that fails.
CONSTANTS
  a = a   b = b   c = c
  ua = ua   ub = ub   uc = uc   ub2 = ub2
  sa = sa   sb = sb   sc = sc   sb2 = sb2
  p1 = p1   p2 = p2   p3 = p3
  Package = {a, b, c}
  Pid = {p1, p2}
  Url = {ua, ub, uc}
  Sha = {sa, sb, sc}
  Junk = Junk
  None = None
  Directory = Directory
  Unknown = Unknown
  MaxRev = 1
  MaxTime = 0
  MaxDepth = 4
  OneAtATime = TRUE
  MayFail = FALSE
  Formula <- MCFormula
  Dependency <- MCDependency
  Version <- MCVersion
  VersionLine <- MCVersionLine
  CommandLine <- AllLines
  Scenes <- Reinstalls
SPECIFICATION MCSpec
PROPERTY ReinstallSucceeds
CHECK_DEADLOCK FALSE
