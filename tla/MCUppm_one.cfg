\* Command lines one after the other, each of which may fail or be killed at any
\* point: three of install, uninstall and fetch; two of install, reinstall and upgrade
\* with a new formula in between; three of install and of a reinstall that builds a
\* package twice in one second.
CONSTANTS
  a = a   b = b   c = c
  ua = ua   ub = ub   uc = uc   ub2 = ub2
  sa = sa   sb = sb   sc = sc   sb2 = sb2
  p1 = p1   p2 = p2   p3 = p3
  Package = {a, b, c}
  Pid = {p1, p2, p3}
  Url = {ua, ub, uc, ub2}
  Sha = {sa, sb, sc, sb2}
  Junk = Junk
  None = None
  Directory = Directory
  Unknown = Unknown
  MaxRev = 2
  MaxTime = 1
  MaxDepth = 4
  OneAtATime = TRUE
  MayFail = TRUE
  Formula <- MCFormula
  Dependency <- MCDependency
  Version <- MCVersion
  VersionLine <- MCVersionLine
  CommandLine <- AllLines
  Scenes <- OneByOne
SPECIFICATION MCSpec
INVARIANTS UppmTypeOK InstallsNameOnce RecursionEnds
PROPERTIES OkMeansDone
CHECK_DEADLOCK FALSE
SYMMETRY Processes
