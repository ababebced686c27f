\* Two processes, three operations: one package whose formula moves on, or two
\* packages made from one file, whose sessions may get the same name.
CONSTANTS
  a = a   b = b   u1 = u1   u2 = u2   s1 = s1   s2 = s2
  p1 = p1   p2 = p2
  Package = {a, b}
  Pid = {p1, p2}
  Url = {u1, u2}
  Sha = {s1, s2}
  Junk = Junk
  None = None
  Directory = Directory
  MaxRev = 2
  MaxTime = 1
  MaxOps = 3
  Formula <- MCFormula
SPECIFICATION BoundedSpec
INVARIANTS TypeOK LinkedIsBuilt LinkedIsVerified UnpackedIsVerified
PROPERTIES GivenUpOnlyForBuilt ImplementsIndex
CHECK_DEADLOCK FALSE
SYMMETRY Processes
