\* Two commands at once; urls of two characters, a pipe that holds three.
CONSTANTS
  p1 = p1   p2 = p2   near = near   far = far   good = good   bad = bad   x = x   y = y
  Pid = {p1, p2}
  Output = {near, far}
  Far = {far}
  Content = {good, bad}
  Cut = Cut
  None = None
  Newline = Newline
  Character = {x, y, Newline}
  UrlSize = 2
  PipeSize = 3
  Printed <- MCPrinted
  CommandLine <- MCCommandLine
SPECIFICATION MCSpec
INVARIANTS UrlIsLine
PROPERTIES OnlyVerified EveryDownloadEnds
CHECK_DEADLOCK FALSE
