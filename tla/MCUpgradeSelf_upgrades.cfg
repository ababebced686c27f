\* Three upgrades that meet, on one device or two, while new releases appear.
CONSTANTS
  p1 = p1   p2 = p2   p3 = p3
  Pid = {p1, p2, p3}
  Old = Old
  NoTag = NoTag
  None = None
  Blocks = 2
  Release <- MCRelease
  First <- MCFirst
SPECIFICATION Spec
INVARIANTS RunnableUnlessCut CostsOneUpgrade
PROPERTIES OkMeansInstalled ReplacesOlder
SYMMETRY Processes
CHECK_DEADLOCK FALSE
