\* One invocation of either program with any options.
SPECIFICATION FairSpec
CONSTANTS
  p1 = p1
  NoOne = NoOne
  Proc = {p1}
  Modes <- AllModes
PROPERTIES
  HangsOnlyPolling
  Terminates
\* the invocation may be over
CHECK_DEADLOCK FALSE
