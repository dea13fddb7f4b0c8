\* Two invocations of either program with any options, at any distance in
\* time; any ioctl may fail and any invocation be killed.
SPECIFICATION Spec
CONSTANTS
  p1 = p1
  p2 = p2
  NoOne = NoOne
  Proc = {p1, p2}
  Modes <- AllModes
SYMMETRY Sym
INVARIANTS
  TypeOK
  PrintsOwn
  Bracketed
  Released
  WarnsExactly
PROPERTY ImplementsQuery
\* every invocation may be over
CHECK_DEADLOCK FALSE
