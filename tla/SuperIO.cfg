\* Two invocations of the tools for any of the three chips, in any order,
\* ended anywhere.
SPECIFICATION Spec
CONSTANTS
  r1 = r1
  r2 = r2
  Run = {r1, r2}
  Families <- Makers
  Tools <- ToolsOf
  Closes <- MayClose
  Contents <- Fresh
SYMMETRY Sym
CONSTRAINT Undisturbed
INVARIANTS
  PrintsRight
  NeverHalfMoved
PROPERTIES
  OnlyWanted
  Accomplished
  Relocked
\* all invocations may be over
CHECK_DEADLOCK FALSE
