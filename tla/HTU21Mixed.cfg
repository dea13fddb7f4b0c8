SPECIFICATION Spec
CONSTANTS
  p1 = p1
  p2 = p2
  NoOne = NoOne
  Proc = {p1, p2}
  Modes <- QueryNoHold
SYMMETRY Sym
INVARIANTS
  PrintsRightQuantity
CHECK_DEADLOCK FALSE
