\* Pin numbers that are negative as an int.
SPECIFICATION Spec
CONSTANTS
  r1 = r1
  Run = {r1}
  Tools <- PinWriters
  Contents <- Start
  list_end = 40
  rdt_count = 24
  WordBase = 256
INVARIANT OnlyTheTable
CHECK_DEADLOCK FALSE
