\* One tuner whose first read may fail.
SPECIFICATION Spec
CONSTANTS
  t1 = t1
  Tuner = {t1}
  MaxByte = 3
  Targets <- Ints
PROPERTY NoJump
CHECK_DEADLOCK FALSE
