\* Two tuners on one register, in any order or at the same time, with targets
\* on either side of what fits in it.
SPECIFICATION FairSpec
CONSTANTS
  t1 = t1
  t2 = t2
  Tuner = {t1, t2}
  MaxByte = 3
  Targets <- Ints
INVARIANT
  TypeOK
  SettlesOnATarget
PROPERTY
  Gradual
  Arrives
  Terminates
\* every tuner ends
CHECK_DEADLOCK FALSE
