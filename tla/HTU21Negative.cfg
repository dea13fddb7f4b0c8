\* Readings below zero.  ULong stands in for 2^64.
SPECIFICATION Spec
CONSTANTS
  Words <- SomeWords
  ULong = 1048576
INVARIANT TwoDecimals
CHECK_DEADLOCK FALSE
