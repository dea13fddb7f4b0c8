\* Every word (bit 0 clear) undisturbed, as temperature and as humidity, and two
\* words under every error of up to three bits and every short burst.  ULong
\* stands in for 2^64.
SPECIFICATION AnswerSpec
CONSTANTS
  Measured <- EvenWords
  Probes <- TwoWords
  Errors <- SmallErrors
  Words <- AllWords
  ULong = 1048576
INVARIANTS
  Congruent
  PrintsSent
  PrintsFormula
\* one answer is judged
CHECK_DEADLOCK FALSE
