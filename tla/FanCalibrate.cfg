\* Three fans, two runs, the first ended anywhere.
SPECIFICATION FairSpec
CONSTANTS
  Divno <- AllFans
  Full = 4
  Registers <- TellingBits
  Runs = 2
INVARIANTS
  OneFanSlowed
  Complete
  DivisorsDocumented
PROPERTIES
  Gradual
  Ends
\* both runs may be over
CHECK_DEADLOCK FALSE
