\* Any two of the index/data tools, one after the other or, for different
\* chips, at the same time, ended anywhere; or any one of the others, with a
\* failed access and a register that somebody else sets.
SPECIFICATION RtSpec
CONSTANTS
  r1 = r1
  r2 = r2
  Run = {r1, r2}
  Tools <- AllTools
  Contents <- Start
  list_end = 40
  rdt_count = 24
  WordBase = 256
  Commands <- CommandLines
  Holds <- Bytes
  Present <- Answering
  Watched <- SetMeanwhile
  MaxFaults = 1
  MaxChanges = 1
  RegCount = 64
  ImageSize = 40
  SpdRows = 8
  PingRounds = 4
  GpioSize = 768
  UInt = 1048576
  ULong = 268435456
SYMMETRY Sym
CONSTRAINT Undisturbed
INVARIANTS
  PrintsRight
  Complete
  ExactOrRefused
PROPERTIES
  SetsOne
  NothingTruncated
  DestinationFirst
  ConfirmedStill
\* all tools may be over
CHECK_DEADLOCK FALSE
