\* Every machine, two addresses that differ in one to three telling bits.
SPECIFICATION NbSpec
CONSTANTS
  Machines <- AllMachines
  Asked <- Questions
  Reboots <- Exchanges
INVARIANTS
  Unique
  Mapped
  SwapExchanges
  UnopenedNothing
  TellTale
  ScrubSpeed
  AgreesWithReport
\* two answers are given
CHECK_DEADLOCK FALSE
