---------------------------- MODULE MCHTU21Query ----------------------------
(* Instances of HTU21Query for TLC: the command lines the runs start from.  *)
EXTENDS HTU21Query, FiniteSets, TLC

AllModes ==
  {m \in [tool : Tools, hold : BOOLEAN, xfer : BOOLEAN] :
     m.tool = "query" \/ ~m.xfer}

QueryNoHold == {[tool |-> "query", hold |-> FALSE, xfer |-> FALSE]}

Sym == Permutations(Proc)
=============================================================================
