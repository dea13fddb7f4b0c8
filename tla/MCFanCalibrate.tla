--------------------------- MODULE MCFanCalibrate ---------------------------
(* Instances of FanCalibrate for TLC.                                       *)
EXTENDS FanCalibrate

(* The fans as compiled, and with the one under #ifdef notyet.              *)
CompiledFans == <<1, 3>>
AllFans      == <<1, 3, 2>>

(* All bits set, or one bit in one of the registers, or none: a divisor     *)
(* that is read from a wrong bit, or from one bit more, differs for one.    *)
TellingBits ==
  LET bits == {2^k : k \in 0 .. 7}
  IN  [cr5d : bits, cr47 : {0}, cr4b : {0}]
      \cup [cr5d : {0}, cr47 : bits, cr4b : {0}]
      \cup [cr5d : {0}, cr47 : {0}, cr4b : bits \cup {0}]
      \cup {[cr5d |-> 255, cr47 |-> 255, cr4b |-> 255]}
=============================================================================
