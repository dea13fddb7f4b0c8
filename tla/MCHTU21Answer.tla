--------------------------- MODULE MCHTU21Answer ---------------------------
(* Instances of HTU21Answer for TLC.                                        *)
EXTENDS HTU21Answer

TwoWords == {{}, {0, 4, 8, 9, 14}}

(* Every word but for the status bit 0, which means nothing to the program. *)
EvenWords == SUBSET (1 .. 15) \cup TwoWords

AllWords == 0 .. 65535

(* Up to three flipped bits anywhere, or any burst of at most eight bits.   *)
SmallErrors ==
  {{a, b, c} : a, b, c \in 0 .. 23}
  \cup {e \in UNION {SUBSET (f .. f + 7) : f \in 0 .. 16} : e # {}}
=============================================================================
