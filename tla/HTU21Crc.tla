------------------------------ MODULE HTU21Crc ------------------------------
(***************************************************************************)
(* calc_crc() and valid_crc() of htu21-query.c (the same code is in        *)
(* htu21-query.low-level.c): the checksum over the two data bytes of an    *)
(* answer, one turn of the loop at a time, between a sensor that sends a   *)
(* word with its checksum and a bus that may flip bits of the three bytes. *)
(*                                                                         *)
(* A word is the set of its one bits, so that ^ is the symmetric           *)
(* difference.  A frame is the 24 bits of data[0], data[1], data[2].       *)
(***************************************************************************)
EXTENDS Integers, FiniteSets

CONSTANTS
  Measured,   \* the 16-bit words the sensor may send
  Probes,     \* those that the bus may disturb
  Errors      \* the sets of frame bits it may flip

ASSUME MeasuredAssumption == Measured \subseteq SUBSET (0 .. 15) /\ Probes \subseteq Measured

(* An error of the kind a bus makes: of one or two bits, of an odd number *)
(* of bits, or a burst of at most eight.                                   *)
Typical(e) ==
  /\ e \subseteq 0 .. 23
  /\ \/ Cardinality(e) <= 2 \/ Cardinality(e) % 2 = 1
     \/ \E f \in 0 .. 16 : e \subseteq f .. f + 7

ASSUME ErrorsAssumption == \A e \in Errors : Typical(e)

VARIABLES
  sent,       \* the word the sensor measured
  noise,      \* the bits flipped on the way
  data,       \* calc_crc's 16-bit register
  i,          \* turns of its loop so far
  verdict     \* valid_crc's result: "none", "accept" or "reject"

crcVars == <<sent, noise, data, i, verdict>>

Xor(a, b)  == (a \ b) \cup (b \ a)
Shift(a, n) == {b + n : b \in a}

-----------------------------------------------------------------------------
(* The sensor: residues modulo its generator x^8 + x^5 + x^4 + 1, as the   *)
(* sum of the residues of the powers of x.                                 *)

XPow[k \in 0 .. 31] ==
  IF k < 8 THEN {k}
  ELSE LET up == Shift(XPow[k - 1], 1)
       IN  IF 8 \in up THEN Xor(up \ {8}, {0, 4, 5}) ELSE up

Powers == [k \in 0 .. 31 |-> XPow[k]]

Residue(a) ==
  {k \in 0 .. 7 : Cardinality({b \in a : k \in Powers[b]}) % 2 = 1}

Sent     == Shift(sent, 8) \cup Residue(Shift(sent, 8))
Received == Xor(Sent, noise)

DataBytes == Shift(Received \cap (8 .. 23), -8)
CrcByte   == Received \cap (0 .. 7)

-----------------------------------------------------------------------------
polynomial == {8, 12, 13}                                      \* 0x3100

(* Fault: the loop makes one turn less.                                    *)
RoundsShort == 15

Rounds == 16

CrcInit ==
  /\ sent \in Measured
  /\ noise \in IF sent \in Probes THEN {{}} \cup Errors ELSE {{}}
  /\ data = DataBytes
  /\ i = 0
  /\ verdict = "none"

(* Fault: the feedback looks at the bit after the shift.                   *)
RoundLate ==
  /\ i < Rounds
  /\ LET shifted == Shift(data, 1) \cap (0 .. 15)
     IN  data' = IF 15 \in shifted THEN Xor(shifted, polynomial) ELSE shifted
  /\ i' = i + 1
  /\ UNCHANGED <<sent, noise, verdict>>

(* msb_neq is taken before the register, a uint16_t, is shifted.           *)
Round ==
  /\ i < Rounds
  /\ LET shifted == Shift(data, 1) \cap (0 .. 15)
     IN  data' = IF 15 \in data THEN Xor(shifted, polynomial) ELSE shifted
  /\ i' = i + 1
  /\ UNCHANGED <<sent, noise, verdict>>

(* return (data >> 8), compared with data[2].                              *)
Compare ==
  /\ i = Rounds
  /\ verdict = "none"
  /\ verdict' = IF Shift(data \cap (8 .. 15), -8) = CrcByte
                THEN "accept" ELSE "reject"
  /\ UNCHANGED <<sent, noise, data, i>>

CrcNext == Round \/ Compare

-----------------------------------------------------------------------------
(* After i turns the register, moved up by the turns that are left, is     *)
(* congruent to the received word moved up by all sixteen: no turn of      *)
(* calc_crc changes the residue it computes.                               *)
Congruent == Residue(Shift(data, 16 - i)) = Residue(Shift(DataBytes, 16))
=============================================================================
