---------------------------- MODULE HTU21Answer ----------------------------
(***************************************************************************)
(* The way of one answer from the sensor to the printed number: the word   *)
(* is sent with its checksum over a bus that may flip bits, valid_crc()    *)
(* judges the three bytes (HTU21Crc), and main() of htu21-query.c converts *)
(* and prints those that pass (HTU21Value).                                *)
(***************************************************************************)
EXTENDS HTU21Crc, HTU21Value

(* A byte, and the number of which data[0] and data[1] are the two bytes.  *)
Byte(a) ==
  LET Worth(b) == IF b \in a THEN 2 ^ b ELSE 0
  IN  Worth(0) + Worth(1) + Worth(2) + Worth(3)
        + Worth(4) + Worth(5) + Worth(6) + Worth(7)

Number(a) == 256 * Byte(Shift(a, -8)) + Byte(a)

(* main() and valid_crc() look at the same two bytes.                      *)
AnswerInit ==
  /\ CrcInit
  /\ word = Number(DataBytes)
  /\ Init

AnswerNext ==
  \/ CrcNext /\ UNCHANGED vars
  \/ verdict = "accept" /\ Next /\ UNCHANGED crcVars

AnswerSpec == AnswerInit /\ [][AnswerNext]_<<crcVars, vars>>

-----------------------------------------------------------------------------
(* A number is printed for every word that the sensor sends and that       *)
(* arrives undisturbed, but for zero, and for nothing else: an answer in   *)
(* which bits were flipped, few or close together, never gets that far.    *)
PrintsSent ==
  verdict = "reject" \/ pc \in {"printed", "refused"} =>
    (pc = "printed" <=> noise = {} /\ sent \cap (2 .. 15) # {})
=============================================================================
