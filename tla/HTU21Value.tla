----------------------------- MODULE HTU21Value -----------------------------
(***************************************************************************)
(* The rest of the way of an answer through main() of htu21-query.c (and   *)
(* of htu21-query.low-level.c, which has the same lines), once its         *)
(* checksum is right: the status bits are taken off, a reading of zero is  *)
(* refused, the raw number becomes hundredths of a degree or of a percent, *)
(* and these are printed as a decimal number.  A step is one statement.    *)
(***************************************************************************)
EXTENDS Integers

CONSTANTS
  Words,      \* the 16-bit contents of data[0] and data[1]
  ULong       \* 2^64: what %lu makes of a negative long is taken modulo it

Word16 == 0 .. 65535

ASSUME WordsAssumption == Words \subseteq Word16
ASSUME ULongAssumption == ULong \in Nat /\ ULong > 1000

VARIABLES
  word,       \* data[0] and data[1]
  asked,      \* "temp" or "hum"
  pc,         \* "mask", "zero", "convert", "print", "printed", "refused"
  raw,        \* main's raw
  value,      \* main's value, in hundredths
  text        \* the number before the point, and the number after it

vars == <<word, asked, pc, raw, value, text>>

NoText == [whole |-> 0, frac |-> 0]

Init ==
  /\ word \in Words
  /\ asked \in {"temp", "hum"}
  /\ pc = "mask"
  /\ raw = 0 /\ value = 0 /\ text = NoText

(* (data[0] << 8) | (data[1] & 0xfc)                                       *)
Mask ==
  /\ pc = "mask"
  /\ raw' = word - (word % 4)
  /\ pc' = "zero"
  /\ UNCHANGED <<word, asked, value, text>>

Zero ==
  /\ pc = "zero"
  /\ pc' = IF raw = 0 THEN "refused" ELSE "convert"
  /\ UNCHANGED <<word, asked, raw, value, text>>

(* (uint64_t)raw * 17572 >> 16, less 4685; * 12500 >> 16, less 600.        *)
Scaled(q, r) ==
  IF q = "temp" THEN ((r * 17572) \div 65536) - 4685
                ELSE ((r * 12500) \div 65536) - 600

Convert ==
  /\ pc = "convert"
  /\ value' = Scaled(asked, raw)
  /\ pc' = "print"
  /\ UNCHANGED <<word, asked, raw, text>>

(* C's / and % truncate towards zero.                                      *)
Quotient(v)  == IF v >= 0 THEN v \div 100 ELSE -((-v) \div 100)
Remainder(v) == v - 100 * Quotient(v)

(* Fault: one digit is cut off the fraction.                               *)
TextOneDigit(v) ==
  [whole |-> Quotient(v), frac |-> (Remainder(v) \div 10) % ULong]

(* printf("%ld.%02lu", value / 100, value % 100)                           *)
Text(v) == [whole |-> Quotient(v), frac |-> Remainder(v) % ULong]

Output ==
  /\ pc = "print"
  /\ text' = Text(value)
  /\ pc' = "printed"
  /\ UNCHANGED <<word, asked, raw, value>>

Next == Mask \/ Zero \/ Convert \/ Output

Spec == Init /\ [][Next]_vars

-----------------------------------------------------------------------------
(* What a reader takes the text for, in hundredths.                        *)
Reads(t) == IF t.whole < 0 THEN 100 * t.whole - t.frac ELSE 100 * t.whole + t.frac

(* The sensor's formulas, -46.85 + 175.72 * S / 2^16 and                   *)
(* -6 + 125 * S / 2^16, with S the word without its status bits: v         *)
(* hundredths are less than one hundredth below them.                      *)
Sensed(q, w, v) ==
  LET span   == IF q = "temp" THEN 17572 ELSE 12500
      offset == IF q = "temp" THEN 4685 ELSE 600
      excess == span * (w - (w % 4)) - 65536 * (v + offset)
  IN  0 <= excess /\ excess < 65536

(* A reading that is not below zero is printed with both its digits, and   *)
(* as printed is the sensor's formula of the bits that are not status      *)
(* bits, to the hundredth below.                                           *)
PrintsFormula ==
  pc = "printed" /\ value >= 0 =>
    /\ text.frac < 100
    /\ Sensed(asked, word, Reads(text))

(* The format "%ld.%02lu" promises a number with two decimals: what is     *)
(* printed can be read back as the value.                                  *)
TwoDecimals == pc = "printed" => text.frac < 100 /\ Reads(text) = value
=============================================================================
