---------------------------- MODULE FanCalibrate ----------------------------
(***************************************************************************)
(* fan_calibrate.c: for each fan in turn sets full speed, lowers the duty  *)
(* one unit at a time to 0 and raises it again, reading the tachometer and *)
(* two temperatures at each duty.  A step is one write, or the reads of    *)
(* one row of output; any ioctl may fail, which ends the program on the    *)
(* spot, a signal may end it anywhere, and it may be run again.            *)
(***************************************************************************)
EXTENDS Integers, Sequences

CONSTANTS
  Divno,      \* fans[].divno: one entry for each fan, <<1, 3>> as compiled
  Full,       \* the duty of full speed, 0xff
  Registers,  \* contents of the divisor registers 0x5d, 0x47 and 0x4b
  Runs        \* bound: the program is run at most that often

ASSUME DivnoAssumption == Divno \in Seq({1, 2, 3})
ASSUME FullAssumption  == Full \in Nat \ {0}
ASSUME RegistersAssumption ==
  Registers \subseteq [cr5d : 0 .. 255, cr47 : 0 .. 255, cr4b : 0 .. 255]
ASSUME RunsAssumption  == Runs \in Nat

VARIABLES
  duty,       \* [Fan -> Duty] the pwm registers of the chip
  regs,       \* its divisor registers
  pc,         \* the step that comes next
  i,          \* main's i: the fan being calibrated
  j,          \* main's j, an int: the duty in the sweep
  div,        \* [Fan -> 0 .. 7] fans[].div
  rows,       \* [Fan -> [Duty -> 0 .. 3]] rows printed, by the fan's actual duty
  before,     \* [Fan -> Duty] the duties when this run was started
  run         \* how often the program was started

chip    == <<duty, regs>>
program == <<pc, i, j, div, rows>>
vars    == <<chip, program, before, run>>

RowsBound == 3    \* rows of one duty that are counted: one too many

Fan  == 1 .. Len(Divno)
Duty == 0 .. Full

Sweeping == {"full", "down", "downread", "up", "upread"}
Running  == {"divisors"} \cup Sweeping
Loc      == {"off", "done", "gone"} \cup Running

TypeOK ==
  /\ duty \in [Fan -> Duty]
  /\ regs \in Registers
  /\ pc \in Loc
  /\ i \in 1 .. Len(Divno) + 1
  /\ j \in -1 .. Full + 1
  /\ div \in [Fan -> 0 .. 7]
  /\ rows \in [Fan -> [Duty -> 0 .. RowsBound]]
  /\ before \in [Fan -> Duty]
  /\ run \in 0 .. Runs

NoRows == [f \in Fan |-> [d \in Duty |-> 0]]

Init ==
  /\ duty \in [Fan -> {0, Full}]
  /\ regs \in Registers
  /\ pc = "off"
  /\ i = 1
  /\ j = Full
  /\ div = [f \in Fan |-> 0]
  /\ rows = NoRows
  /\ before = duty
  /\ run = 0

(* A shell starts the program; open may fail.                              *)
Start ==
  /\ pc \in {"off", "done", "gone"}
  /\ run < Runs
  /\ run' = run + 1
  /\ pc' \in {"divisors", "gone"}
  /\ i' = 1
  /\ j' = Full
  /\ div' = [f \in Fan |-> 0]
  /\ rows' = NoRows
  /\ before' = duty
  /\ UNCHANGED chip

(* exit(-1) in smbioctl_readB, _readW and _writeB.                         *)
Fail ==
  /\ pc' = "gone"
  /\ UNCHANGED <<i, j, div, rows>>

Bit(x, n) == (x \div 2^n) % 2

(* Fault: the upper bit is taken from fan 2's place for fan 3.             *)
DivisorShifted(n, r) ==
  LET lower == IF n = 3 THEN r.cr4b ELSE r.cr47
  IN  4 * Bit(r.cr5d \div <<8, 16, 16>>[n], 2) + ((lower \div <<16, 64, 64>>[n]) % 4)

(* ((cr5d >> 3) & 0x4) | ((cr47 >> 4) & 0x3), and so on.                   *)
Divisor(n, r) ==
  LET lower == IF n = 3 THEN r.cr4b ELSE r.cr47
  IN  4 * Bit(r.cr5d \div <<8, 16, 32>>[n], 2) + ((lower \div <<16, 64, 64>>[n]) % 4)

ReadDivisors ==
  /\ pc = "divisors"
  /\ \/ /\ div' = [f \in Fan |-> Divisor(Divno[f], regs)]
        /\ pc' = IF Fan = {} THEN "done" ELSE "full"
        /\ UNCHANGED <<i, j, rows>>
     \/ Fail
  /\ UNCHANGED <<chip, before, run>>

(* A write of d to the fan's pwm; one that fails may have been done.       *)
Written(d) == duty' = [duty EXCEPT ![i] = d]
MaybeWritten(d) == UNCHANGED duty \/ Written(d)

FullSpeed ==
  /\ pc = "full"
  /\ \/ /\ Written(Full)
        /\ pc' = "down"
        /\ j' = Full
        /\ UNCHANGED <<i, div, rows>>
     \/ MaybeWritten(Full) /\ Fail
  /\ UNCHANGED <<regs, before, run>>

SetDuty ==
  /\ pc \in {"down", "up"}
  /\ \/ /\ Written(j)
        /\ pc' = IF pc = "down" THEN "downread" ELSE "upread"
        /\ UNCHANGED <<i, j, div, rows>>
     \/ MaybeWritten(j) /\ Fail
  /\ UNCHANGED <<regs, before, run>>

(* The reads of a row and its printf; the count stops at RowsBound.        *)
Printed ==
  rows' = [rows EXCEPT ![i][duty[i]] = IF @ < RowsBound THEN @ + 1 ELSE @]

(* Fault: j is a uint8_t, which is never below 0.                          *)
SampleDownUnsigned ==
  /\ pc = "downread"
  /\ \/ /\ Printed
        /\ j' = (j - 1) % (Full + 1)
        /\ pc' = "down"
        /\ UNCHANGED <<i, div>>
     \/ Fail
  /\ UNCHANGED <<chip, before, run>>

(* Fault: the two sweeps share the row at 0.                               *)
SampleDownTurning ==
  /\ pc = "downread"
  /\ \/ /\ Printed
        /\ IF j > 0 THEN j' = j - 1 /\ pc' = "down"
                    ELSE j' = 1 /\ pc' = "up"
        /\ UNCHANGED <<i, div>>
     \/ Fail
  /\ UNCHANGED <<chip, before, run>>

(* Fault: the second sweep starts at full speed, too.                      *)
SampleDownRestart ==
  /\ pc = "downread"
  /\ \/ /\ Printed
        /\ IF j > 0 THEN j' = j - 1 /\ pc' = "down"
                    ELSE j' = Full /\ pc' = "up"
        /\ UNCHANGED <<i, div>>
     \/ Fail
  /\ UNCHANGED <<chip, before, run>>

(* for (j = 0xff; j >= 0; j--), then for (j = 0; ..).                      *)
SampleDown ==
  /\ pc = "downread"
  /\ \/ /\ Printed
        /\ IF j > 0 THEN j' = j - 1 /\ pc' = "down"
                    ELSE j' = 0 /\ pc' = "up"
        /\ UNCHANGED <<i, div>>
     \/ Fail
  /\ UNCHANGED <<chip, before, run>>

(* Fault: j < 0xff, the sweep stops short of full speed.                   *)
SampleUpShort ==
  /\ pc = "upread"
  /\ \/ /\ Printed
        /\ IF j + 1 < Full THEN j' = j + 1 /\ pc' = "up" /\ i' = i
           ELSE /\ j' = Full
                /\ i' = i + 1
                /\ pc' = IF i < Len(Divno) THEN "full" ELSE "done"
        /\ UNCHANGED div
     \/ Fail
  /\ UNCHANGED <<chip, before, run>>

(* j <= 0xff, then the next fan.                                           *)
SampleUp ==
  /\ pc = "upread"
  /\ \/ /\ Printed
        /\ IF j < Full THEN j' = j + 1 /\ pc' = "up" /\ i' = i
           ELSE /\ j' = Full
                /\ i' = i + 1
                /\ pc' = IF i < Len(Divno) THEN "full" ELSE "done"
        /\ UNCHANGED div
     \/ Fail
  /\ UNCHANGED <<chip, before, run>>

(* A signal, in a sleep or anywhere else.                                  *)
Kill ==
  /\ pc \in Running
  /\ Fail
  /\ UNCHANGED <<chip, before, run>>

Step ==
  ReadDivisors \/ FullSpeed \/ SetDuty \/ SampleDown \/ SampleUp

Next == Start \/ Step \/ Kill

Spec == Init /\ [][Next]_vars

(* The program runs when it is not asleep, and a sleep ends.               *)
FairSpec == Spec /\ WF_vars(Step)

-----------------------------------------------------------------------------
(* Wherever a run is, or was ended by an ioctl or a signal: fans that are  *)
(* finished are at full speed, fans that are still to come have the duty   *)
(* they had, so at most the one being calibrated was left slowed down.     *)
OneFanSlowed ==
  \A f \in Fan :
    /\ f < i => duty[f] = Full
    /\ f > i => duty[f] = before[f]

(* A run that ends well has sampled each fan at each duty exactly twice,   *)
(* once on the way down and once up, and leaves all of them at full speed, *)
(* whatever a run before it left behind.                                   *)
Complete ==
  pc = "done" =>
    \A f \in Fan : duty[f] = Full /\ \A d \in Duty : rows[f][d] = 2

(* A fan is slowed down and sped up by single units of duty; the only jump *)
(* is the one to full speed before its sweep.                              *)
Gradual ==
  [][\A f \in Fan :
       duty'[f] \in {duty[f] - 1, duty[f], duty[f] + 1}
       \/ (pc = "full" /\ duty'[f] = Full)]_vars

(* Both loops over j end, so the program does.                             *)
Ends == pc \in Running ~> pc \notin Running

(* The table in the comment: 1: 0x5d:5, 0x47:5_4; 2: 0x5d:6, 0x47:7_6;     *)
(* 3: 0x5d:7, 0x4b:7_6.  The shifts and masks take exactly these bits.     *)
Documented(n, r) ==
  LET upper == [b \in 1 .. 3 |-> Bit(r.cr5d, b + 4)]
      lower == << <<Bit(r.cr47, 5), Bit(r.cr47, 4)>>,
                  <<Bit(r.cr47, 7), Bit(r.cr47, 6)>>,
                  <<Bit(r.cr4b, 7), Bit(r.cr4b, 6)>> >>
  IN  4 * upper[n] + 2 * lower[n][1] + lower[n][2]

DivisorsDocumented ==
  pc \in Sweeping => \A f \in Fan : div[f] = Documented(Divno[f], regs)
=============================================================================
