------------------------------ MODULE SmbTune ------------------------------
(***************************************************************************)
(* smb_tune_reg.c: moves a register of the SMBus slave 0x2d from the value *)
(* it has to the value asked for, one unit at a time with a pause after    *)
(* each write.  A step is one ioctl on /dev/smb0 with the computation that *)
(* leads to it; other invocations on the same register, and signals, may   *)
(* come in between.                                                        *)
(***************************************************************************)
EXTENDS Integers

CONSTANTS
  Tuner,      \* invocations of the tool, all on one register
  MaxByte,    \* the largest value of a register, 255
  Targets     \* the values asked for on the command line

ASSUME MaxByteAssumption == MaxByte \in Nat \ {0}
ASSUME TargetsAssumption == Targets \subseteq Int

VARIABLES
  reg,        \* the register of the slave
  pc,         \* [Tuner -> Loc]
  val,        \* [Tuner -> Targets] main's val up to the last read
  oldval,     \* [Tuner -> Int] main's oldval
  inc,        \* [Tuner -> {-1, 1}] main's inc
  misread,    \* [Tuner -> BOOLEAN] history: its first read has failed
  overlapped  \* [Tuner -> BOOLEAN] history: another one ran while it did

vars  == <<reg, pc, val, oldval, inc, misread, overlapped>>
local == <<val, inc, misread, overlapped>>

Byte == 0 .. MaxByte
Loc  == {"idle", "ramp", "done", "gone"}

TypeOK ==
  /\ reg \in Byte
  /\ pc \in [Tuner -> Loc]
  /\ val \in [Tuner -> Targets]
  /\ oldval \in [Tuner -> Int]
  /\ inc \in [Tuner -> {-1, 1}]
  /\ misread \in [Tuner -> BOOLEAN]
  /\ overlapped \in [Tuner -> BOOLEAN]

Init ==
  /\ reg \in Byte
  /\ pc = [t \in Tuner |-> "idle"]
  /\ val \in [Tuner -> Targets]
  /\ oldval = [t \in Tuner |-> 0]
  /\ inc = [t \in Tuner |-> 1]
  /\ misread = [t \in Tuner |-> FALSE]
  /\ overlapped = [t \in Tuner |-> FALSE]

(* smbioctl_readB: the register, or -1, which main takes for a value.      *)
Reading == {reg, -1}

(* Fault: the direction is the sign of the difference.                     *)
DirectionSign(v, old) == IF v > old THEN 1 ELSE IF v < old THEN -1 ELSE 0

Direction(v, old) == IF v > old THEN 1 ELSE -1

(* History: t runs from now on, and so do those that are ramping.          *)
Overlap(t) ==
  LET ramping == {u \in Tuner : pc[u] = "ramp"}
  IN  overlapped' = [u \in Tuner |-> \/ overlapped[u]
                                     \/ u \in ramping
                                     \/ u = t /\ ramping # {}]

(* open, the first read, the direction and the first value to write.       *)
Begin(t) ==
  /\ pc[t] = "idle"
  /\ \/ /\ \E old \in Reading :
             LET d == Direction(val[t], old)
             IN  /\ inc' = [inc EXCEPT ![t] = d]
                 /\ oldval' = [oldval EXCEPT ![t] = old + d]
                 /\ misread' = [misread EXCEPT ![t] = (old = -1)]
        /\ pc' = [pc EXCEPT ![t] = "ramp"]
        /\ Overlap(t)
     \/ /\ pc' = [pc EXCEPT ![t] = "gone"]                \* open failed
        /\ UNCHANGED <<inc, oldval, misread, overlapped>>
  /\ UNCHANGED <<reg, val>>

(* Fault: the loop ends when it reaches val, before writing it.            *)
ArrivedEarly(t) == oldval[t] = val[t]

Arrived(t) == oldval[t] = val[t] + inc[t]

(* Fault: the loop doubles its stride.                                     *)
WriteTwice(t) ==
  /\ pc[t] = "ramp" /\ ~Arrived(t)
  /\ reg' = oldval[t] % (MaxByte + 1)
  /\ oldval' = [oldval EXCEPT ![t] = @ + 2 * inc[t]]
  /\ UNCHANGED <<local, pc>>

(* Fault: a failed write is tried again.                                   *)
WriteRetries(t) ==
  /\ pc[t] = "ramp" /\ ~Arrived(t)
  /\ \/ /\ reg' = oldval[t] % (MaxByte + 1)
        /\ oldval' = [oldval EXCEPT ![t] = @ + inc[t]]
     \/ /\ reg' \in {reg, oldval[t] % (MaxByte + 1)}
        /\ UNCHANGED oldval
  /\ UNCHANGED <<local, pc>>

(* The byte written is the low byte of oldval; a failed write, which ends  *)
(* the tool, may have reached the register.                                *)
Write(t) ==
  /\ pc[t] = "ramp" /\ ~Arrived(t)
  /\ \/ /\ reg' = oldval[t] % (MaxByte + 1)
        /\ oldval' = [oldval EXCEPT ![t] = @ + inc[t]]
        /\ UNCHANGED pc
     \/ /\ reg' \in {reg, oldval[t] % (MaxByte + 1)}
        /\ pc' = [pc EXCEPT ![t] = "gone"]
        /\ UNCHANGED oldval
  /\ UNCHANGED local

(* The last read is only printed.                                          *)
Finish(t) ==
  /\ pc[t] = "ramp" /\ Arrived(t)
  /\ pc' = [pc EXCEPT ![t] = "done"]
  /\ UNCHANGED <<reg, local, oldval>>

(* A signal between two steps: the register stays where it is.             *)
Kill(t) ==
  /\ pc[t] = "ramp"
  /\ pc' = [pc EXCEPT ![t] = "gone"]
  /\ UNCHANGED <<reg, local, oldval>>

Next == \E t \in Tuner : Begin(t) \/ Write(t) \/ Finish(t) \/ Kill(t)

Spec == Init /\ [][Next]_vars

(* A tuner that is running is scheduled.                                   *)
FairSpec == Spec /\ \A t \in Tuner : WF_vars(Write(t) \/ Finish(t))

-----------------------------------------------------------------------------
Towards(v) ==
  \/ reg < v /\ reg' = reg + 1
  \/ reg > v /\ reg' = reg - 1

(* A tuner whose target fits in the register, which nobody disturbs and    *)
(* whose first read succeeds, only ever moves the register by one unit and *)
(* towards its target: there is no jump to hear, wherever the tuners       *)
(* before it were killed or failed.                                        *)
Gradual ==
  [][reg' # reg => \E t \in Tuner :
       /\ pc[t] = "ramp"
       /\ overlapped[t] \/ misread[t] \/ val[t] \notin Byte \/ Towards(val[t])]_vars

(* The same of all tuners that are alone and whose targets fit: the line   *)
(* main prints, "tuning reg from oldval to val", taken at its word.        *)
NoJump ==
  [][reg' # reg => \E t \in Tuner :
       /\ pc[t] = "ramp"
       /\ overlapped[t] \/ val[t] \notin Byte \/ Towards(val[t])]_vars

(* The one target a tuner may take for reached without a write: -1, after  *)
(* a failed read.                                                          *)
TakenForReached(t) == misread[t] /\ val[t] = -1

LowByteOf(v) == v % (MaxByte + 1)

(* A tuner that nobody disturbs and that comes to its end leaves the       *)
(* register at the low byte of the value asked for, even when its first    *)
(* read failed.                                                            *)
Arrives ==
  [][\A t \in Tuner :
       pc[t] = "ramp" /\ pc'[t] = "done" /\ ~overlapped[t] /\ ~TakenForReached(t)
         => reg' = LowByteOf(val[t])]_vars

(* Tuners that run at the same time fight over the register, but when all  *)
(* have come to their end it is at a value one of them was asked for.      *)
SettlesOnATarget ==
  (\A t \in Tuner : pc[t] = "done" /\ ~TakenForReached(t)) =>
    Tuner = {} \/ \E t \in Tuner : reg = LowByteOf(val[t])

(* The loop ends for every target: main compares oldval with val + inc,    *)
(* for equality, from a start on the right side of it.                     *)
Terminates == \A t \in Tuner : pc[t] = "ramp" ~> pc[t] # "ramp"
=============================================================================
