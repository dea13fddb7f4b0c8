--------------------------- MODULE SmbTuneProofs ---------------------------
(***************************************************************************)
(* Proofs about SmbTune for any number of tuners, any targets and any      *)
(* width of the register.                                                  *)
(***************************************************************************)
EXTENDS SmbTune, TLAPS

USE MaxByteAssumption DEF local

(* A value that fits in a byte is written as it is.                        *)
LEMMA ByteKept ==
  ASSUME NEW x \in Byte
  PROVE  x % (MaxByte + 1) = x
BY DEF Byte

(* The low byte of any int is a byte.                                      *)
LEMMA LowByte ==
  ASSUME NEW x \in Int
  PROVE  x % (MaxByte + 1) \in Byte
BY DEF Byte

(* The first step of a tuner starts its loop from an int, in one of the    *)
(* two directions.                                                         *)
LEMMA BeginTyped ==
  ASSUME TypeOK, NEW t \in Tuner, Begin(t)
  PROVE  TypeOK'
<1>1. Reading \subseteq Int /\ Targets \subseteq Int
  BY TargetsAssumption DEF Reading, Byte, TypeOK
<1>2. misread' \in [Tuner -> BOOLEAN] /\ overlapped' \in [Tuner -> BOOLEAN]
  BY DEF Begin, Overlap, TypeOK
<1>3. reg' \in Byte /\ pc' \in [Tuner -> Loc] /\ val' \in [Tuner -> Targets]
  BY DEF Begin, Loc, TypeOK
<1>4. oldval' \in [Tuner -> Int] /\ inc' \in [Tuner -> {-1, 1}]
  BY <1>1 DEF Begin, Direction, TypeOK
<1>5. QED
  BY <1>2, <1>3, <1>4 DEF TypeOK

(* The register is a byte whatever the tuners write, and their variables   *)
(* keep their types.                                                       *)
THEOREM TypeCorrect == Spec => []TypeOK
<1>1. ASSUME Init PROVE TypeOK
  BY <1>1 DEF Init, TypeOK, Loc
<1>2. ASSUME TypeOK, UNCHANGED vars PROVE TypeOK'
  BY <1>2 DEF TypeOK, vars
<1>3. ASSUME TypeOK, NEW t \in Tuner, Write(t) PROVE TypeOK'
  <2>1. reg' \in Byte
    BY <1>3, LowByte DEF Write, TypeOK
  <2>2. oldval' \in [Tuner -> Int] /\ pc' \in [Tuner -> Loc]
    BY <1>3 DEF Write, TypeOK, Loc
  <2>3. QED
    BY <1>3, <2>1, <2>2 DEF Write, TypeOK
<1>4. ASSUME TypeOK, NEW t \in Tuner, Finish(t) \/ Kill(t) PROVE TypeOK'
  BY <1>4 DEF Finish, Kill, TypeOK, Loc
<1>5. TypeOK /\ [Next]_vars => TypeOK'
  BY <1>2, BeginTyped, <1>3, <1>4 DEF Next
<1>6. QED
  BY <1>1, <1>5, PTL DEF Spec

-----------------------------------------------------------------------------
(* What the types say of one tuner.                                        *)
LEMMA OneTyped ==
  ASSUME TypeOK, NEW t \in Tuner
  PROVE  /\ oldval[t] \in Int /\ val[t] \in Int
         /\ inc[t] \in {-1, 1} /\ reg \in Byte /\ reg \in Int
<1>1. oldval[t] \in Int /\ val[t] \in Targets /\ inc[t] \in {-1, 1}
  BY DEF TypeOK
<1>2. reg \in Byte
  BY DEF TypeOK
<1>3. reg \in Int
  BY <1>2 DEF Byte
<1>4. val[t] \in Int
  BY <1>1, TargetsAssumption
<1>5. QED
  BY <1>1, <1>2, <1>3, <1>4

(* A ramping tuner that nobody has disturbed is the only one.              *)
Alone ==
  \A t, u \in Tuner :
    pc[t] = "ramp" /\ pc[u] = "ramp" /\ ~overlapped[t] => t = u

(* What the register holds is the low byte of what t last read or wrote,   *)
(* unless its read failed and it has not written since.                    *)
Holds(t) ==
  \/ reg = (oldval[t] - inc[t]) % (MaxByte + 1)
  \/ misread[t] /\ oldval[t] - inc[t] = -1

(* t has not passed its target, and is on the way to it from a byte, or    *)
(* from the -1 of a failed read.                                           *)
Between(t) ==
  /\ inc[t] = 1 => oldval[t] <= val[t] + 1
  /\ inc[t] = -1 => oldval[t] >= val[t] - 1
  /\ inc[t] = 1 => oldval[t] >= (IF misread[t] THEN 0 ELSE 1)
  /\ inc[t] = -1 => oldval[t] < MaxByte

RampInv ==
  /\ Alone
  /\ \A t \in Tuner : pc[t] = "ramp" => Between(t) /\ (overlapped[t] \/ Holds(t))

(* No tuner is ramping at first.                                           *)
LEMMA RampInvInit == Init => RampInv
BY DEF Init, RampInv, Alone

(* Only a tuner that is ramping is concerned by a step, and one that       *)
(* begins disturbs those that are ramping.                                 *)
LEMMA AloneNext == TypeOK /\ Alone /\ [Next]_vars => Alone'
<1> SUFFICES ASSUME TypeOK, Alone, [Next]_vars
             PROVE  Alone'
  OBVIOUS
<1> USE DEF TypeOK, Alone
<1>1. ASSUME NEW t \in Tuner, Begin(t) PROVE Alone'
  BY <1>1 DEF Begin, Overlap
<1>2. ASSUME NEW t \in Tuner, Write(t) PROVE Alone'
  BY <1>2 DEF Write
<1>3. ASSUME NEW t \in Tuner, Finish(t) \/ Kill(t) PROVE Alone'
  BY <1>3 DEF Finish, Kill
<1>4. CASE UNCHANGED vars
  BY <1>4 DEF vars
<1>5. QED
  BY <1>1, <1>2, <1>3, <1>4 DEF Next

(* The ramp invariant is kept by every step.                               *)
LEMMA RampInvNext == TypeOK /\ RampInv /\ [Next]_vars => RampInv'
<1> SUFFICES ASSUME TypeOK, RampInv, [Next]_vars
             PROVE  RampInv'
  OBVIOUS
<1> DEFINE Ok(u) == pc[u] = "ramp" => Between(u) /\ (overlapped[u] \/ Holds(u))
<1>0. Alone /\ Alone' /\ \A u \in Tuner : Ok(u)
  BY AloneNext DEF RampInv
<1> SUFFICES ASSUME NEW u \in Tuner, pc'[u] = "ramp"
             PROVE  Between(u)' /\ (overlapped'[u] \/ Holds(u)')
  BY <1>0 DEF RampInv
<1>1. ASSUME NEW t \in Tuner, Begin(t), u = t PROVE Between(u)' /\ Holds(u)'
  <2>1. PICK old \in Reading :
          /\ inc' = [inc EXCEPT ![t] = Direction(val[t], old)]
          /\ oldval' = [oldval EXCEPT ![t] = old + Direction(val[t], old)]
          /\ misread' = [misread EXCEPT ![t] = (old = -1)]
    BY <1>1 DEF Begin, TypeOK
  <2>2. reg' = reg /\ val'[t] = val[t] /\ val[t] \in Int /\ reg \in Byte
    BY <1>1, OneTyped DEF Begin
  <2>3. /\ inc'[t] = Direction(val[t], old)
        /\ oldval'[t] = old + Direction(val[t], old)
        /\ misread'[t] = (old = -1)
    BY <2>1 DEF TypeOK
  <2>4. old \in Int /\ (old = -1 \/ old = reg)
    BY <2>2 DEF Reading, Byte
  <2>5. oldval'[t] - inc'[t] = old
    BY <2>3, <2>4 DEF Direction
  <2>6. Holds(t)'
    BY <2>2, <2>3, <2>4, <2>5, ByteKept DEF Holds
  <2>7. Between(t)'
    <3>1. inc'[t] = 1 => oldval'[t] <= val'[t] + 1 /\ oldval'[t] >= old + 1
      BY <2>2, <2>3, <2>4 DEF Direction
    <3>2. inc'[t] = -1 => oldval'[t] >= val'[t] - 1 /\ oldval'[t] < MaxByte
      BY <2>2, <2>3, <2>4 DEF Direction, Byte
    <3>3. CASE old = -1
      <4>1. misread'[t]
        BY <2>3, <3>3
      <4>2. inc'[t] = 1 => oldval'[t] >= 0
        BY <3>1, <3>3
      <4>3. QED
        BY <3>1, <3>2, <4>1, <4>2 DEF Between
    <3>4. CASE old # -1
      <4>1. ~misread'[t]
        BY <2>3, <3>4
      <4>2. inc'[t] = 1 => oldval'[t] >= 1
        BY <2>2, <2>3, <2>4, <3>1, <3>4 DEF Direction, Byte
      <4>3. QED
        BY <3>1, <3>2, <4>1, <4>2 DEF Between
    <3>5. QED
      BY <3>3, <3>4
  <2>8. QED
    BY <1>1, <2>6, <2>7
<1>2. ASSUME NEW t \in Tuner, Begin(t), u # t
      PROVE  Between(u)' /\ (overlapped'[u] \/ Holds(u)')
  <2>1. pc[u] = "ramp" /\ reg' = reg /\ oldval'[u] = oldval[u] /\ inc'[u] = inc[u]
        /\ val'[u] = val[u] /\ misread'[u] = misread[u]
    BY <1>2 DEF Begin, TypeOK
  <2>2. overlapped'[u] \/ overlapped'[u] = overlapped[u]
    BY <1>2, <2>1 DEF Begin, Overlap
  <2>3. QED
    BY <1>0, <2>1, <2>2 DEF Between, Holds
<1>3. ASSUME NEW t \in Tuner, Write(t), u = t
      PROVE  Between(u)' /\ Holds(u)'
  <2>1. /\ pc[t] = "ramp" /\ ~Arrived(t)
        /\ reg' = oldval[t] % (MaxByte + 1) /\ oldval'[t] = oldval[t] + inc[t]
        /\ inc'[t] = inc[t] /\ val'[t] = val[t] /\ misread'[t] = misread[t]
    BY <1>3 DEF Write, TypeOK
  <2>2. oldval[t] \in Int /\ inc[t] \in {-1, 1} /\ val[t] \in Int
    BY OneTyped
  <2>3. oldval'[t] - inc'[t] = oldval[t]
    BY <2>1, <2>2
  <2>4. Holds(t)'
    BY <2>1, <2>3 DEF Holds
  <2>5. Between(t)
    BY <1>0, <2>1
  <2>6. Between(t)'
    BY <2>1, <2>2, <2>5 DEF Between, Arrived
  <2>7. QED
    BY <1>3, <2>4, <2>6
<1>4. ASSUME NEW t \in Tuner, Write(t), u # t
      PROVE  Between(u)' /\ overlapped'[u]
  <2>1. /\ pc[u] = "ramp" /\ pc[t] = "ramp" /\ oldval'[u] = oldval[u]
        /\ inc'[u] = inc[u] /\ val'[u] = val[u] /\ misread'[u] = misread[u]
        /\ overlapped'[u] = overlapped[u]
    BY <1>4 DEF Write, TypeOK
  <2>2. overlapped[u]
    BY <1>0, <1>4, <2>1 DEF Alone
  <2>3. QED
    BY <1>0, <2>1, <2>2 DEF Between
<1>5. ASSUME NEW t \in Tuner, Finish(t) \/ Kill(t)
      PROVE  Between(u)' /\ (overlapped'[u] \/ Holds(u)')
  <2>1. pc[u] = "ramp" /\ UNCHANGED <<reg, local, oldval>>
    BY <1>5 DEF Finish, Kill, TypeOK
  <2>2. QED
    BY <1>0, <2>1 DEF Between, Holds
<1>6. CASE UNCHANGED vars
  BY <1>0, <1>6 DEF vars, Between, Holds
<1>7. QED
  BY <1>1, <1>2, <1>3, <1>4, <1>5, <1>6 DEF Next

(* The register of a tuner that is alone and whose target fits moves by    *)
(* single units, towards the target.                                       *)
THEOREM GradualAlways == Spec => Gradual
<1> DEFINE Excused(t) == overlapped[t] \/ misread[t] \/ val[t] \notin Byte
<1>1. ASSUME TypeOK, RampInv, [Next]_vars, reg' # reg
      PROVE  \E t \in Tuner : pc[t] = "ramp" /\ (Excused(t) \/ Towards(val[t]))
  <2>1. PICK t \in Tuner : Write(t)
    BY <1>1 DEF Next, Begin, Finish, Kill, vars
  <2>2. pc[t] = "ramp" /\ ~Arrived(t) /\ reg' = oldval[t] % (MaxByte + 1)
    BY <1>1, <2>1 DEF Write
  <2>3. /\ oldval[t] \in Int /\ val[t] \in Int /\ inc[t] \in {-1, 1}
        /\ reg \in Int
    BY <1>1, OneTyped
  <2>4. ASSUME ~Excused(t) PROVE Towards(val[t])
    <3>1. Between(t) /\ reg = (oldval[t] - inc[t]) % (MaxByte + 1)
      BY <1>1, <2>2, <2>4 DEF RampInv, Holds
    <3>2. oldval[t] \in Byte /\ oldval[t] - inc[t] \in Byte
      BY <2>2, <2>3, <2>4, <3>1 DEF Between, Arrived, Byte
    <3>3. reg = oldval[t] - inc[t] /\ reg' = oldval[t]
      BY <2>2, <3>1, <3>2, ByteKept
    <3>4. /\ inc[t] = 1 => oldval[t] <= val[t] + 1
          /\ inc[t] = -1 => oldval[t] >= val[t] - 1
      BY <3>1 DEF Between
    <3>5. oldval[t] # val[t] + inc[t]
      BY <2>2 DEF Arrived
    <3>6. CASE inc[t] = 1
      BY <2>3, <3>3, <3>4, <3>5, <3>6 DEF Towards
    <3>7. CASE inc[t] = -1
      BY <2>3, <3>3, <3>4, <3>5, <3>7 DEF Towards
    <3>8. QED
      BY <2>3, <3>6, <3>7
  <2>5. QED
    BY <2>2, <2>4
<1>2. TypeOK /\ RampInv /\ [Next]_vars =>
        [reg' # reg => \E t \in Tuner :
           /\ pc[t] = "ramp"
           /\ overlapped[t] \/ misread[t] \/ val[t] \notin Byte \/ Towards(val[t])]_vars
  BY <1>1
<1>3. QED
  BY <1>2, TypeCorrect, RampInvInit, RampInvNext, PTL DEF Spec, Gradual

(* A tuner that is alone ends with the register at its target's low byte.  *)
THEOREM ArrivesAlways == Spec => Arrives
<1>1. ASSUME TypeOK, RampInv, [Next]_vars, NEW t \in Tuner,
             pc[t] = "ramp", pc'[t] = "done", ~overlapped[t], ~TakenForReached(t)
      PROVE  reg' = LowByteOf(val[t])
  <2>1. Finish(t)
    BY <1>1 DEF Next, Begin, Write, Finish, Kill, vars, TypeOK
  <2>2. reg' = reg /\ oldval[t] = val[t] + inc[t]
    BY <2>1 DEF Finish, Arrived
  <2>3. oldval[t] \in Int /\ val[t] \in Int /\ inc[t] \in {-1, 1}
    BY <1>1, OneTyped
  <2>4. oldval[t] - inc[t] = val[t]
    BY <2>2, <2>3
  <2>5. Holds(t)
    BY <1>1 DEF RampInv
  <2>6. QED
    BY <1>1, <2>2, <2>4, <2>5 DEF Holds, TakenForReached, LowByteOf
<1>2. TypeOK /\ RampInv /\ [Next]_vars =>
        \A t \in Tuner :
          pc[t] = "ramp" /\ pc'[t] = "done" /\ ~overlapped[t] /\ ~TakenForReached(t)
            => reg' = LowByteOf(val[t])
  BY <1>1
<1>3. QED
  BY <1>2, TypeCorrect, RampInvInit, RampInvNext, PTL DEF Spec, Arrives

-----------------------------------------------------------------------------
(* Tuners that run at the same time: from the first one's beginning there  *)
(* is one whose last access the register still shows, or one has gone.     *)
Shown ==
  \/ \A t \in Tuner : pc[t] = "idle"
  \/ \E t \in Tuner : pc[t] = "gone"
  \/ \E t \in Tuner : pc[t] \in {"ramp", "done"} /\ Holds(t)

(* A tuner that has come to its end has last written its target, or has    *)
(* found it there.                                                         *)
DoneArrived == \A t \in Tuner : pc[t] = "done" => Arrived(t)

ShownInv == Shown /\ DoneArrived

(* Every access of a tuner makes it the one that the register shows.       *)
LEMMA ShownInvNext == TypeOK /\ ShownInv /\ [Next]_vars => ShownInv'
<1> SUFFICES ASSUME TypeOK, ShownInv, [Next]_vars
             PROVE  ShownInv'
  OBVIOUS
<1>1. DoneArrived'
  BY DEF ShownInv, DoneArrived, Arrived, TypeOK, Next, Begin, Write, Finish, Kill, vars
<1>2. ASSUME NEW t \in Tuner, Begin(t) PROVE Shown'
  <2>1. CASE pc'[t] = "ramp"
    <3>1. PICK old \in Reading :
            /\ inc' = [inc EXCEPT ![t] = Direction(val[t], old)]
            /\ oldval' = [oldval EXCEPT ![t] = old + Direction(val[t], old)]
            /\ misread' = [misread EXCEPT ![t] = (old = -1)]
      BY <1>2, <2>1 DEF Begin, TypeOK
    <3>2. reg' = reg /\ reg \in Byte /\ reg \in Int
      BY <1>2, OneTyped DEF Begin
    <3>3. oldval'[t] = old + inc'[t] /\ inc'[t] \in {-1, 1} /\ misread'[t] = (old = -1)
      BY <3>1 DEF TypeOK, Direction
    <3>4. old \in Int /\ (old = -1 \/ old = reg)
      BY <3>2 DEF Reading
    <3>5. oldval'[t] - inc'[t] = old
      BY <3>3, <3>4
    <3>6. Holds(t)'
      BY <3>2, <3>3, <3>4, <3>5, ByteKept DEF Holds
    <3>7. QED
      BY <2>1, <3>6 DEF Shown
  <2>2. CASE pc'[t] = "gone"
    BY <2>2 DEF Shown
  <2>3. QED
    BY <1>2, <2>1, <2>2 DEF Begin, TypeOK
<1>3. ASSUME NEW t \in Tuner, Write(t) PROVE Shown'
  <2>1. CASE pc' = pc
    <3>1. /\ reg' = oldval[t] % (MaxByte + 1) /\ oldval'[t] = oldval[t] + inc[t]
          /\ inc'[t] = inc[t] /\ pc'[t] = "ramp"
      BY <1>3, <2>1 DEF Write, TypeOK
    <3>2. oldval[t] \in Int /\ inc[t] \in {-1, 1}
      BY OneTyped
    <3>3. oldval'[t] - inc'[t] = oldval[t]
      BY <3>1, <3>2
    <3>4. QED
      BY <3>1, <3>3 DEF Holds, Shown
  <2>2. CASE pc' # pc
    BY <1>3, <2>2 DEF Write, Shown, TypeOK
  <2>3. QED
    BY <2>1, <2>2
<1>4. ASSUME NEW t \in Tuner, Finish(t) PROVE Shown'
  <2>1. \E u \in Tuner : pc[u] = "gone" \/ (pc[u] \in {"ramp", "done"} /\ Holds(u))
    BY <1>4 DEF Finish, ShownInv, Shown
  <2>2. \A u \in Tuner : Holds(u)' = Holds(u)
    BY <1>4 DEF Finish, Holds
  <2>3. \A u \in Tuner : pc'[u] = pc[u] \/ (pc[u] = "ramp" /\ pc'[u] = "done")
    BY <1>4 DEF Finish, TypeOK
  <2>4. QED
    BY <2>1, <2>2, <2>3 DEF Shown
<1>5. ASSUME NEW t \in Tuner, Kill(t) PROVE Shown'
  BY <1>5 DEF Kill, Shown, TypeOK
<1>6. ASSUME UNCHANGED vars PROVE Shown'
  <2>1. Shown /\ pc' = pc /\ \A t \in Tuner : Holds(t)' = Holds(t)
    BY <1>6 DEF vars, ShownInv, Holds
  <2>2. QED
    BY <2>1 DEF Shown
<1>7. QED
  BY <1>1, <1>2, <1>3, <1>4, <1>5, <1>6 DEF Next, ShownInv

(* However many tuners run at the same time, when all have come to their   *)
(* end the register is at the low byte of a value that was asked for.      *)
THEOREM SettlesAlways == Spec => []SettlesOnATarget
<1>1. Init => ShownInv
  BY DEF Init, ShownInv, Shown, DoneArrived
<1>2. TypeOK /\ ShownInv => SettlesOnATarget
  <2> SUFFICES ASSUME TypeOK, ShownInv, Tuner # {},
                      \A t \in Tuner : pc[t] = "done" /\ ~TakenForReached(t)
               PROVE  \E t \in Tuner : reg = LowByteOf(val[t])
    BY DEF SettlesOnATarget
  <2>1. PICK t \in Tuner : Holds(t)
    BY DEF ShownInv, Shown
  <2>2. oldval[t] = val[t] + inc[t]
    BY DEF ShownInv, DoneArrived, Arrived
  <2>3. oldval[t] - inc[t] = val[t]
    BY <2>2, OneTyped
  <2>4. QED
    BY <2>1, <2>3 DEF Holds, TakenForReached, LowByteOf
<1>3. QED
  BY <1>1, <1>2, TypeCorrect, ShownInvNext, PTL DEF Spec
=============================================================================
