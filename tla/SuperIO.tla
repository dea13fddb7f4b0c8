------------------------------ MODULE SuperIO ------------------------------
(***************************************************************************)
(* The tools that program a Super I/O chip through its index and data      *)
(* ports: superio.c and superio2.c (Winbond, port 0x3f0), nvt_sio_getreg.c *)
(* and nvt_sio_setreg.c (Nuvoton), ite_sio.c, ite_sio_getreg.c and         *)
(* ite_sio_setreg.c (ITE, all at port 0x2e).                               *)
(*                                                                         *)
(* Each of them is a straight line of outb and inb, written here as the    *)
(* sequence Program(t) of its port accesses; a step is one access.         *)
(* Nothing keeps two of them apart, and any of them may be ended between   *)
(* two accesses; the next one finds the chip as it was left.               *)
(*                                                                         *)
(* The chip is external and modelled from the use the tools make of it:    *)
(* the key written to the index port opens the configuration mode, the     *)
(* index port then selects the register behind the data port, registers    *)
(* from 0x30 on exist once for each logical device, and register 0x07      *)
(* selects the device.                                                     *)
(***************************************************************************)
EXTENDS Integers, Sequences

CONSTANTS
  Run,          \* invocations
  Families,     \* the makers of the chip: "winbond", "nvt", "ite"
  Tools,        \* [Families -> the command lines of the tools for it]
  Closes,       \* [Families -> may the chip take the exit sequence for one?]
  Contents      \* what the registers may hold before the first tool runs

DevSel == 7                         \* 0x07
DevEn  == 48                        \* 0x30
Ldn    == {7, 8}                    \* the logical devices there are
Shared == -1                        \* in place of a device: common to all

Index == {1, 2, 7, 44, 48, 85, 96, 97, 135, 170, 226, 227, 228, 231, 239,
          242, 243, 244}            \* every value the tools put on the index port
Byte  == 0 .. 255

Cell == ({Shared} \X {r \in Index : r < DevEn})
        \cup (Ldn \X {r \in Index : r >= DevEn})

ToolNames == {"superio", "superio2", "getreg", "setreg", "ite_sio"}

CommandLine == [name : ToolNames, dev : Ldn, reg : Index, val : Byte]

(* The tools there are for each of them.                                   *)
ToolsFor ==
  [winbond |-> {"superio", "superio2"},
   nvt     |-> {"getreg", "setreg"},
   ite     |-> {"getreg", "setreg", "ite_sio"}]

ASSUME FamiliesAssumption == Families \subseteq DOMAIN ToolsFor
ASSUME ToolsAssumption    ==
  /\ Tools \in [Families -> SUBSET CommandLine]
  /\ \A f \in Families : \A t \in Tools[f] : t.name \in ToolsFor[f]
ASSUME ClosesAssumption   == Closes \in [Families -> SUBSET BOOLEAN]
ASSUME ContentsAssumption ==
  /\ Contents \subseteq [Cell -> Byte]
  /\ \A c \in Contents : c[<<Shared, DevSel>>] \in Ldn

VARIABLES
  family,       \* the maker of the chip in this machine
  tool,         \* [Run -> Tools[family]]
  st,           \* [Run -> {"idle", "running", "done", "dead"}]
  pc,           \* [Run -> Nat] accesses made
  got,          \* [Run -> Seq(Byte)] what the inb calls returned
  before,       \* [Run -> [Cell -> Byte]] the registers when it was started
  overlapped,   \* [Run -> BOOLEAN] history: another one ran while it did
  regs,         \* [Cell -> Byte] the chip's registers
  open,         \* is the chip in configuration mode?
  matched,      \* bytes of the key seen so far
  index,        \* the register selected
  closes        \* does the exit sequence close the configuration mode?

chip    == <<regs, open, matched, index>>
machine == <<family, closes, tool>>
vars    == <<machine, st, pc, got, before, overlapped, chip>>

-----------------------------------------------------------------------------
(* The programs.                                                           *)

Key ==
  IF family = "ite" THEN <<135, 1, 85, 85>>     \* 0x87 0x01 0x55 0x55
                    ELSE <<135, 135>>           \* 0x87 0x87

ExitByte == IF family = "ite" THEN 2 ELSE 170   \* 0x02, 0xaa

Idx(v) == [op |-> "index", v |-> v]
Dat(v) == [op |-> "data", v |-> v]
In     == [op |-> "in", v |-> 0]
Masked == [op |-> "masked", v |-> 0]    \* outb of the last inb, & ~1

SetReg(r, v) == <<Idx(r), Dat(v)>>
GetReg(r)    == <<Idx(r), In>>

Outs(s) == [k \in 1 .. Len(s) |-> Idx(s[k])]

(* Fault: the last byte of the key is left out.                            *)
CfgEnterShort == Outs(SubSeq(Key, 1, Len(Key) - 1))

CfgEnter == Outs(Key)

(* Fault: the program ends without the exit sequence.                      *)
CfgExitMissing(t) == << >>

(* The nvt getreg writes 0xaa twice, the others once; ITE has 0x02 twice.  *)
CfgExit(t) ==
  IF family = "ite" \/ (family = "nvt" /\ t.name = "getreg")
  THEN Outs(<<ExitByte, ExitByte>>) ELSE Outs(<<ExitByte>>)

SuperioBody ==
  <<SetReg(44, 1),                                             \* 0x2c
    SetReg(DevSel, 7),
    SetReg(228, 2), SetReg(227, 1), SetReg(231, 1),            \* 0xe4 0xe3 0xe7
    SetReg(DevSel, 8),
    SetReg(242, 0), SetReg(243, 249), SetReg(244, 192)>>       \* 0xf2 0xf3 0xf4

(* Fault: the device is enabled between the halves of its address.         *)
MoveEarly(dev, lo) ==
  <<SetReg(DevSel, dev), SetReg(DevEn, 0),
    SetReg(96, 2), SetReg(DevEn, 1), SetReg(97, lo)>>

(* The base address 0x60, 0x61 of a device is moved while it is disabled.  *)
Move(dev, lo) ==
  <<SetReg(DevSel, dev), SetReg(DevEn, 0),
    SetReg(96, 2), SetReg(97, lo), SetReg(DevEn, 1)>>

Superio2Body == Move(7, 80) \o Move(8, 84)                     \* 0x250, 0x254

GetBody(t) == <<SetReg(DevSel, t.dev), GetReg(t.reg)>>

(* Fault: the device is not selected again for the write.                  *)
SetBodyUnselected(t) == <<GetReg(t.reg), SetReg(t.reg, t.val), GetReg(t.reg)>>

SetBody(t) ==
  <<SetReg(DevSel, t.dev), GetReg(t.reg), SetReg(t.reg, t.val), GetReg(t.reg)>>

(* Fault: the device is not selected.                                      *)
IteSioUnselected == <<GetReg(239), <<Idx(239), Masked>>, GetReg(239)>>

IteSioBody ==
  <<SetReg(DevSel, 7), GetReg(239), <<Idx(239), Masked>>, GetReg(239)>>

Body(t) ==
  CASE t.name = "superio"  -> SuperioBody
    [] t.name = "superio2" -> Superio2Body
    [] t.name = "getreg"   -> GetBody(t)
    [] t.name = "setreg"   -> SetBody(t)
    [] t.name = "ite_sio"  -> IteSioBody

(* The accesses of the pairs, one after the other.                         *)
Flat(s) == [k \in 1 .. 2 * Len(s) |-> s[(k + 1) \div 2][2 - (k % 2)]]

Program(t) == CfgEnter \o Flat(Body(t)) \o CfgExit(t)

-----------------------------------------------------------------------------
(* The chip.                                                               *)

Selected == IF index < DevEn THEN <<Shared, index>>
                             ELSE <<regs[<<Shared, DevSel>>], index>>

(* A byte that does not continue the key may begin it again.               *)
Matching(v) ==
  IF v = Key[matched + 1] THEN matched + 1
  ELSE IF v = Key[1] THEN 1 ELSE 0

IndexPort(v) ==
  IF open
  THEN /\ index' = v
       /\ open' = ~(closes /\ v = ExitByte)
       /\ UNCHANGED <<regs, matched>>
  ELSE /\ open' = (Matching(v) = Len(Key))
       /\ matched' = IF open' THEN 0 ELSE Matching(v)
       /\ UNCHANGED <<regs, index>>

DataPort(v) ==
  /\ regs' = IF open /\ Selected \in Cell
             THEN [regs EXCEPT ![Selected] = v] ELSE regs
  /\ UNCHANGED <<open, matched, index>>

(* A closed chip does not drive the bus; neither does a device, selected   *)
(* by tools that run at the same time, that does not exist.                *)
Input == IF open /\ Selected \in Cell THEN regs[Selected] ELSE 255

-----------------------------------------------------------------------------
Init ==
  /\ family \in Families
  /\ tool \in [Run -> Tools[family]]
  /\ st = [p \in Run |-> "idle"]
  /\ pc = [p \in Run |-> 0]
  /\ got = [p \in Run |-> << >>]
  /\ regs \in Contents
  /\ before = [p \in Run |-> regs]
  /\ overlapped = [p \in Run |-> FALSE]
  /\ open = FALSE
  /\ matched = 0
  /\ index = DevSel
  /\ closes \in Closes[family]

(* History: p runs from now on, beside those that are running.             *)
Overlap(p) ==
  LET running == {q \in Run : st[q] = "running"}
  IN  overlapped' = [q \in Run |-> \/ overlapped[q]
                                   \/ q \in running
                                   \/ q = p /\ running # {}]

(* Opening /dev/io may fail.                                               *)
Begin(p) ==
  /\ st[p] = "idle"
  /\ \/ st' = [st EXCEPT ![p] = "running"] /\ Overlap(p)
     \/ st' = [st EXCEPT ![p] = "dead"] /\ UNCHANGED overlapped
  /\ before' = [before EXCEPT ![p] = regs]
  /\ UNCHANGED <<machine, pc, got, chip>>

Access(p) ==
  /\ st[p] = "running"
  /\ LET ops == Program(tool[p])
         op  == ops[pc[p] + 1]
     IN  /\ \/ op.op = "index" /\ IndexPort(op.v) /\ UNCHANGED got
            \/ op.op = "data" /\ DataPort(op.v) /\ UNCHANGED got
            \/ /\ op.op = "masked"
               /\ LET val == got[p][Len(got[p])] IN DataPort(val - (val % 2))
               /\ UNCHANGED got
            \/ /\ op.op = "in"
               /\ got' = [got EXCEPT ![p] = Append(@, Input)]
               /\ UNCHANGED chip
         /\ pc' = [pc EXCEPT ![p] = @ + 1]
         /\ st' = IF pc[p] + 1 = Len(ops)
                  THEN [st EXCEPT ![p] = "done"] ELSE st
  /\ UNCHANGED <<machine, before, overlapped>>

(* A signal ends it between two accesses.                                  *)
Kill(p) ==
  /\ st[p] = "running"
  /\ st' = [st EXCEPT ![p] = "dead"]
  /\ UNCHANGED <<machine, pc, got, before, overlapped, chip>>

Next == \E p \in Run : Begin(p) \/ Access(p) \/ Kill(p)

Spec == Init /\ [][Next]_vars

-----------------------------------------------------------------------------
ClearBit0(v) == IF v % 2 = 1 THEN v - 1 ELSE v

At(l, r) == IF r < DevEn THEN <<Shared, r>> ELSE <<l, r>>

(* The register whose number is the exit byte is out of the reach of       *)
(* getreg and setreg: to select it ends the configuration mode.            *)
Within(t) == t.name \in {"getreg", "setreg"} /\ closes => t.reg # ExitByte

(* What a tool is for: the registers it is to leave with a value.          *)
Duty(t, old) ==
  CASE t.name = "superio" ->
         {<<At(7, 44), 1>>, <<At(7, 228), 2>>, <<At(7, 227), 1>>, <<At(7, 231), 1>>,
          <<At(8, 242), 0>>, <<At(8, 243), 249>>, <<At(8, 244), 192>>}
    [] t.name = "superio2" ->
         {<<At(7, 96), 2>>, <<At(7, 97), 80>>, <<At(7, DevEn), 1>>,
          <<At(8, 96), 2>>, <<At(8, 97), 84>>, <<At(8, DevEn), 1>>}
    [] t.name = "getreg" -> {}
    [] t.name = "setreg" -> IF Within(t) THEN {<<At(t.dev, t.reg), t.val>>} ELSE {}
    [] t.name = "ite_sio" ->
         {<<At(7, 239), ClearBit0(old[At(7, 239)])>>}

Wanted(t, old) == {d[1] : d \in Duty(t, old)} \cup {At(7, DevSel)}

TypeOK ==
  /\ family \in Families
  /\ tool \in [Run -> Tools[family]]
  /\ st \in [Run -> {"idle", "running", "done", "dead"}]
  /\ \A p \in Run : pc[p] \in 0 .. Len(Program(tool[p]))
  /\ \A p \in Run : got[p] \in Seq(Byte) /\ before[p] \in [Cell -> Byte]
  /\ overlapped \in [Run -> BOOLEAN]
  /\ regs \in [Cell -> Byte]
  /\ open \in BOOLEAN
  /\ matched \in 0 .. Len(Key) - 1
  /\ index \in Index
  /\ closes \in Closes[family]

(* No register is touched but those the running tool is for: not in its    *)
(* own course, and not because an invocation before it was ended between   *)
(* an index and its data, inside the key or in configuration mode.  Only   *)
(* tools that run at the same time may touch what neither is for.          *)
OnlyWanted ==
  [][\A c \in Cell : regs'[c] # regs[c] =>
       \E p \in Run : /\ st[p] = "running"
                      /\ overlapped[p] \/ c \in Wanted(tool[p], before[p])]_vars

(* p runs to its end in this step, and nobody has disturbed it.            *)
EndsAlone(p) == st[p] = "running" /\ st'[p] = "done" /\ ~overlapped[p]

(* A tool that nobody disturbs and that comes to its end has done what it  *)
(* is for, and nothing else has changed since it was started.              *)
Accomplished ==
  [][\A p \in Run : EndsAlone(p) =>
       /\ \A d \in Duty(tool[p], before[p]) : regs'[d[1]] = d[2]
       /\ \A c \in Cell \ Wanted(tool[p], before[p]) :
            regs'[c] = before[p][c]]_vars

(* getreg and setreg print the register's old value, setreg and ite_sio    *)
(* the new one, of the device they were given: of the device selection     *)
(* their own, and 255 for the register that they cannot reach.             *)
Old(t, b) ==
  IF t.reg = DevSel THEN t.dev ELSE b[At(t.dev, t.reg)]

Seen(t, v) == IF Within(t) THEN v ELSE 255

Shows(t, b, o) ==
  CASE t.name = "getreg"  -> o = <<Seen(t, Old(t, b))>>
    [] t.name = "setreg"  -> o = <<Seen(t, Old(t, b)), Seen(t, t.val)>>
    [] t.name = "ite_sio" -> o[2] = ClearBit0(b[At(7, 239)])
    [] t.name \in {"superio", "superio2"} -> o = << >>

PrintsRight ==
  \A p \in Run : st[p] = "done" /\ ~overlapped[p] => Shows(tool[p], before[p], got[p])

(* A tool that comes to its end leaves the chip out of configuration mode, *)
(* also when it found it open, if the chip knows the exit sequence.        *)
Relocked ==
  [][\A p \in Run : closes /\ EndsAlone(p) => ~open']_vars

(* superio2 moves the base address of a device: at no time, however it is  *)
(* ended and run again and until two tools overlap, is the device enabled  *)
(* at an address of which one byte is old and one is new.                  *)
Address(l, f) == <<f[<<l, 96>>], f[<<l, 97>>]>>

NeverHalfMoved ==
  \A l \in Ldn :
    /\ family = "winbond" /\ regs[<<l, DevEn>>] = 1
    /\ \A p \in Run : ~overlapped[p]
    => Address(l, regs) \in {<<2, IF l = 7 THEN 80 ELSE 84>>}
                            \cup {Address(l, c) : c \in Contents}
=============================================================================
