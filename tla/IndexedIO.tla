----------------------------- MODULE IndexedIO -----------------------------
(***************************************************************************)
(* The small tools that reach a chip through an index and a data register  *)
(* with nothing to unlock: through ports getcmos.c, getcmos_all.c,         *)
(* getextcmos.c, getextcmos_all.c, amdpm2_get.c, amdpm2_set.c,             *)
(* amdpmio_get.c, amdpmio_set.c, ithwm_getio.c, ithwm_setio.c,             *)
(* ithwm2_getio.c, ithwm2_setio.c and amd_intr_map_tool.c, and through a   *)
(* page mapped from /dev/mem ioapic.c and ioapic_wr.c.  A step is one      *)
(* access; nothing keeps two tools apart, and any of them may be ended     *)
(* between two accesses.                                                   *)
(*                                                                         *)
(* The chips are external: the low byte of the index selects one of 256    *)
(* registers; the extended CMOS takes no notice of the index's high bit,   *)
(* which is what getextcmos_all.c sets and getextcmos.c does not.          *)
(***************************************************************************)
EXTENDS Integers, Sequences

CONSTANTS
  Run,        \* invocations
  Tools,      \* their command lines
  Contents,   \* what the registers may hold at first
  list_end,   \* where the listings of the CMOS end, 0x80
  rdt_count,  \* pins of the I/O APIC, 24
  WordBase    \* what a word of the I/O APIC is less than, 2^32

rdt_offset == 16

Chip == {"cmos", "extcmos", "pm2", "pmio", "hwm", "hwm2", "intr", "ioapic"}
Byte == 0 .. 255

ChipOf ==
  [getcmos |-> "cmos", getcmos_all |-> "cmos", getextcmos |-> "extcmos",
   getextcmos_all |-> "extcmos", amdpm2_get |-> "pm2", amdpm2_set |-> "pm2",
   amdpmio_get |-> "pmio", amdpmio_set |-> "pmio", ithwm_getio |-> "hwm",
   ithwm_setio |-> "hwm", ithwm2_getio |-> "hwm2", ithwm2_setio |-> "hwm2",
   intr_map_r |-> "intr", intr_map_w |-> "intr",
   ioapic |-> "ioapic", ioapic_wr |-> "ioapic"]

Setters == {"amdpm2_set", "amdpmio_set", "ithwm_setio", "ithwm2_setio",
            "intr_map_w", "ioapic_wr"}

(* The setters that read the register again and print it.                  *)
ReadBack == {"ithwm_setio", "ithwm2_setio"}

(* For ioapic_wr, reg is the pin, an int, and val the entry, of two words. *)
ASSUME ToolsAssumption ==
  /\ Tools \subseteq [name : DOMAIN ChipOf, reg : Int, val : Nat]
  /\ \A t \in Tools : t.name # "ioapic_wr" => t.reg \in Nat
ASSUME ContentsAssumption == Contents \subseteq [Chip -> [Byte -> Nat]]
ASSUME ListAssumption     == list_end \in 15 .. 128
ASSUME CountAssumption    == rdt_count \in 1 .. 120
ASSUME WordBaseAssumption == WordBase \in Nat \ {0}

VARIABLES
  tool,       \* [Run -> Tools]
  st,         \* [Run -> {"idle", "running", "done", "dead", "refused"}]
  pc,         \* [Run -> Nat] accesses made
  out,        \* [Run -> Seq(Nat)] the bytes, or words, printed
  before,     \* [Run -> [Byte -> Nat]] the tool's chip when it was started
  overlapped, \* [Run -> BOOLEAN] history: another one was at its chip meanwhile
  regs,       \* [Chip -> [Byte -> Nat]]
  index       \* [Chip -> Byte]

vars == <<tool, st, pc, out, before, overlapped, regs, index>>

On(p) == ChipOf[tool[p].name]

-----------------------------------------------------------------------------
(* The programs.  outb puts the low byte of its argument on the port.      *)

Idx(v) == [op |-> "index", v |-> v % 256]
Dat(v) == [op |-> "data", v |-> v % 256]
Wrd(v) == [op |-> "data", v |-> v % WordBase]
In     == [op |-> "in", v |-> 0]

Get(r)           == <<Idx(r), In>>
Set(r, v)        == <<Idx(r), Dat(v)>>

SetReadBack(r, v) == Set(r, v) \o Get(r)

(* for (reg = first; reg < 0x80; reg++), with bit set in the index.        *)
List(first, bit) ==
  [k \in 1 .. 2 * (list_end - first) |->
     IF k % 2 = 1 THEN Idx(bit + first + ((k - 1) \div 2)) ELSE In]

(* Fault: the extended CMOS is listed from 14, as the CMOS is.             *)
getextcmos_all_short == List(14, 128)

getcmos(t)        == Get(t.reg)
getcmos_all       == List(14, 0)
getextcmos(t)     == Get(t.reg)
getextcmos_all    == List(0, 128)
amdpm2_get(t)     == Get(t.reg)

(* Fault: the two arguments are swapped.                                   *)
amdpm2_set_swapped(t) == Set(t.val, t.reg)

amdpm2_set(t)     == Set(t.reg, t.val)
amdpmio_get(t)    == Get(t.reg)
amdpmio_set(t)    == Set(t.reg, t.val)
ithwm_getio(t)    == Get(t.reg)
ithwm_setio(t)    == SetReadBack(t.reg, t.val)
ithwm2_getio(t)   == Get(t.reg)
ithwm2_setio(t)   == SetReadBack(t.reg, t.val)
intr_map_r(t)     == Get(t.reg)
intr_map_w(t)     == Set(t.reg, t.val)

High(i) == rdt_offset + 2 * i + 1
Low(i)  == rdt_offset + 2 * i

rdt_entry(i) == <<Idx(High(i)), In, Idx(Low(i)), In>>

(* for (i = 0; i < rdt_count; i++) rdt_entry: access k of the listing.     *)
ioapic ==
  [k \in 1 .. 4 * rdt_count |-> rdt_entry((k - 1) \div 4)[((k - 1) % 4) + 1]]

(* Fault: the low word, with the mask and the vector, goes first.          *)
set_rdt_entry_low_first(i, val) ==
  <<Idx(Low(i)), Wrd(val), Idx(High(i)), Wrd(val \div WordBase)>>

set_rdt_entry(i, val) ==
  <<Idx(High(i)), Wrd(val \div WordBase), Idx(Low(i)), Wrd(val)>>

Program(t) ==
  CASE t.name = "getcmos"        -> getcmos(t)
    [] t.name = "getcmos_all"    -> getcmos_all
    [] t.name = "getextcmos"     -> getextcmos(t)
    [] t.name = "getextcmos_all" -> getextcmos_all
    [] t.name = "amdpm2_get"     -> amdpm2_get(t)
    [] t.name = "amdpm2_set"     -> amdpm2_set(t)
    [] t.name = "amdpmio_get"    -> amdpmio_get(t)
    [] t.name = "amdpmio_set"    -> amdpmio_set(t)
    [] t.name = "ithwm_getio"    -> ithwm_getio(t)
    [] t.name = "ithwm_setio"    -> ithwm_setio(t)
    [] t.name = "ithwm2_getio"   -> ithwm2_getio(t)
    [] t.name = "ithwm2_setio"   -> ithwm2_setio(t)
    [] t.name = "intr_map_r"     -> intr_map_r(t)
    [] t.name = "intr_map_w"     -> intr_map_w(t)
    [] t.name = "ioapic"         -> ioapic
    [] t.name = "ioapic_wr"      -> set_rdt_entry(t.reg, t.val)

WrongPin(t) == t.name = "ioapic_wr" /\ t.reg >= rdt_count

(* Fault: the value is not checked.                                        *)
RefusedIndexOnly(t) ==
  WrongPin(t) \/ (t.name \in {"intr_map_r", "intr_map_w"} /\ t.reg > 255)

(* amd_intr_map_tool.c and ioapic_wr.c check their arguments, the others   *)
(* truncate them.                                                          *)
Refused(t) ==
  \/ WrongPin(t)
  \/ t.name \in {"intr_map_r", "intr_map_w"} /\ t.reg > 255
  \/ t.name = "intr_map_w" /\ t.val > 255

(* The register an index selects.                                          *)
Selected(c, v) == IF c = "extcmos" THEN v % 128 ELSE v

-----------------------------------------------------------------------------
Init ==
  /\ tool \in [Run -> Tools]
  /\ st = [p \in Run |-> "idle"]
  /\ pc = [p \in Run |-> 0]
  /\ out = [p \in Run |-> << >>]
  /\ regs \in Contents
  /\ before = [p \in Run |-> regs[On(p)]]
  /\ overlapped = [p \in Run |-> FALSE]
  /\ index = [c \in Chip |-> 0]

(* History: p runs from now on, beside those that are at its chip.         *)
Overlap(p) ==
  LET there == {q \in Run : st[q] = "running" /\ On(q) = On(p)}
  IN  overlapped' = [q \in Run |-> \/ overlapped[q]
                                   \/ q \in there
                                   \/ q = p /\ there # {}]

(* /dev/io or /dev/mem may be refused.                                     *)
Begin(p) ==
  /\ st[p] = "idle"
  /\ \/ /\ ~Refused(tool[p])
        /\ st' = [st EXCEPT ![p] = "running"]
        /\ Overlap(p)
     \/ st' = [st EXCEPT ![p] = "refused"] /\ UNCHANGED overlapped
  /\ before' = [before EXCEPT ![p] = regs[On(p)]]
  /\ UNCHANGED <<tool, pc, out, regs, index>>

Access(p) ==
  /\ st[p] = "running"
  /\ LET ops == Program(tool[p])
         op  == ops[pc[p] + 1]
         c   == On(p)
         r   == Selected(c, index[c])
     IN  /\ \/ /\ op.op = "index"
               /\ index' = [index EXCEPT ![c] = op.v]
               /\ UNCHANGED <<regs, out>>
            \/ /\ op.op = "data"
               /\ regs' = [regs EXCEPT ![c][r] = op.v]
               /\ UNCHANGED <<index, out>>
            \/ /\ op.op = "in"
               /\ out' = [out EXCEPT ![p] = Append(@, regs[c][r])]
               /\ UNCHANGED <<index, regs>>
         /\ pc' = [pc EXCEPT ![p] = @ + 1]
         /\ st' = IF pc[p] + 1 = Len(ops)
                  THEN [st EXCEPT ![p] = "done"] ELSE st
  /\ UNCHANGED <<tool, before, overlapped>>

Kill(p) ==
  /\ st[p] = "running"
  /\ st' = [st EXCEPT ![p] = "dead"]
  /\ UNCHANGED <<tool, pc, out, before, overlapped, regs, index>>

Next == \E p \in Run : Begin(p) \/ Access(p) \/ Kill(p)

Spec == Init /\ [][Next]_vars

-----------------------------------------------------------------------------
(* What t is to have printed, of a chip whose registers were b.            *)
Shows(t, b, o) ==
  CASE t.name = "getcmos_all"    -> o = [k \in 1 .. list_end - 14 |-> b[k + 13]]
    [] t.name = "getextcmos_all" -> o = [k \in 1 .. list_end |-> b[k - 1]]
    [] t.name = "ioapic" ->
         \A i \in 0 .. rdt_count - 1 :
           o[2 * i + 1] = b[High(i)] /\ o[2 * i + 2] = b[Low(i)]
    [] t.name \in ReadBack -> o = <<t.val % 256>>
    [] t.name \in Setters \ ReadBack -> o = << >>
    [] OTHER -> o = <<b[Selected(ChipOf[t.name], t.reg % 256)]>>

(* A tool that nobody disturbs has printed, when it comes to its end, the  *)
(* registers it is for, as they were when it was started or as it has set  *)
(* them, whatever a tool that was ended left in the index and whatever     *)
(* tools for other chips do meanwhile: the listings every one in order.    *)
PrintsRight ==
  \A p \in Run : st[p] = "done" /\ ~overlapped[p] => Shows(tool[p], before[p], out[p])

(* p runs to its end in this step, and nobody has disturbed it.            *)
EndsAlone(p) == st[p] = "running" /\ st'[p] = "done" /\ ~overlapped[p]

(* A setter that comes to its end has set the one register, or the two     *)
(* words of the one entry, it was given, to the value it was given; no     *)
(* other tool changes anything.                                            *)
SetByIt(t, b) ==
  CASE t.name = "ioapic_wr" ->
         [b EXCEPT ![High(t.reg) % 256] = (t.val \div WordBase) % WordBase,
                   ![Low(t.reg) % 256]  = t.val % WordBase]
    [] t.name \in Setters \ {"ioapic_wr"} ->
         [b EXCEPT ![t.reg % 256] = t.val % 256]
    [] OTHER -> b

SetsOne ==
  [][\A p \in Run : EndsAlone(p) => regs'[On(p)] = SetByIt(tool[p], before[p])]_vars

(* amd_intr_map_tool comes to its end only with the very register and the  *)
(* very value of its command line: nothing is truncated on the way.        *)
NothingTruncated ==
  [][\A p \in Run : EndsAlone(p) /\ On(p) = "intr" =>
       /\ index'["intr"] = tool[p].reg
       /\ tool[p].name \in Setters =>
            regs'["intr"][tool[p].reg] = tool[p].val]_vars

(* The low word of an entry, which has the vector and the mask bit,        *)
(* changes only when the high word, the destination, is the one that goes  *)
(* with it: an entry is never enabled towards the destination it had,      *)
(* wherever a writer is ended, unless another one is at the APIC, too.     *)
DestinationFirst ==
  [][\A i \in 0 .. rdt_count - 1 :
       regs'["ioapic"][Low(i)] # regs["ioapic"][Low(i)] =>
         \E p \in Run :
           /\ st[p] = "running" /\ On(p) = "ioapic"
           /\ \/ overlapped[p]
              \/ /\ regs["ioapic"][High(i)] = (tool[p].val \div WordBase) % WordBase
                 /\ regs'["ioapic"][Low(i)] = tool[p].val % WordBase]_vars

(* What "wrong pin number" is there for: a writer that is not refused      *)
(* reaches no register outside the table.                                  *)
OnlyTheTable ==
  \A p \in Run :
    /\ st[p] = "running" /\ tool[p].name = "ioapic_wr"
    /\ pc[p] > 0 /\ ~overlapped[p]
    => index["ioapic"] \in rdt_offset .. rdt_offset + 2 * rdt_count - 1
=============================================================================
