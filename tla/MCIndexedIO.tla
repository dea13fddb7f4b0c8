---------------------------- MODULE MCIndexedIO ----------------------------
(* Instances of IndexedIO for TLC.                                          *)
EXTENDS IndexedIO, TLC

(* Arguments within a byte and beyond one; pins of the table and beyond.    *)
AllTools ==
  [name : {"getcmos_all", "getextcmos_all", "ioapic"}, reg : {0}, val : {0}]
  \cup [name : {"getcmos", "getextcmos", "amdpm2_get", "amdpmio_get",
                "ithwm_getio", "ithwm2_getio", "intr_map_r"},
        reg : {3, 300}, val : {0}]
  \cup [name : Setters \ {"ioapic_wr"}, reg : {3, 300}, val : {17, 500}]
  \cup [name : {"ioapic_wr"}, reg : {0, 23, 24}, val : {7 * 256 + 9, 8 * 256}]

(* What strtoul makes of -1 and of -8, too.                                 *)
PinWriters == [name : {"ioapic_wr"}, reg : {-8, -1, 0, 23, 24}, val : 0 .. 9]

(* All registers of a chip differ, and differ from the neighbouring chip's. *)
Start ==
  LET base == [cmos |-> 0, extcmos |-> 1, pm2 |-> 2, pmio |-> 3, hwm |-> 4,
               hwm2 |-> 5, intr |-> 6, ioapic |-> 7]
  IN  {[c \in Chip |-> [r \in Byte |-> (11 * r + base[c]) % 256]]}

(* Nothing is claimed of tools that overlap at a chip, and with two         *)
(* invocations there is no later one to find what they leave: the run stops *)
(* where they meet.                                                         *)
Undisturbed == \A p \in Run : ~overlapped[p]

Sym == Permutations(Run)
=============================================================================
