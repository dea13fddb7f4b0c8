----------------------------- MODULE MCSuperIO -----------------------------
(* Instances of SuperIO for TLC.                                            *)
EXTENDS SuperIO, TLC

Named(n) == [name |-> n, dev |-> 7, reg |-> 239, val |-> 0]

(* A shared register, one that both devices have, the device selection, and *)
(* the one that has the number of the maker's exit byte.                    *)
GetAndSet(exit) ==
  [name : {"getreg", "setreg"}, dev : Ldn, reg : {44, 239, DevSel, exit}, val : {17}]

Makers == {"winbond", "nvt", "ite"}

ToolsOf ==
  [winbond |-> {Named("superio"), Named("superio2")},
   nvt     |-> GetAndSet(170),
   ite     |-> GetAndSet(2) \cup {Named("ite_sio")}]

(* What ends the ITE chip's mode is not known from the tools alone.         *)
MayClose == [winbond |-> {TRUE}, nvt |-> {TRUE}, ite |-> BOOLEAN]

(* Every device enabled, every register with contents of its own.           *)
Fresh ==
  {[c \in Cell |->
      IF c[2] = DevSel THEN 8
      ELSE IF c[2] = DevEn THEN 1
      ELSE 100 + (c[2] % 60) + (IF c[1] = 8 THEN 61 ELSE 0)]}

(* Nothing is claimed of tools that overlap, and with two invocations there *)
(* is no later one to find what they leave: the run stops where they meet.  *)
Undisturbed == \A p \in Run : ~overlapped[p]

Sym == Permutations(Run)
=============================================================================
