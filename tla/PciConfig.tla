----------------------------- MODULE PciConfig -----------------------------
(***************************************************************************)
(* What amd-addr-decode.c and amd-ecc-info.c have in common: the           *)
(* northbridges of an AMD family 10h machine, whose registers both read    *)
(* through /dev/pci, and the arithmetic on them.                           *)
(*                                                                         *)
(* A word is the set of the numbers of its one bits, in its full width, so *)
(* that & is \cap, | is \cup and & ~ is \.  A machine has a set of PCI     *)
(* devices, one for each node, and the registers that are not zero.        *)
(***************************************************************************)
EXTENDS Integers, FiniteSetsExt

CONSTANT Machines

Register == Int \X (0 .. 3) \X Nat      \* device, function, offset

ASSUME MachinesAssumption ==
  \A m \in Machines :
    /\ m.devices \subseteq Nat
    /\ DOMAIN m.regs \subseteq Register
    /\ \A r \in DOMAIN m.regs : m.regs[r] \subseteq 0 .. 31

VARIABLES
  machine,    \* the machine the programs run on
  opens       \* may they open /dev/pci?

pci == <<machine, opens>>

PciInit == machine \in Machines /\ opens \in BOOLEAN

Bits(n) == 0 .. n - 1

Xor(a, b)    == (a \ b) \cup (b \ a)
Shr(a, n)    == {b - n : b \in {c \in a : c >= n}}
Shl(a, n, w) == {b + n : b \in {c \in a : c + n < w}}

(* a < b: the highest bit in which they differ is one of b.                *)
Less(a, b) == \E k \in b \ a : \A j \in a \ b : j < k

(* a - b modulo 2^w.                                                       *)
Minus(a, b, w) ==
  LET Below(c, k) == {j \in c : j < k}
  IN  {k \in Bits(w) : (k \in Xor(a, b)) # Less(Below(a, k), Below(b, k))}

(* The value of a field, which has at most 8 bits.                         *)
Number(a) ==
  LET Worth(b) == IF b \in a THEN 2 ^ b ELSE 0
  IN  Worth(0) + Worth(1) + Worth(2) + Worth(3)
        + Worth(4) + Worth(5) + Worth(6) + Worth(7)

(* The bits from lo to hi of a register, moved down.                       *)
Field(a, lo, hi) == Shr(a \cap (lo .. hi), lo)

(* An ioctl for a device that is not there fails, and the program ends.    *)
Readable(dev) == opens => dev \in machine.devices

(* Get_PCI: a uint64_t, which is -1 without /dev/pci.                      *)
Get_PCI(dev, func, reg) ==
  IF ~opens THEN Bits(64)
  ELSE IF <<dev, func, reg>> \in DOMAIN machine.regs
       THEN machine.regs[<<dev, func, reg>>]
       ELSE {}
=============================================================================
