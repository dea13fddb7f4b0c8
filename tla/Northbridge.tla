---------------------------- MODULE Northbridge ----------------------------
(***************************************************************************)
(* The two programs that read the northbridges of one machine, one after   *)
(* the other: amd-ecc-info.c, then amd-addr-decode.c once or twice.        *)
(***************************************************************************)
EXTENDS AddrDecode, EccInfo

(* What the firmware leaves in the registers of node 0: a controller that  *)
(* it has disabled has no chip select enabled, and what a reboot sets up   *)
(* in another way is not the chip selects.                                 *)
ChipSelect(i, c) == <<24, 2, \h40 + i * \h100 + 4 * c>>
DctConfigHigh(i) == <<24, 2, \h94 + i * \h100>>

HasBit(m, b, r) == r \in DOMAIN m.regs /\ b \in m.regs[r]

ASSUME DisabledAssumption ==
  \A m \in Machines, i \in {0, 1}, c \in 0 .. 7 :
    HasBit(m, 0, ChipSelect(i, c)) => ~HasBit(m, 14, DctConfigHigh(i))
ASSUME RebootAssumption ==
  \A p \in Reboots, i \in {0, 1}, c \in 0 .. 7 :
    HasBit(p[1], 0, ChipSelect(i, c)) <=> HasBit(p[2], 0, ChipSelect(i, c))

(* The ranges of a machine: the first and the last address (a range ends   *)
(* with the 16 MB that its limit names), how nodes are interleaved in it,  *)
(* its node, and the swap register of that.                                *)
RegisterOf(m, r) == IF r \in DOMAIN m.regs THEN m.regs[r] ELSE {}
RangeOf(m, r, reg) == RegisterOf(m, <<24, 1, reg + 8 * r>>)
Swap(n) == <<24 + n, 2, \h10C>>

First(m, r) == Long(RangeOf(m, r, \h140), RangeOf(m, r, \h40) \cap (16 .. 31))
Last(m, r) ==
  Long(RangeOf(m, r, \h144), RangeOf(m, r, \h44) \cap (16 .. 31)) \cup Bits(24)

Interleaving(m, r) == Field(RangeOf(m, r, \h40), 8, 10)
Turn(m, r)         == Field(RangeOf(m, r, \h44), 8, 10)
NodeIn(m, r)       == Number(Field(RangeOf(m, r, \h44), 0, 2))
SwapOf(m, r)       == RegisterOf(m, Swap(NodeIn(m, r)))

Ranges(m) == {r \in 0 .. 7 : RangeOf(m, r, \h40) \cap {0, 1} # {}}

(* They do not overlap, unless nodes take turns in them.                   *)
Disjoint(m) ==
  \A r, q \in Ranges(m) : r # q =>
    \/ Less(Last(m, r), First(m, q)) \/ Less(Last(m, q), First(m, r))
    \/ /\ Interleaving(m, r) = Interleaving(m, q) /\ Interleaving(m, r) # {}
       /\ Turn(m, r) # Turn(m, q)

(* It exchanges its lowest 2^k bytes with as many at base: all nodes that  *)
(* have them do, and the ranges of the others are above.                   *)
Exchanging(m, k) ==
  LET end == m.base \cup Bits(k)
  IN  /\ m.base \subseteq k .. 33
      /\ m.low = {<<{}, Bits(k)>>} /\ m.high = {<<m.base, end>>}
      /\ \A r \in Ranges(m) :
           \/ /\ First(m, r) = {} /\ ~Less(Last(m, r), end)
              /\ 0 \in SwapOf(m, r)
              /\ Field(SwapOf(m, r), 3, 9) = Shr(m.base, 27)
              /\ Field(SwapOf(m, r), 11, 17) = Shr(end, 27)
              /\ Field(SwapOf(m, r), 20, 26) = {k - 27}
           \/ Less(end, First(m, r)) /\ 0 \notin SwapOf(m, r)

(* A machine set up without its exchange differs in the swap and nothing   *)
(* else.                                                                   *)
ASSUME ExchangeAssumption ==
  \A p \in Reboots :
    /\ Disjoint(p[1])
    /\ \E k \in 27 .. 33 : Exchanging(p[1], k)
    /\ \A n \in 0 .. 7 : 0 \notin RegisterOf(p[2], Swap(n))
    /\ \A r \in DOMAIN p[1].regs \cup DOMAIN p[2].regs :
         r # Swap(r[1] - 24) => RegisterOf(p[1], r) = RegisterOf(p[2], r)

decodeVars == <<pc, addr, SystemAddr, DramRange, node, earlier>>

NbInit == Init /\ EccInit

NbNext ==
  \/ EccNext /\ UNCHANGED decodeVars
  \/ step \in {"printed", "failed"} /\ Next /\ UNCHANGED eccVars

NbSpec == NbInit /\ [][NbNext]_<<vars, eccVars>>

-----------------------------------------------------------------------------
(* A rank of node 0 that the decoder names is one that the report lists as *)
(* present, on a controller that it lists as enabled: the two programs     *)
(* read the same registers in the same way.                                *)
AgreesWithReport ==
  pc = "found" /\ NodeID = 0 /\ CS >= 0 =>
    /\ <<"CS", Channel, CS>> \in report
    /\ <<"DCT", Channel, "enabled">> \in report
=============================================================================
