----------------------------- MODULE AddrDecode -----------------------------
(***************************************************************************)
(* amd-addr-decode.c: which node, channel and chip select holds the memory *)
(* at a system address.  TranslateSysAddrToCS looks for the DRAM range     *)
(* that has the address, undoes what the machine does on the way from the  *)
(* processor to a channel (region swap, hoisting above the hole below 4 GB,*)
(* interleaving of nodes and of channels), and looks for the chip select.  *)
(*                                                                         *)
(* A step is one turn of the loop over the ranges, the computation of the  *)
(* channel and its address, or the loop over the chip selects.  The        *)
(* program is run twice, possibly with a reboot in between, for what the   *)
(* two answers have to do with each other.                                 *)
(***************************************************************************)
EXTENDS PciConfig

CONSTANTS
  Asked,      \* [Machines -> the pairs of addresses asked for]
  Reboots     \* pairs of machines: the first, set up in another way

Address == SUBSET Bits(64)

ASSUME AskedAssumption ==
  /\ DOMAIN Asked = Machines
  /\ \A m \in Machines : \A q \in Asked[m] :
       DOMAIN q = {1, 2} /\ q[1] \in Address /\ q[2] \in Address
ASSUME RebootsAssumption == Reboots \subseteq Machines \X Machines

VARIABLES
  pc,           \* "ask", "range", "channel", "chip", "found", "unmapped", "failed"
  addr,         \* main's addr
  SystemAddr,   \* the parameter, which the region swap changes
  DramRange,    \* 0 .. 8
  NodeID, Channel, CS,
  ChannelAddr,  \* ChannelAddrLong in the end
  earlier       \* the answer of the first run of the program

node == <<NodeID, Channel, CS, ChannelAddr>>
vars == <<pci, pc, addr, SystemAddr, DramRange, node, earlier>>

NoAnswer == [machine |-> "none"]

Init ==
  /\ PciInit
  /\ pc = "ask"
  /\ addr = {} /\ SystemAddr = {} /\ DramRange = 0
  /\ NodeID = 0 /\ Channel = 0 /\ CS = 0 /\ ChannelAddr = {}
  /\ earlier = NoAnswer

Ask ==
  /\ pc = "ask"
  /\ \E q \in Asked[machine] :
       /\ addr' = IF earlier = NoAnswer THEN q[1] ELSE q[2]
       /\ earlier # NoAnswer => q[1] = earlier.addr
  /\ SystemAddr' = addr'
  /\ DramRange' = 0
  /\ pc' = "range"
  /\ UNCHANGED <<pci, node, earlier>>

(* The answer is kept, and the program may be run once more.               *)
Again ==
  /\ pc \in {"found", "unmapped"} /\ earlier = NoAnswer
  /\ earlier' = [machine |-> machine, addr |-> addr, found |-> pc = "found",
                 node |-> NodeID, channel |-> Channel, cs |-> CS,
                 cell |-> ChannelAddr]
  /\ pc' = "ask"
  /\ machine' \in {machine} \cup {m \in Machines : <<machine, m>> \in Reboots}
  /\ UNCHANGED <<opens, addr, SystemAddr, DramRange, node>>

-----------------------------------------------------------------------------
(* The DRAM ranges, in function 1 of device 24.                            *)

device == 24

RangeReg(r, reg) == Get_PCI(device, 1, reg + 8 * r)

DramEn(r)   == RangeReg(r, \h40) \cap {0, 1} # {}
IntlvEn(r)  == Field(RangeReg(r, \h40), 8, 10)
IntlvSel(r) == Field(RangeReg(r, \h44), 8, 10)
NodeOf(r)   == Number(Field(RangeReg(r, \h44), 0, 2))

Long(high, low) == Shl(Shl(high \cap Bits(8), 32, 64) \cup low, 8, 64)

DramBaseLong(r)  == Long(RangeReg(r, \h140), RangeReg(r, \h40) \cap (16 .. 31))

(* Fault: the low bits of the limit are taken from the register.           *)
DramLimitNotFilled(r) ==
  Long(RangeReg(r, \h144), RangeReg(r, \h44) \cap (16 .. 31))

DramLimitLong(r) ==
  Long(RangeReg(r, \h144), (RangeReg(r, \h44) \cap Bits(32)) \cup Bits(16)) \cup Bits(8)

Matches(r, a) ==
  /\ DramEn(r)
  /\ ~Less(a, DramBaseLong(r)) /\ ~Less(DramLimitLong(r), a)
  /\ IntlvEn(r) # {} => IntlvSel(r) = Shr(a, 12) \cap IntlvEn(r)

Ilog(r) ==
  CASE IntlvEn(r) = {0} -> 1 [] IntlvEn(r) = {0, 1} -> 2
    [] IntlvEn(r) = {0, 1, 2} -> 3 [] OTHER -> 0

(* Fault: the end of the region is left out.                               *)
SwappedShort(n, a) ==
  LET swap == Get_PCI(device + n, 2, \h10C)
      base == Field(swap, 3, 9)
      unit == Shr(a, 27)
  IN  IF /\ 0 \in swap
         /\ Shr(a, 34) = {}
         /\ \/ ~Less(unit, base) /\ Less(unit, Field(swap, 11, 17))
            \/ Less(unit, Field(swap, 20, 26))
      THEN Xor(a, Shl(base, 27, 32)) ELSE a

(* IntLvRgnBaseAddr << 27 is computed in a uint32_t.                       *)
Swapped(n, a) ==
  LET swap == Get_PCI(device + n, 2, \h10C)
      base == Field(swap, 3, 9)
      unit == Shr(a, 27)
  IN  IF /\ 0 \in swap
         /\ Shr(a, 34) = {}
         /\ \/ ~Less(unit, base) /\ ~Less(Field(swap, 11, 17), unit)
            \/ Less(unit, Field(swap, 20, 26))
      THEN Xor(a, Shl(base, 27, 32)) ELSE a

-----------------------------------------------------------------------------
(* The channel, from the registers of the node.                            *)

DctSel             == Get_PCI(device + NodeID, 2, \h110)
DctSelHiRngEn      == 0 \in DctSel
DctSelHi           == IF 1 \in DctSel THEN 1 ELSE 0
DctSelIntLvEn      == 2 \in DctSel
DctGangEn          == 4 \in DctSel
DctSelIntLvAddr    == Field(DctSel, 6, 7)
DctSelBaseAddr     == DctSel \cap (11 .. 31)
DctSelBaseOffset   == Shl(Get_PCI(device + NodeID, 2, \h114) \cap (10 .. 31), 16, 64)
DramHole           == Get_PCI(device + NodeID, 1, \hF0)
HoleOffset         == Shl(DramHole \cap (7 .. 15), 16, 32)

HiRangeSelected ==
  /\ DctSelHiRngEn /\ ~DctGangEn
  /\ ~Less(Shr(SystemAddr, 27), Shr(DctSelBaseAddr, 11))

BitOf(a, b) == IF b \in a THEN 1 ELSE 0

(* fUnaryXOR of the bits 16 to 20: their parity.                           *)
Parity == Cardinality(SystemAddr \cap (16 .. 20)) % 2

(* The channel interleave: one bit of the address, or its parity with some *)
(* others; above the bits that select the node when it is bit 12.          *)
Interleaved ==
  CASE DctSelIntLvAddr = {}     -> BitOf(SystemAddr, 6)
    [] DctSelIntLvAddr = {1}    -> (BitOf(SystemAddr, 6) + Parity) % 2
    [] DctSelIntLvAddr = {0, 1} -> (BitOf(SystemAddr, 9) + Parity) % 2
    [] OTHER -> BitOf(SystemAddr,
                      LET en == IntlvEn(DramRange)
                      IN  IF en = {} THEN 12 ELSE 13 + Max(en))

ChannelOf ==
  CASE DctGangEn       -> 0
    [] ~DctGangEn /\ HiRangeSelected -> DctSelHi
    [] ~DctGangEn /\ ~HiRangeSelected /\ DctSelIntLvEn -> Interleaved
    [] ~DctGangEn /\ ~HiRangeSelected /\ ~DctSelIntLvEn ->
         IF DctSelHiRngEn THEN 1 - DctSelHi ELSE 0

AboveHole == 0 \in DramHole /\ Shr(SystemAddr, 32) # {}

ChannelOffset ==
  IF HiRangeSelected
  THEN IF DctSelBaseAddr \cap (16 .. 31) = {} /\ AboveHole
       THEN HoleOffset ELSE DctSelBaseOffset
  ELSE IF AboveHole THEN HoleOffset ELSE DramBaseLong(DramRange) \cap (27 .. 47)

Normalized == Minus(SystemAddr \cap (6 .. 47), ChannelOffset \cap (23 .. 47), 64)

NodeRemoved ==
  (Shr(Normalized, Ilog(DramRange)) \cap (12 .. 47)) \cup (Normalized \cap (6 .. 11))

(* Fault: the bit is removed also from addresses above the interleaved     *)
(* ones.                                                                   *)
ChannelRemovedAlways(a) ==
  CASE ~DctSelIntLvEn -> a
    [] DctSelIntLvEn /\ 0 \notin DctSelIntLvAddr -> Shr(a, 1) \cap (6 .. 63)
    [] DctSelIntLvEn /\ DctSelIntLvAddr = {0} ->
         Shr(a \cap (13 .. 63), 1) \cup (a \cap (6 .. 11))
    [] DctSelIntLvEn /\ DctSelIntLvAddr = {0, 1} ->
         Shr(a \cap (10 .. 63), 1) \cup (a \cap (6 .. 8))

ChannelRemoved(a) ==
  IF ~DctSelIntLvEn \/ HiRangeSelected \/ DctGangEn THEN a
  ELSE CASE 0 \notin DctSelIntLvAddr  -> Shr(a, 1) \cap (6 .. 63)
         [] DctSelIntLvAddr = {0}     -> Shr(a \cap (13 .. 63), 1) \cup (a \cap (6 .. 11))
         [] DctSelIntLvAddr = {0, 1}  -> Shr(a \cap (10 .. 63), 1) \cup (a \cap (6 .. 8))

-----------------------------------------------------------------------------
(* The chip select, from the channel's registers.                          *)

InputAddr == Shr(ChannelAddr, 8) \cap Bits(32)

CSReg(reg) == Get_PCI(device + NodeID, 2, reg + Channel * \h100)

CSBase(cs) == CSReg(\h40 + 4 * cs)

(* Fault: the mask is not cut to its 29 bits.                              *)
CSMaskWide(cs) == CSReg(\h60 + 4 * (cs \div 2)) \cup (0 .. 4) \cup (14 .. 18)

CSMask(cs) ==
  (CSReg(\h60 + 4 * (cs \div 2)) \cup (0 .. 4) \cup (14 .. 18)) \cap Bits(29)

Selects(cs) ==
  /\ 0 \in CSBase(cs)
  /\ InputAddr \ CSMask(cs) =
       (CSBase(cs) \cap ((5 .. 13) \cup (19 .. 28))) \ CSMask(cs)

Selecting == {cs \in 0 .. 7 : Selects(cs)}

(* A rank the online spare has taken over: CH0SPARE_RANK, CH1SPARE_RANK.   *)
Spared(cs) ==
  LET OnlineSpareCTL == Get_PCI(device + NodeID, 3, \hB0)
      taken(done, lo) == /\ done \in OnlineSpareCTL
                         /\ cs = Number(Field(OnlineSpareCTL, lo, lo + 2))
  IN  CASE Channel > 0 /\ taken(3, 8) -> -2
        [] Channel = 0 /\ taken(1, 4) -> -1
        [] OTHER -> cs

-----------------------------------------------------------------------------
(* A turn of the loop over the ranges that ends in continue, or the end of *)
(* the loop.                                                               *)
NextRange ==
  /\ pc = "range" /\ Readable(device)
  /\ DramRange < 8 => ~Matches(DramRange, SystemAddr)
  /\ IF DramRange < 8 THEN DramRange' = DramRange + 1 /\ UNCHANGED pc
                      ELSE pc' = "unmapped" /\ UNCHANGED DramRange
  /\ UNCHANGED <<pci, addr, SystemAddr, node, earlier>>

(* One that does not, up to the region swap.                               *)
EnterRange ==
  /\ pc = "range" /\ Readable(device)
  /\ DramRange < 8 /\ Matches(DramRange, SystemAddr)
  /\ NodeID' = NodeOf(DramRange)
  /\ Readable(device + NodeID')
  /\ SystemAddr' = Swapped(NodeID', SystemAddr)
  /\ pc' = "channel"
  /\ UNCHANGED <<pci, addr, DramRange, Channel, CS, ChannelAddr, earlier>>

Normalize ==
  /\ pc = "channel"
  /\ Channel' = ChannelOf
  /\ ChannelAddr' = ChannelRemoved(NodeRemoved)
  /\ pc' = "chip"
  /\ UNCHANGED <<pci, addr, SystemAddr, DramRange, NodeID, CS, earlier>>

FindChipSelect ==
  /\ pc = "chip"
  /\ \/ /\ Selecting # {}
        /\ CS' = Spared(Min(Selecting))
        /\ pc' = "found"
        /\ UNCHANGED DramRange
     \/ /\ Selecting = {}
        /\ CS' = 8
        /\ DramRange' = DramRange + 1
        /\ pc' = "range"
  /\ UNCHANGED <<pci, addr, SystemAddr, NodeID, Channel, ChannelAddr, earlier>>

(* err(1, "ioctl(PCIOCREAD)") for a northbridge that is not there.         *)
ReadFails ==
  /\ pc = "range"
  /\ \/ ~Readable(device)
     \/ /\ DramRange < 8 /\ Matches(DramRange, SystemAddr)
        /\ ~Readable(device + NodeOf(DramRange))
  /\ pc' = "failed"
  /\ UNCHANGED <<pci, addr, SystemAddr, DramRange, node, earlier>>

Next ==
  Ask \/ Again \/ NextRange \/ EnterRange \/ Normalize \/ FindChipSelect \/ ReadFails

Spec == Init /\ [][Next]_vars

-----------------------------------------------------------------------------
(* What the firmware of a machine meant by its registers: m.dram is where  *)
(* the memory is and m.hole what it was hoisted over, as intervals of      *)
(* addresses; m.low, m.high and m.base are the regions it exchanged.       *)
In(a, intervals) == \E i \in intervals : ~Less(a, i[1]) /\ ~Less(i[2], a)

Place == <<NodeID, Channel, CS, ChannelAddr>>

EarlierPlace == <<earlier.node, earlier.channel, earlier.cs, earlier.cell>>

BothFound == pc = "found" /\ earlier # NoAnswer /\ earlier.found

(* No two blocks of the memory (of 64 bytes: the decoder drops the bits    *)
(* below) are decoded to the same place: the swap, the hoisting and the    *)
(* removal of the interleave bits lose none, together with the node, the   *)
(* channel and the rank that are printed.                                  *)
Unique ==
  BothFound /\ earlier.machine = machine
  /\ earlier.addr \cap (6 .. 63) # addr \cap (6 .. 63)
  /\ In(addr, machine.dram) /\ In(earlier.addr, machine.dram)
    => Place # EarlierPlace

(* Every address of the memory is found, and, but for those in the hole    *)
(* below 4 GB, which the decoder takes for memory, no other is.            *)
Mapped ==
  opens /\ ~In(addr, machine.hole) =>
    /\ pc = "found" => In(addr, machine.dram)
    /\ pc = "unmapped" => ~In(addr, machine.dram)

(* An address in one of two exchanged regions is decoded to the place that *)
(* its partner has when the same machine is set up without the exchange;   *)
(* every other address, to the place it has there itself.  The code keeps  *)
(* 32 bits of the distance, so that regions 4 GB apart are not exchanged.  *)
Partner(m, a) ==
  IF In(a, m.low) THEN a \cup (m.base \cap Bits(32))
  ELSE IF In(a, m.high) THEN a \ (m.base \cap Bits(32)) ELSE a

SwapExchanges ==
  BothFound /\ <<earlier.machine, machine>> \in Reboots
  /\ addr = Partner(earlier.machine, earlier.addr)
    => Place = EarlierPlace

(* Without /dev/pci every register is read as -1, all of whose bits are    *)
(* set; a range is enabled then, but no address is ever given a place.     *)
UnopenedNothing == pc = "found" => opens
=============================================================================
