------------------------- MODULE NorthbridgeProofs -------------------------
(***************************************************************************)
(* Proofs about Northbridge for any machines, any addresses asked for and  *)
(* any reboots between two runs of the decoder.                            *)
(***************************************************************************)
EXTENDS Northbridge, FiniteSetTheorems, NaturalsInduction, WellFoundedInduction, TLAPS

-----------------------------------------------------------------------------
(* Words, as sets of the numbers of their one bits.                        *)

LEMMA InShr ==
  ASSUME NEW a, NEW c \in Int, NEW n \in Int, c \in a, c >= n
  PROVE  c - n \in Shr(a, n)
BY DEF Shr

LEMMA ShrBits ==
  ASSUME NEW a \in SUBSET Int, NEW n \in Int
  PROVE  \A x : x \in Shr(a, n) <=> x \in Int /\ x >= 0 /\ x + n \in a
BY DEF Shr

LEMMA InShl ==
  ASSUME NEW a \in SUBSET Int, NEW n \in Int, NEW w \in Int
  PROVE  \A x : x \in Shl(a, n, w) <=> x \in Int /\ x - n \in a /\ x < w
BY DEF Shl

(* A bit of the minuend above all those of the subtrahend is kept when a   *)
(* bit below it, above them as well, can be borrowed.                      *)
LEMMA KeptByMinus ==
  ASSUME NEW a \in SUBSET Int, NEW b \in SUBSET Int, NEW w \in Int,
         NEW k \in Int, NEW j \in Int,
         k \in a, j \in a, 0 <= k, k < w, j < k, \A i \in b : i < j
  PROVE  k \in Minus(a, b, w)
<1> DEFINE Below(c) == {i \in c : i < k}
<1>1. ~Less(Below(a), Below(b))
  <2>1. j \in Below(a) \ Below(b)
    OBVIOUS
  <2>2. \A i \in Below(b) : ~(j < i)
    OBVIOUS
  <2>3. QED
    BY <2>1, <2>2 DEF Less
<1>2. k \in Xor(a, b)
  BY DEF Xor
<1>3. k \in Bits(w)
  BY DEF Bits
<1>4. QED
  BY <1>1, <1>2, <1>3 DEF Minus

-----------------------------------------------------------------------------
(* The decoder without /dev/pci.                                           *)

LEMMA AllOnes == ~opens => \A dev, func, reg : Get_PCI(dev, func, reg) = Bits(64)
BY DEF Get_PCI

LEMMA OnesBase ==
  ASSUME ~opens, NEW r
  PROVE  \A x : x \in DramBaseLong(r) <=> x \in 24 .. 47
<1> DEFINE high == Shl(Bits(64) \cap Bits(8), 32, 64)
           word == high \cup (Bits(64) \cap (16 .. 31))
<1>1. DramBaseLong(r) = Shl(word, 8, 64)
  BY AllOnes DEF DramBaseLong, Long, RangeReg
<1>2. \A x : x \in high <=> x \in 32 .. 39
  BY InShl DEF Bits
<1> HIDE DEF high
<1>3. \A x : x \in word <=> x \in 16 .. 39
  BY <1>2 DEF Bits
<1> HIDE DEF word
<1>4. word \in SUBSET Int
  BY <1>3
<1>5. \A x : x \in Shl(word, 8, 64) <=> x \in Int /\ x - 8 \in word /\ x < 64
  BY <1>4, InShl
<1>6. QED
  BY <1>1, <1>3, <1>5

LEMMA OnesLimit ==
  ASSUME ~opens, NEW r
  PROVE  \A x : x \in DramLimitLong(r) <=> x \in 0 .. 47
<1> DEFINE high == Shl(Bits(64) \cap Bits(8), 32, 64)
           word == high \cup ((Bits(64) \cap Bits(32)) \cup Bits(16))
<1>1. DramLimitLong(r) = Shl(word, 8, 64) \cup Bits(8)
  BY AllOnes DEF DramLimitLong, Long, RangeReg
<1>2. \A x : x \in high <=> x \in 32 .. 39
  BY InShl DEF Bits
<1> HIDE DEF high
<1>3. \A x : x \in word <=> x \in 0 .. 39
  BY <1>2 DEF Bits
<1> HIDE DEF word
<1>4. word \in SUBSET Int
  BY <1>3
<1>5. \A x : x \in Shl(word, 8, 64) <=> x \in Int /\ x - 8 \in word /\ x < 64
  BY <1>4, InShl
<1>6. QED
  BY <1>1, <1>3, <1>5 DEF Bits

(* Every range seems to be the last 16 MB that 48 bits can address.        *)
LEMMA OnesMatch ==
  ASSUME ~opens, NEW r, NEW a \in Address, Matches(r, a)
  PROVE  32 \in a /\ 40 \in a /\ 47 \in a
<1>1. a \in SUBSET (0 .. 63)
  BY DEF Address, Bits
<1>2. ~Less(a, DramBaseLong(r)) /\ ~Less(DramLimitLong(r), a)
  BY DEF Matches
<1>3. a \in SUBSET (0 .. 47)
  <2>1. ASSUME NEW x \in a, x > 47 PROVE FALSE
    <3>1. x \in a \ DramLimitLong(r)
      BY <1>1, <2>1, OnesLimit
    <3>2. \A j \in DramLimitLong(r) \ a : j < x
      BY <1>1, <2>1, OnesLimit
    <3>3. QED
      BY <1>2, <3>1, <3>2 DEF Less
  <2>2. QED
    BY <1>1, <2>1
<1>4. ASSUME NEW k \in 24 .. 47, k \notin a PROVE FALSE
  <2>1. k \in DramBaseLong(r) \ a
    BY <1>4, OnesBase
  <2>2. \A j \in a \ DramBaseLong(r) : j < k
    BY <1>3, OnesBase
  <2>3. QED
    BY <1>2, <2>1, <2>2 DEF Less
<1>5. QED
  BY <1>4

(* No region swap reaches there.                                           *)
LEMMA OnesSwap ==
  ASSUME NEW n, NEW a, 47 \in a
  PROVE  Swapped(n, a) = a
<1>1. 47 - 34 \in Shr(a, 34)
  BY InShr
<1>2. Shr(a, 34) # {}
  BY <1>1
<1>3. QED
  BY <1>2, Zenon DEF Swapped

(* What is left of it when the hole has been taken away, and the three     *)
(* bits that select one of eight nodes.                                    *)
LEMMA OnesCell ==
  ASSUME ~opens, SystemAddr \in Address, 32 \in SystemAddr, 40 \in SystemAddr
  PROVE  37 \in ChannelRemoved(NodeRemoved)
<1>1. DctGangEn
  BY AllOnes DEF DctGangEn, DctSel, Bits
<1>2. ~HiRangeSelected
  BY <1>1 DEF HiRangeSelected
<1>3. AboveHole
  <2>1. 40 - 32 \in Shr(SystemAddr, 32)
    BY InShr
  <2>2. 0 \in DramHole
    BY AllOnes DEF DramHole, Bits
  <2>3. QED
    BY <2>1, <2>2 DEF AboveHole
<1>4. ChannelOffset = HoleOffset
  BY <1>2, <1>3 DEF ChannelOffset
<1>5. \A x \in HoleOffset : x \in Int /\ x < 32
  <2>1. DramHole \cap (7 .. 15) \in SUBSET Int
    OBVIOUS
  <2>2. QED
    BY <2>1, InShl DEF HoleOffset
<1>6. 40 \in Normalized
  <2> DEFINE a == SystemAddr \cap (6 .. 47)
             b == ChannelOffset \cap (23 .. 47)
  <2>1. a \in SUBSET Int /\ b \in SUBSET Int /\ 40 \in a /\ 32 \in a
    OBVIOUS
  <2>2. \A i \in b : i < 32
    BY <1>4, <1>5
  <2>3. Normalized = Minus(a, b, 64)
    BY DEF Normalized
  <2> HIDE DEF a, b
  <2>4. QED
    BY <2>1, <2>2, <2>3, KeptByMinus
<1>7. Ilog(DramRange) = 3
  <2>1. \A x : x \in Bits(64) \cap (8 .. 10) <=> x \in {8, 9, 10}
    BY DEF Bits
  <2>2. \A x : x \in Field(Bits(64), 8, 10) <=> x \in {0, 1, 2}
    <3>1. Bits(64) \cap (8 .. 10) \in SUBSET Int
      BY <2>1
    <3>2. QED
      BY <2>1, <3>1, ShrBits DEF Field
  <2>3. IntlvEn(DramRange) = {0, 1, 2}
    BY <2>2, AllOnes DEF IntlvEn, RangeReg
  <2>4. {0, 1, 2} # {0} /\ {0, 1, 2} # {0, 1}
    OBVIOUS
  <2>5. QED
    BY <2>3, <2>4, Zenon DEF Ilog
<1>8. 37 \in NodeRemoved
  <2>1. 40 - 3 \in Shr(Normalized, 3)
    BY <1>6, InShr
  <2>2. 37 \in Shr(Normalized, Ilog(DramRange))
    BY <1>7, <2>1
  <2>3. QED
    BY <2>2 DEF NodeRemoved
<1>9. QED
  BY <1>1, <1>8 DEF ChannelRemoved

(* The mask of a chip select covers 29 bits, and the address has one more. *)
LEMMA OnesChip ==
  ASSUME 37 \in ChannelAddr
  PROVE  Selecting = {}
<1>1. 29 \in InputAddr
  <2>1. 37 - 8 \in Shr(ChannelAddr, 8)
    BY InShr
  <2>2. QED
    BY <2>1 DEF InputAddr, Bits
<1>2. ASSUME NEW cs \in 0 .. 7 PROVE ~Selects(cs)
  <2>1. 29 \notin CSMask(cs)
    BY DEF CSMask, Bits
  <2>2. 29 \notin (CSBase(cs) \cap ((5 .. 13) \cup (19 .. 28))) \ CSMask(cs)
    OBVIOUS
  <2>3. QED
    BY <1>1, <2>1, <2>2 DEF Selects
<1>3. QED
  BY <1>2 DEF Selecting

-----------------------------------------------------------------------------
(* Of what the decoder does without /dev/pci: an address that gets as far  *)
(* as a channel has the bits 32, 40 and 47, and 37 is left in the channel. *)
Unplaced ==
  ~opens =>
    /\ pc # "found"
    /\ pc \in {"range", "channel", "chip"} => SystemAddr \in Address
    /\ pc = "channel" => 32 \in SystemAddr /\ 40 \in SystemAddr
    /\ pc = "chip" => 37 \in ChannelAddr

Set == machine \in Machines /\ opens \in BOOLEAN

LEMMA SetInit == NbInit => Set
BY DEF NbInit, Init, PciInit, Set

LEMMA SetKept == Set /\ [NbNext]_<<vars, eccVars>> => Set'
<1> SUFFICES ASSUME Set, [NbNext]_<<vars, eccVars>> PROVE Set'
  OBVIOUS
<1>1. CASE UNCHANGED <<machine, opens>>
  BY <1>1 DEF Set
<1>2. CASE Again
  BY <1>2, RebootsAssumption DEF Again, Set
<1>3. CASE EccNext
  BY <1>1, <1>3 DEF EccNext, print_nb_cap, print_nb_mca_cfg, print_dct_cfg, Say,
                    EccFails, pci
<1>4. CASE Next
  BY <1>1, <1>2, <1>4 DEF Next, Ask, NextRange, EnterRange, Normalize,
                          FindChipSelect, ReadFails, pci
<1>5. QED
  BY <1>1, <1>3, <1>4 DEF NbNext, vars, pci

LEMMA UnplacedInit == NbInit => Unplaced
BY DEF NbInit, Init, Unplaced

LEMMA UnplacedKept ==
  Set /\ Unplaced /\ [NbNext]_<<vars, eccVars>> => Unplaced'
<1> SUFFICES ASSUME Set, Unplaced, [NbNext]_<<vars, eccVars>>, ~opens'
             PROVE  Unplaced'
  BY DEF Unplaced
<1>1. CASE UNCHANGED vars \/ (EccNext /\ UNCHANGED decodeVars)
  <2>1. UNCHANGED <<opens, pc, SystemAddr, ChannelAddr>>
    BY <1>1 DEF vars, decodeVars, node, pci, EccNext, print_nb_cap,
                print_nb_mca_cfg, print_dct_cfg, Say, EccFails
  <2>2. QED
    BY <2>1 DEF Unplaced
<1>2. CASE Ask
  <2>1. /\ \E q \in Asked[machine] : addr' = q[1] \/ addr' = q[2]
        /\ SystemAddr' = addr' /\ pc' = "range"
    BY <1>2 DEF Ask
  <2>2. addr' \in Address
    BY <2>1, AskedAssumption DEF Set
  <2>3. QED
    BY <2>1, <2>2 DEF Unplaced
<1>3. CASE Again
  BY <1>3 DEF Again, Unplaced
<1>4. CASE NextRange
  BY <1>4 DEF NextRange, Unplaced, pci
<1>5. CASE EnterRange
  <2>1. /\ pc = "range" /\ pc' = "channel" /\ opens' = opens
        /\ Matches(DramRange, SystemAddr)
        /\ SystemAddr' = Swapped(NodeID', SystemAddr)
    BY <1>5 DEF EnterRange, pci
  <2>2. SystemAddr \in Address
    BY <2>1 DEF Unplaced
  <2>3. 32 \in SystemAddr /\ 40 \in SystemAddr /\ 47 \in SystemAddr
    BY <2>1, <2>2, OnesMatch
  <2>4. SystemAddr' = SystemAddr
    BY <2>1, <2>3, OnesSwap
  <2>5. QED
    BY <2>1, <2>2, <2>3, <2>4 DEF Unplaced
<1>6. CASE Normalize
  <2>1. /\ pc = "channel" /\ pc' = "chip"
        /\ UNCHANGED <<opens, SystemAddr>>
        /\ ChannelAddr' = ChannelRemoved(NodeRemoved)
    BY <1>6 DEF Normalize, pci
  <2>2. 37 \in ChannelAddr'
    BY <2>1, OnesCell DEF Unplaced
  <2>3. QED
    BY <2>1, <2>2 DEF Unplaced
<1>7. CASE FindChipSelect
  <2>1. pc = "chip" /\ UNCHANGED <<opens, SystemAddr>>
    BY <1>7 DEF FindChipSelect, pci
  <2>2. Selecting = {}
    BY <2>1, OnesChip DEF Unplaced
  <2>3. pc' = "range"
    BY <1>7, <2>2 DEF FindChipSelect
  <2>4. QED
    BY <2>1, <2>3 DEF Unplaced
<1>8. CASE ReadFails
  BY <1>8 DEF ReadFails, Unplaced, pci
<1>9. QED
  BY <1>1, <1>2, <1>3, <1>4, <1>5, <1>6, <1>7, <1>8 DEF NbNext, Next, vars

(* Without /dev/pci a range is enabled and has addresses, but whatever     *)
(* address is asked for, no node, channel or chip select is ever printed.  *)
THEOREM UnopenedNothingAlways == NbSpec => []UnopenedNothing
<1>1. NbInit => Set /\ Unplaced
  BY SetInit, UnplacedInit
<1>2. Set /\ Unplaced /\ [NbNext]_<<vars, eccVars>> => (Set /\ Unplaced)'
  BY SetKept, UnplacedKept
<1>3. Unplaced => UnopenedNothing
  BY DEF Unplaced, UnopenedNothing
<1>4. QED
  BY <1>1, <1>2, <1>3, PTL DEF NbSpec

-----------------------------------------------------------------------------
(* The scrubber's speed.                                                   *)

Periods == {40, 80, 160, 320, 640, 1280,
            2560, 5120, 10240, 20480, 40960, 81920,
            163840, 327680, 655360, 1310720, 2621440, 5242880,
            10485760, 20971520, 41943040, 83886080}

TwoTo(n) == 2 ^ n

LEMMA PeriodOf ==
  ASSUME NEW rate \in 1 .. 22
  PROVE  40 * TwoTo(rate - 1) \in Periods
<1>1. /\ TwoTo(0) = 1 /\ TwoTo(1) = 2 /\ TwoTo(2) = 4
      /\ TwoTo(3) = 8 /\ TwoTo(4) = 16 /\ TwoTo(5) = 32
      /\ TwoTo(6) = 64 /\ TwoTo(7) = 128 /\ TwoTo(8) = 256
      /\ TwoTo(9) = 512 /\ TwoTo(10) = 1024 /\ TwoTo(11) = 2048
      /\ TwoTo(12) = 4096 /\ TwoTo(13) = 8192 /\ TwoTo(14) = 16384
      /\ TwoTo(15) = 32768 /\ TwoTo(16) = 65536 /\ TwoTo(17) = 131072
      /\ TwoTo(18) = 262144 /\ TwoTo(19) = 524288 /\ TwoTo(20) = 1048576
      /\ TwoTo(21) = 2097152
  BY DEF TwoTo
<1>2. \A k \in 0 .. 21 : 40 * TwoTo(k) \in Periods
  BY <1>1 DEF Periods
<1>3. rate - 1 \in 0 .. 21
  OBVIOUS
<1>4. QED
  BY <1>2, <1>3

(* What the two integer divisions leave of the speed.                      *)
Lossless(period, speed, seconds) ==
  /\ 900000000 <= (speed \div 64) * period
  /\ (speed \div 64) * period <= 1000000000
  /\ seconds * (speed \div 64) <= 16777216
  /\ 16777216 < (seconds + 1) * (speed \div 64)

LEMMA SpeedOf ==
  ASSUME NEW period \in Periods, NEW speed, NEW seconds,
         speed = (1000000000 \div period) * 64,
         seconds = 1073741824 \div speed
  PROVE  Lossless(period, speed, seconds)
BY SMT DEF Periods, Lossless

-----------------------------------------------------------------------------
(* The claims of the report, group by group.                               *)

Speed(c) ==
  c[1] = "scrub" =>
    c[2] \in 1 .. 22 /\ Lossless(40 * 2 ^ (c[2] - 1), c[3], c[4])

Quiet(c) == c[1] # "scrub" /\ ~(c[1] = "DCT" /\ c[3] = "enabled")

(* What a claim may say, with and without /dev/pci.                        *)
Fair(c) == Speed(c) /\ (~opens => Quiet(c))

LEMMA Plain == ASSUME NEW c, c[1] # "scrub", c[1] # "DCT" PROVE Fair(c)
BY DEF Fair, Speed, Quiet

LEMMA NumberRange == ASSUME NEW a PROVE Number(a) \in 0 .. 255
BY DEF Number

LEMMA ScrubFair ==
  ASSUME NEW rate \in 0 .. 255, ~opens => rate = 255
  PROVE  Fair(DramScrub(rate))
<1>1. CASE rate = 0
  <2>1. DramScrub(rate) = <<"scrub disabled">>
    BY <1>1 DEF DramScrub
  <2>2. QED
    BY <2>1, Plain
<1>2. CASE rate > 22
  <2>1. rate # 0
    BY <1>2
  <2>2. DramScrub(rate) = <<"scrub invalid">>
    BY <1>2, <2>1, Zenon DEF DramScrub
  <2>3. QED
    BY <2>2, Plain
<1>3. CASE rate \in 1 .. 22
  <2> DEFINE period == 40 * 2 ^ (rate - 1)
             c == DramScrub(rate)
  <2>1. period \in Periods
    BY <1>3, PeriodOf DEF TwoTo
  <2>2. c = ScrubClaim(rate, period)
    <3>1. rate # 0 /\ ~(rate > 22)
      BY <1>3
    <3>2. QED
      BY <3>1, Zenon DEF DramScrub
  <2> HIDE DEF c, period
  <2>3. PICK speed, seconds :
          c = <<"scrub", rate, speed, seconds>> /\ Lossless(period, speed, seconds)
    <3> DEFINE speed == (1000000000 \div period) * 64
               seconds == 1073741824 \div speed
    <3>1. c = <<"scrub", rate, speed, seconds>>
      BY <2>2, SMT DEF ScrubClaim
    <3>2. Lossless(period, speed, seconds)
      BY <2>1, SpeedOf, SMT
    <3> HIDE DEF speed, seconds
    <3>3. QED
      BY <3>1, <3>2
  <2>4. c[2] = rate /\ c[3] = speed /\ c[4] = seconds
    BY <2>3
  <2>5. period = 40 * 2 ^ (c[2] - 1)
    BY <2>4 DEF period
  <2>6. Speed(c)
    BY <1>3, <2>3, <2>4, <2>5 DEF Speed
  <2>7. opens
    BY <1>3
  <2>8. QED
    BY <2>6, <2>7 DEF Fair, c
<1>4. QED
  BY <1>1, <1>2, <1>3

LEMMA YesFair ==
  \A claim, bit, word :
    claim # "scrub" /\ claim # "DCT" => Fair(Yes(claim, bit, word))
BY Plain DEF Yes

LEMMA CapFair == \A c \in NbCap \cup DctCfg : Fair(c)
<1> DEFINE cap == get_pci(3, \hE8)
           cfg == get_pci(2, \h110)
<1> SUFFICES ASSUME NEW c \in NbCap \cup DctCfg PROVE Fair(c)
  OBVIOUS
<1>1. CASE c \in NbCap
  <2>1. c = Yes("NB ECC", 3, cap) \/ c = Yes("NB chipkill", 4, cap)
    BY <1>1 DEF NbCap
  <2> HIDE DEF cap
  <2>2. QED
    BY <2>1, YesFair
<1>2. CASE c \in DctCfg
  <2>1. \/ c = Yes("cleared", 10, cfg) \/ c = Yes("ganged", 4, cfg)
        \/ c = Yes("data interleave", 5, cfg) \/ c = Yes("controller interleave", 2, cfg)
    BY <1>2 DEF DctCfg
  <2> HIDE DEF cfg
  <2>2. QED
    BY <2>1, YesFair
<1>3. QED
  BY <1>1, <1>2

LEMMA McaFair == \A c \in NbMcaCfg : Fair(c)
<1> DEFINE cfg == get_pci(3, \h44)
           ext == get_pci(3, \h180)
           word == get_pci(3, \h58) \cap Bits(8)
           rate == Number(word)
<1> SUFFICES ASSUME NEW c \in NbMcaCfg PROVE Fair(c)
  OBVIOUS
<1>1. \/ c = DramScrub(rate)
      \/ c \in {Yes("DRAM ECC", 22, cfg), Yes("chipkill", 23, cfg),
                Yes("sync flood", 2, cfg), Yes("x8 symbols", 25, ext)}
  BY DEF NbMcaCfg
<1>2. CASE c = DramScrub(rate)
  <2>1. rate \in 0 .. 255
    BY NumberRange
  <2>2. ASSUME ~opens PROVE rate = 255
    <3>1. \A b \in 0 .. 7 : b \in word
      BY <2>2, AllOnes DEF get_pci, Bits
    <3> HIDE DEF word
    <3>2. QED
      BY <3>1 DEF Number
  <2> HIDE DEF rate
  <2>3. QED
    BY <1>2, <2>1, <2>2, ScrubFair
<1>3. CASE c \in {Yes("DRAM ECC", 22, cfg), Yes("chipkill", 23, cfg),
                  Yes("sync flood", 2, cfg), Yes("x8 symbols", 25, ext)}
  BY <1>3, YesFair
<1>4. QED
  BY <1>1, <1>2, <1>3

Claim(what, i, value) == <<what, i, value>>

LEMMA ClaimFair ==
  \A what, i, value :
    what # "scrub" /\ what # "DCT" => Fair(Claim(what, i, value))
BY Plain DEF Claim

LEMMA DctFair == ASSUME NEW i PROVE \A c \in Dct(i) : Fair(c)
<1> SUFFICES ASSUME NEW c \in Dct(i) PROVE Fair(c)
  OBVIOUS
<1> DEFINE low  == get_dct_x_cfg(i, FALSE)
           high == get_dct_x_cfg(i, TRUE)
<1>1. CASE 14 \in high
  <2>1. c = <<"DCT", i, "disabled">>
    BY <1>1 DEF Dct
  <2>2. QED
    BY <2>1 DEF Fair, Speed, Quiet
<1>2. CASE 14 \notin high
  <2>1. opens
    BY <1>2, AllOnes DEF get_dct_x_cfg, get_pci, Bits
  <2>2. \/ c = <<"DCT", i, "enabled">>
        \/ c = Claim("DIMM ECC", i, 19 \in low)
        \/ c = Claim("UDIMM", i, 16 \in low)
        \/ c = Claim("x4 mask", i, Number(Field(low, 12, 15)))
        \/ c = Claim("128 bit", i, 11 \in low)
        \/ c = Claim("ODT disabled", i, 23 \in high)
        \/ c = Claim("bank swizzle", i, 22 \in high)
        \/ c = Claim("2T", i, 20 \in high)
        \/ c = Claim("power-down", i, 15 \in high)
        \/ c = Claim("CS power-down", i, 16 \in high)
        \/ c = Claim("DDR3", i, 8 \in high)
        \/ \E f : c = Claim("MHz", i, f)
        \/ \E d : c = Claim("CS", i, d)
    BY <1>2, Zenon DEF Dct, Claim
  <2>3. CASE c = <<"DCT", i, "enabled">>
    BY <2>1, <2>3 DEF Fair, Speed
  <2>4. CASE c # <<"DCT", i, "enabled">>
    BY <2>2, <2>4, ClaimFair
  <2>5. QED
    BY <2>3, <2>4
<1>3. QED
  BY <1>1, <1>2

AllFair == \A c \in report : Fair(c)

LEMMA AllFairKept == AllFair /\ [NbNext]_<<vars, eccVars>> => AllFair'
<1> SUFFICES ASSUME AllFair, [NbNext]_<<vars, eccVars>> PROVE AllFair'
  OBVIOUS
<1>1. CASE UNCHANGED <<vars, eccVars>> \/ (Next /\ UNCHANGED eccVars)
  <2>1. UNCHANGED <<opens, report>>
    BY <1>1 DEF vars, pci, eccVars, Next, Ask, Again, NextRange, EnterRange, Normalize,
                FindChipSelect, ReadFails
  <2>2. QED
    BY <2>1 DEF AllFair, Fair, Speed, Quiet
<1>2. ASSUME NEW at, NEW claims, NEW next, Say(at, claims, next), \A c \in claims : Fair(c)
      PROVE  AllFair'
  <2>1. report' = report \cup claims /\ opens' = opens
    BY <1>2 DEF Say, pci
  <2>2. QED
    BY <1>2, <2>1 DEF AllFair, Fair, Speed, Quiet
<1>3. CASE EccNext
  <2>1. CASE EccFails
    <3>1. UNCHANGED <<opens, report>>
      BY <2>1 DEF EccFails, pci
    <3>2. QED
      BY <3>1 DEF AllFair, Fair, Speed, Quiet
  <2>2. CASE print_nb_cap
    BY <2>2, <1>2, CapFair DEF print_nb_cap
  <2>3. CASE print_nb_mca_cfg
    BY <2>3, <1>2, McaFair DEF print_nb_mca_cfg
  <2>4. CASE Say("dct", DctCfg, "dct 0")
    BY <2>4, <1>2, CapFair
  <2>5. CASE Say("dct 0", Dct(0), "dct 1")
    BY <2>5, <1>2, DctFair
  <2>6. CASE Say("dct 1", Dct(1), "printed")
    BY <2>6, <1>2, DctFair
  <2>7. QED
    BY <1>3, <2>1, <2>2, <2>3, <2>4, <2>5, <2>6 DEF EccNext, print_dct_cfg
<1>4. QED
  BY <1>1, <1>3 DEF NbNext

LEMMA AllFairAlways == NbSpec => []AllFair
<1>1. NbInit => AllFair
  BY DEF NbInit, EccInit, AllFair
<1>2. QED
  BY <1>1, AllFairKept, PTL DEF NbSpec

(* A report that shows a scrubber's speed or an enabled controller was     *)
(* read from the hardware: -1 in every register says neither.              *)
THEOREM TellTaleAlways == NbSpec => []TellTale
<1>1. AllFair => TellTale
  BY DEF AllFair, Fair, Quiet, TellTale
<1>2. QED
  BY <1>1, AllFairAlways, PTL

(* The speed printed for any of the 22 rates, and the seconds, lose no     *)
(* more than a tenth to the integer divisions.                             *)
THEOREM ScrubSpeedAlways == NbSpec => []ScrubSpeed
<1>1. AllFair => ScrubSpeed
  BY SMT DEF AllFair, Fair, Speed, Lossless, ScrubSpeed
<1>2. QED
  BY <1>1, AllFairAlways, PTL

-----------------------------------------------------------------------------
(* What the report says of the chip selects, and which of them are found.  *)

Listed(i) ==
  \A c \in 0 .. 7 : HasBit(machine, 0, ChipSelect(i, c)) =>
    <<"CS", i, c>> \in report /\ <<"DCT", i, "enabled">> \in report

(* The decoder runs after the report, and not at all when that has failed. *)
Order ==
  /\ step \notin {"printed", "failed"} => pc = "ask"
  /\ step = "failed" => opens /\ 24 \notin machine.devices
                        /\ pc \in {"ask", "range", "failed"}

Lists ==
  opens => /\ step \in {"dct 1", "printed"} => Listed(0)
           /\ step = "printed" => Listed(1)

(* The chip select found is one of the 8 of its channel, and enabled.      *)
Chosen ==
  /\ pc \in {"chip", "found"} => Channel \in {0, 1}
  /\ pc = "found" /\ CS >= 0 => CS \in 0 .. 7 /\ 0 \in CSBase(CS)

LEMMA ReadBit ==
  ASSUME opens, NEW dev, NEW func, NEW reg, NEW b
  PROVE  b \in Get_PCI(dev, func, reg) <=> HasBit(machine, b, <<dev, func, reg>>)
BY DEF Get_PCI, HasBit

LEMMA DctLists ==
  ASSUME opens, Set, NEW i \in {0, 1}, NEW c \in 0 .. 7,
         HasBit(machine, 0, ChipSelect(i, c))
  PROVE  <<"CS", i, c>> \in Dct(i) /\ <<"DCT", i, "enabled">> \in Dct(i)
<1>1. 0 \in get_cs_cfg(i, c)
  <2>1. \h40 + i * \h100 + c * 4 = \h40 + i * \h100 + 4 * c
    OBVIOUS
  <2>2. 0 \in Get_PCI(24, 2, \h40 + i * \h100 + c * 4)
    BY <2>1, ReadBit DEF ChipSelect
  <2>3. QED
    BY <2>2 DEF get_cs_cfg, get_pci, Bits
<1>2. 14 \notin get_dct_x_cfg(i, TRUE)
  <2>1. ~HasBit(machine, 14, DctConfigHigh(i))
    BY DisabledAssumption DEF Set
  <2>2. \h90 + i * \h100 + 4 = \h94 + i * \h100
    OBVIOUS
  <2>3. 14 \notin Get_PCI(24, 2, \h90 + i * \h100 + 4)
    BY <2>1, <2>2, ReadBit DEF DctConfigHigh
  <2>4. QED
    BY <2>3, Zenon DEF get_dct_x_cfg, get_pci
<1>3. QED
  BY <1>1, <1>2, Zenon DEF Dct

LEMMA ListsKept ==
  Set /\ Order /\ Lists /\ [NbNext]_<<vars, eccVars>> => Lists'
<1> SUFFICES ASSUME Set, Order, Lists, [NbNext]_<<vars, eccVars>>, opens'
             PROVE  Lists'
  BY DEF Lists
<1>1. CASE UNCHANGED <<machine, opens, step, report>>
  BY <1>1 DEF Lists, Listed
<1>2. CASE Again /\ UNCHANGED eccVars
  <2>1. machine' = machine \/ <<machine, machine'>> \in Reboots
    BY <1>2 DEF Again
  <2>2. \A i \in {0, 1}, c \in 0 .. 7 :
          HasBit(machine', 0, ChipSelect(i, c)) => HasBit(machine, 0, ChipSelect(i, c))
    <3>1. CASE machine' = machine
      BY <3>1
    <3>2. CASE <<machine, machine'>> \in Reboots
      <4> DEFINE p == <<machine, machine'>>
      <4>1. p \in Reboots /\ p[1] = machine /\ p[2] = machine'
        BY <3>2
      <4> HIDE DEF p
      <4>2. \A i \in {0, 1}, c \in 0 .. 7 :
              HasBit(p[1], 0, ChipSelect(i, c)) <=> HasBit(p[2], 0, ChipSelect(i, c))
        BY <4>1, RebootAssumption
      <4>3. QED
        BY <4>1, <4>2
    <3>3. QED
      BY <2>1, <3>1, <3>2
  <2>3. opens' = opens /\ step' = step /\ report' = report
    BY <1>2 DEF Again, eccVars
  <2>4. \A i \in {0, 1} : Listed(i) => Listed(i)'
    <3> SUFFICES ASSUME NEW i \in {0, 1}, Listed(i) PROVE Listed(i)'
      OBVIOUS
    <3>1. ASSUME NEW c \in 0 .. 7, HasBit(machine', 0, ChipSelect(i, c))
          PROVE  <<"CS", i, c>> \in report /\ <<"DCT", i, "enabled">> \in report
      BY <2>2, <3>1 DEF Listed
    <3>2. Listed(i)' <=> \A c \in 0 .. 7 : HasBit(machine', 0, ChipSelect(i, c)) =>
                           <<"CS", i, c>> \in report' /\ <<"DCT", i, "enabled">> \in report'
      BY DEF Listed, ChipSelect
    <3>3. QED
      BY <2>3, <3>1, <3>2
  <2>5. QED
    BY <2>3, <2>4 DEF Lists
<1>3. CASE EccNext
  <2>1. opens' = opens /\ machine' = machine /\ report \subseteq report'
    BY <1>3 DEF EccNext, print_nb_cap, print_nb_mca_cfg, print_dct_cfg, Say, EccFails, pci
  <2>2. \A i : Listed(i) => Listed(i)'
    BY <2>1 DEF Listed, ChipSelect
  <2>3. CASE Say("dct 0", Dct(0), "dct 1")
    <3>1. report' = report \cup Dct(0) /\ step' = "dct 1"
      BY <2>3 DEF Say
    <3>2. Listed(0)'
      BY <2>1, <3>1, DctLists DEF Listed, ChipSelect
    <3>3. QED
      BY <3>1, <3>2 DEF Lists
  <2>4. CASE Say("dct 1", Dct(1), "printed")
    <3>1. report' = report \cup Dct(1) /\ step = "dct 1"
      BY <2>4 DEF Say
    <3>2. Listed(1)'
      BY <2>1, <3>1, DctLists DEF Listed, ChipSelect
    <3>3. Listed(0)'
      BY <2>1, <2>2, <3>1 DEF Lists
    <3>4. QED
      BY <3>2, <3>3 DEF Lists
  <2>5. CASE step' \notin {"dct 1", "printed"}
    BY <2>5 DEF Lists
  <2>6. QED
    BY <1>3, <2>3, <2>4, <2>5
    DEF EccNext, print_nb_cap, print_nb_mca_cfg, print_dct_cfg, Say, EccFails
<1>4. CASE Next /\ UNCHANGED eccVars /\ ~Again
  BY <1>1, <1>4 DEF Next, Ask, NextRange, EnterRange, Normalize, FindChipSelect,
                    ReadFails, pci, eccVars
<1>5. QED
  BY <1>1, <1>2, <1>3, <1>4 DEF NbNext, vars, pci, eccVars

LEMMA OrderKept == Set /\ Order /\ [NbNext]_<<vars, eccVars>> => Order'
<1> SUFFICES ASSUME Set, Order, [NbNext]_<<vars, eccVars>> PROVE Order'
  OBVIOUS
<1>1. CASE UNCHANGED <<vars, eccVars>>
  BY <1>1 DEF Order, vars, pci, eccVars
<1>2. CASE EccNext /\ UNCHANGED decodeVars
  <2>1. pc' = pc /\ machine' = machine /\ opens' = opens
    BY <1>2 DEF decodeVars, EccNext, print_nb_cap, print_nb_mca_cfg, print_dct_cfg,
                Say, EccFails, pci
  <2>2. step \notin {"printed", "failed"}
    BY <1>2 DEF EccNext, print_nb_cap, print_nb_mca_cfg, print_dct_cfg, Say, EccFails
  <2>3. step' = "failed" => opens /\ 24 \notin machine.devices
    BY <1>2 DEF EccNext, print_nb_cap, print_nb_mca_cfg, print_dct_cfg, Say, EccFails,
                Readable
  <2>4. QED
    BY <2>1, <2>2, <2>3 DEF Order
<1>3. CASE step \in {"printed", "failed"} /\ Next /\ UNCHANGED eccVars
  <2>1. step' = step
    BY <1>3 DEF eccVars
  <2>2. CASE step = "printed"
    BY <2>1, <2>2 DEF Order
  <2>3. CASE step = "failed"
    <3>1. opens /\ 24 \notin machine.devices /\ pc \in {"ask", "range", "failed"}
      BY <2>3 DEF Order
    <3>2. ~Readable(device)
      BY <3>1 DEF Readable, device
    <3>3. Ask \/ ReadFails
      BY <1>3, <3>1, <3>2
      DEF Next, Again, NextRange, EnterRange, Normalize, FindChipSelect
    <3>4. machine' = machine /\ opens' = opens /\ pc' \in {"range", "failed"}
      BY <3>3 DEF Ask, ReadFails, pci
    <3>5. QED
      BY <2>1, <2>3, <3>1, <3>4 DEF Order
  <2>4. QED
    BY <1>3, <2>2, <2>3
<1>4. QED
  BY <1>1, <1>2, <1>3 DEF NbNext

-----------------------------------------------------------------------------
(* The channel and the chip select.                                        *)

LEMMA ParityInt == Parity \in Int
<1>1. IsFiniteSet(16 .. 20)
  <2>1. \A a, b \in Int : IsFiniteSet(a .. b)
    BY FS_Interval
  <2>2. 16 \in Int /\ 20 \in Int
    OBVIOUS
  <2>3. QED
    BY <2>1, <2>2, Zenon
<1>2. IsFiniteSet(SystemAddr \cap (16 .. 20))
  BY <1>1, FS_Subset
<1>3. Cardinality(SystemAddr \cap (16 .. 20)) \in Nat
  BY <1>2, FS_CardinalityType
<1>4. QED
  BY <1>3 DEF Parity

LEMMA InterleavedChannel == Interleaved \in {0, 1}
<1>1. \A a, b : BitOf(a, b) \in {0, 1}
  BY DEF BitOf
<1>2. \A b : (BitOf(SystemAddr, b) + Parity) % 2 \in {0, 1}
  <2>1. \A x \in Int : x % 2 \in {0, 1}
    OBVIOUS
  <2>2. \A b : BitOf(SystemAddr, b) + Parity \in Int
    BY <1>1, ParityInt
  <2>3. QED
    BY <2>1, <2>2
<1>3. CASE DctSelIntLvAddr = {}
  <2>1. {} # {1} /\ {} # {0, 1}
    OBVIOUS
  <2>2. Interleaved = BitOf(SystemAddr, 6)
    BY <1>3, <2>1, Zenon DEF Interleaved
  <2>3. QED
    BY <1>1, <2>2
<1>4. CASE DctSelIntLvAddr = {1}
  <2>1. {1} # {} /\ {1} # {0, 1}
    <3>1. 1 \in {1} /\ 0 \in {0, 1} /\ 0 \notin {1}
      OBVIOUS
    <3>2. QED
      BY <3>1, Zenon
  <2>2. Interleaved = (BitOf(SystemAddr, 6) + Parity) % 2
    BY <1>4, <2>1, Zenon DEF Interleaved
  <2>3. QED
    BY <1>2, <2>2
<1>5. CASE DctSelIntLvAddr = {0, 1}
  <2>1. {0, 1} # {} /\ {0, 1} # {1}
    <3>1. 0 \in {0, 1} /\ 0 \notin {1}
      OBVIOUS
    <3>2. QED
      BY <3>1, Zenon
  <2>2. Interleaved = (BitOf(SystemAddr, 9) + Parity) % 2
    BY <1>5, <2>1, Zenon DEF Interleaved
  <2>3. QED
    BY <1>2, <2>2
<1>6. CASE DctSelIntLvAddr \notin {{}, {1}, {0, 1}}
  <2>1. \E b : Interleaved = BitOf(SystemAddr, b)
    BY <1>6, Zenon DEF Interleaved
  <2>2. QED
    BY <1>1, <2>1
<1>7. QED
  BY <1>3, <1>4, <1>5, <1>6

LEMMA TwoChannels == ChannelOf \in {0, 1}
<1>1. DctSelHi \in {0, 1} /\ 1 - DctSelHi \in {0, 1}
  BY DEF DctSelHi
<1>2. CASE DctGangEn
  BY <1>2, Zenon DEF ChannelOf
<1>3. CASE ~DctGangEn /\ HiRangeSelected
  <2>1. ChannelOf = DctSelHi
    BY <1>3, Zenon DEF ChannelOf
  <2>2. QED
    BY <1>1, <2>1
<1>4. CASE ~DctGangEn /\ ~HiRangeSelected /\ DctSelIntLvEn
  <2>1. ChannelOf = Interleaved
    BY <1>4, Zenon DEF ChannelOf
  <2>2. QED
    BY <2>1, InterleavedChannel
<1>5. CASE ~DctGangEn /\ ~HiRangeSelected /\ ~DctSelIntLvEn
  <2>1. ChannelOf = IF DctSelHiRngEn THEN 1 - DctSelHi ELSE 0
    BY <1>5, Zenon DEF ChannelOf
  <2>2. QED
    BY <1>1, <2>1
<1>6. QED
  BY <1>2, <1>3, <1>4, <1>5

LEMMA LowestSelected ==
  ASSUME Selecting # {}
  PROVE  Min(Selecting) \in Selecting
<1> DEFINE S == Selecting
<1>1. S \subseteq 0 .. 7 /\ S # {}
  BY DEF Selecting
<1> HIDE DEF S
<1>2. \E x \in S : \A y \in S : x <= y
  <2>1. ASSUME NEW n \in 0 .. 7, n \in S, \A y \in S : ~(y < n)
        PROVE  \E x \in S : \A y \in S : x <= y
    BY <1>1, <2>1
  <2>2. CASE 0 \in S
    BY <1>1, <2>1, <2>2
  <2>3. CASE 0 \notin S /\ 1 \in S
    BY <1>1, <2>1, <2>3
  <2>4. CASE S \cap (0 .. 1) = {} /\ 2 \in S
    BY <1>1, <2>1, <2>4
  <2>5. CASE S \cap (0 .. 2) = {} /\ 3 \in S
    BY <1>1, <2>1, <2>5
  <2>6. CASE S \cap (0 .. 3) = {} /\ 4 \in S
    BY <1>1, <2>1, <2>6
  <2>7. CASE S \cap (0 .. 4) = {} /\ 5 \in S
    BY <1>1, <2>1, <2>7
  <2>8. CASE S \cap (0 .. 5) = {} /\ 6 \in S
    BY <1>1, <2>1, <2>8
  <2>9. CASE S \cap (0 .. 6) = {}
    <3>1. 7 \in S
      <4>1. PICK x \in S : x \in 0 .. 7 /\ x \notin 0 .. 6
        BY <1>1, <2>9
      <4>2. x = 7
        BY <4>1
      <4>3. QED
        BY <4>1, <4>2
    <3>2. QED
      BY <1>1, <2>1, <2>9, <3>1
  <2>10. QED
    BY <2>2, <2>3, <2>4, <2>5, <2>6, <2>7, <2>8, <2>9
<1>3. Min(S) \in S
  BY <1>2, Zenon DEF Min
<1>4. QED
  BY <1>3 DEF S

(* The spare's ranks are printed as -1 and -2, every other as it is.       *)
LEMMA SparedOr == ASSUME NEW cs PROVE Spared(cs) \in {-2, -1, cs}
<1> DEFINE OnlineSpareCTL == Get_PCI(device + NodeID, 3, \hB0)
           taken(done, lo) == /\ done \in OnlineSpareCTL
                              /\ cs = Number(Field(OnlineSpareCTL, lo, lo + 2))
           first == Channel > 0 /\ taken(3, 8)
           second == Channel = 0 /\ taken(1, 4)
<1>1. ~(first /\ second)
  OBVIOUS
<1>2. Spared(cs) = CASE first -> -2 [] second -> -1 [] OTHER -> cs
  BY Zenon DEF Spared
<1> HIDE DEF first, second
<1>3. CASE first
  <2>1. Spared(cs) = -2
    BY <1>1, <1>2, <1>3, Zenon
  <2>2. QED
    BY <2>1
<1>4. CASE second
  <2>1. Spared(cs) = -1
    BY <1>1, <1>2, <1>4, Zenon
  <2>2. QED
    BY <2>1
<1>5. CASE ~first /\ ~second
  <2>1. Spared(cs) = cs
    BY <1>2, <1>5, Zenon
  <2>2. QED
    BY <2>1
<1>6. QED
  BY <1>3, <1>4, <1>5

LEMMA ChosenKept == Chosen /\ [NbNext]_<<vars, eccVars>> => Chosen'
<1> SUFFICES ASSUME Chosen, [NbNext]_<<vars, eccVars>> PROVE Chosen'
  OBVIOUS
<1>1. CASE UNCHANGED vars \/ (EccNext /\ UNCHANGED decodeVars)
  <2>1. UNCHANGED <<machine, opens, pc, NodeID, Channel, CS>>
    BY <1>1 DEF vars, decodeVars, node, pci, EccNext, print_nb_cap, print_nb_mca_cfg,
                print_dct_cfg, Say, EccFails
  <2>2. QED
    BY <2>1 DEF Chosen, CSBase, CSReg, Get_PCI
<1>2. CASE Normalize
  <2>1. Channel' \in {0, 1} /\ pc' = "chip"
    BY <1>2, TwoChannels DEF Normalize
  <2>2. QED
    BY <2>1 DEF Chosen
<1>3. CASE FindChipSelect
  <2>1. /\ pc = "chip" /\ Channel \in {0, 1}
        /\ UNCHANGED <<machine, opens, NodeID, Channel>>
    BY <1>3 DEF FindChipSelect, Chosen, pci
  <2>2. CASE Selecting = {}
    <3>1. pc' = "range"
      BY <1>3, <2>2 DEF FindChipSelect
    <3>2. QED
      BY <3>1 DEF Chosen
  <2>3. CASE Selecting # {}
    <3>1. Min(Selecting) \in 0 .. 7 /\ 0 \in CSBase(Min(Selecting))
      BY <2>3, LowestSelected DEF Selecting, Selects
    <3>2. CS' \in {-2, -1, Min(Selecting)}
      BY <1>3, <2>3, SparedOr DEF FindChipSelect
    <3>3. ASSUME CS' >= 0 PROVE CS' \in 0 .. 7 /\ 0 \in CSBase(CS')
      BY <3>1, <3>2, <3>3
    <3>4. \A cs : CSBase(cs)' = CSBase(cs)
      BY <2>1 DEF CSBase, CSReg, Get_PCI, device
    <3>5. QED
      BY <2>1, <3>3, <3>4 DEF Chosen
  <2>4. QED
    BY <2>2, <2>3
<1>4. CASE Ask \/ Again \/ NextRange \/ EnterRange \/ ReadFails
  <2>1. pc' \notin {"chip", "found"}
    BY <1>4 DEF Ask, Again, NextRange, EnterRange, ReadFails
  <2>2. QED
    BY <2>1 DEF Chosen
<1>5. QED
  BY <1>1, <1>2, <1>3, <1>4 DEF NbNext, Next, vars

NbInv == Set /\ Unplaced /\ Order /\ Lists /\ Chosen

LEMMA NbInvAlways == NbSpec => []NbInv
<1>1. NbInit => NbInv
  BY SetInit, UnplacedInit DEF NbInit, Init, EccInit, NbInv, Order, Lists, Chosen
<1>2. NbInv /\ [NbNext]_<<vars, eccVars>> => NbInv'
  BY SetKept, UnplacedKept, OrderKept, ListsKept, ChosenKept DEF NbInv
<1>3. QED
  BY <1>1, <1>2, PTL DEF NbSpec

(* The decoder names no rank of node 0 that the report does not list as    *)
(* present on an enabled controller, whatever the machine is, also when    *)
(* the machine was set up in another way for the report.                   *)
THEOREM AgreesWithReportAlways == NbSpec => []AgreesWithReport
<1>1. NbInv => AgreesWithReport
  <2> SUFFICES ASSUME NbInv, pc = "found", NodeID = 0, CS >= 0
               PROVE  /\ <<"CS", Channel, CS>> \in report
                      /\ <<"DCT", Channel, "enabled">> \in report
    BY DEF AgreesWithReport
  <2>1. opens /\ step = "printed" /\ Listed(0) /\ Listed(1)
    BY DEF NbInv, Set, Unplaced, Order, Lists
  <2>2. Channel \in {0, 1} /\ CS \in 0 .. 7 /\ 0 \in CSBase(CS)
    BY DEF NbInv, Chosen
  <2>3. CSBase(CS) = Get_PCI(24, 2, \h40 + 4 * CS + Channel * \h100)
    BY DEF CSBase, CSReg, device
  <2>4. \h40 + 4 * CS + Channel * \h100 = \h40 + Channel * \h100 + 4 * CS
    BY <2>2
  <2>5. HasBit(machine, 0, ChipSelect(Channel, CS))
    BY <2>1, <2>2, <2>3, <2>4, ReadBit DEF ChipSelect
  <2>6. QED
    BY <2>1, <2>2, <2>5 DEF Listed
<1>2. QED
  BY <1>1, NbInvAlways, PTL

-----------------------------------------------------------------------------
(* The order of words.                                                     *)

(* A set of bits that is not empty has a highest one.                      *)
LEMMA Highest ==
  ASSUME NEW S \in SUBSET (0 .. 63), S # {}
  PROVE  \E k \in S : \A j \in S : j <= k
<1> DEFINE T == {63 - j : j \in S}
           R == {ss \in Nat \X Nat : ss[1] < ss[2]}
<1>1. IsWellFoundedOn(R, Nat)
  BY NatLessThanWellFounded DEF OpToRel
<1>2. PICK x \in T : \A y \in T : ~(<<y, x>> \in R)
  <2>1. \A j \in S : 63 - j \in Nat
    OBVIOUS
  <2>2. T \subseteq Nat /\ T # {}
    BY <2>1, Zenon
  <2> HIDE DEF T, R
  <2>3. QED
    BY <1>1, <2>2, WFMin
<1>3. PICK k \in S : x = 63 - k
  OBVIOUS
<1>4. ASSUME NEW j \in S, j > k PROVE FALSE
  <2>1. 63 - j \in T /\ 63 - j \in Nat /\ x \in Nat /\ 63 - j < x
    BY <1>3, <1>4
  <2>2. <<63 - j, x>> \in R
    BY <2>1
  <2>3. QED
    BY <1>2, <2>1, <2>2
<1>5. QED
  BY <1>4

(* Less is a strict order, the order of numbers.                           *)
LEMMA LessTransitive ==
  ASSUME NEW a \in Address, NEW b \in Address, NEW c \in Address,
         Less(a, b), Less(b, c)
  PROVE  Less(a, c)
<1>1. PICK k \in b \ a : \A j \in a \ b : j < k
  BY DEF Less
<1>2. PICK l \in c \ b : \A j \in b \ c : j < l
  BY DEF Less
<1>3. a \subseteq Int /\ b \subseteq Int /\ c \subseteq Int
  BY DEF Address, Bits
<1>4. CASE k < l
  <2>1. l \in c \ a
    BY <1>1, <1>2, <1>3, <1>4
  <2>2. \A j \in a \ c : j < l
    BY <1>1, <1>2, <1>3, <1>4
  <2>3. QED
    BY <2>1, <2>2 DEF Less
<1>5. CASE l < k
  <2>1. k \in c \ a
    BY <1>1, <1>2, <1>3, <1>5
  <2>2. \A j \in a \ c : j < k
    BY <1>1, <1>2, <1>3, <1>5
  <2>3. QED
    BY <2>1, <2>2 DEF Less
<1>6. k # l /\ k \in Int /\ l \in Int
  BY <1>1, <1>2, <1>3
<1>7. QED
  BY <1>4, <1>5, <1>6

(* It compares any two addresses.                                          *)
LEMMA LessTotal ==
  ASSUME NEW a \in Address, NEW b \in Address, ~Less(a, b), a # b
  PROVE  Less(b, a)
<1>1. Xor(a, b) \in SUBSET (0 .. 63) /\ Xor(a, b) # {}
  BY DEF Address, Bits, Xor
<1>2. PICK k \in Xor(a, b) : \A j \in Xor(a, b) : j <= k
  BY <1>1, Highest
<1>3. \A j \in Xor(a, b) : j # k => j < k
  BY <1>1, <1>2
<1>4. CASE k \in b \ a
  BY <1>3, <1>4 DEF Less, Xor
<1>5. CASE k \in a \ b
  BY <1>3, <1>5 DEF Less, Xor
<1>6. QED
  BY <1>4, <1>5 DEF Xor

(* A word is between base and base plus all of its lower bits if and only  *)
(* if its higher bits are those of base.                                   *)
LEMMA Aligned ==
  ASSUME NEW k \in 0 .. 63, NEW base \in SUBSET (k .. 63), NEW a \in Address
  PROVE  ~Less(a, base) /\ ~Less(base \cup Bits(k), a) <=> a \ Bits(k) = base
<1> DEFINE end == base \cup Bits(k)
           h == a \ Bits(k)
<1>1. a \subseteq 0 .. 63 /\ h \subseteq k .. 63
  BY DEF Address, Bits
<1>2. ASSUME h = base PROVE ~Less(a, base) /\ ~Less(end, a)
  <2>1. base \ a = {} /\ a \ end = {}
    BY <1>2
  <2>2. QED
    BY <2>1 DEF Less
<1>3. ASSUME h # base PROVE Less(a, base) \/ Less(end, a)
  <2>1. Xor(h, base) \in SUBSET (0 .. 63) /\ Xor(h, base) # {}
    <3>1. Xor(h, base) \in SUBSET (0 .. 63)
      <4>1. \A j \in k .. 63 : j \in 0 .. 63
        OBVIOUS
      <4>2. h \subseteq 0 .. 63 /\ base \subseteq 0 .. 63
        BY <1>1, <4>1
      <4> HIDE DEF h
      <4>3. QED
        BY <4>2, Zenon DEF Xor
    <3>2. Xor(h, base) # {}
      <4> HIDE DEF h
      <4>1. QED
        BY <1>3, Zenon DEF Xor
    <3>3. QED
      BY <3>1, <3>2
  <2>2. PICK t \in Xor(h, base) : \A j \in Xor(h, base) : j <= t
    BY <2>1, Highest
  <2>3. t \in k .. 63 /\ \A j \in Xor(h, base) : j # t => j < t
    BY <1>1, <2>2 DEF Xor
  <2>4. \A j \in Bits(k) : j < t
    BY <2>3 DEF Bits
  <2>5. CASE t \in base
    <3>1. t \in base \ a
      BY <2>2, <2>3, <2>5 DEF Xor, Bits
    <3>2. ASSUME NEW j \in a \ base PROVE j < t
      BY <2>3, <2>4, <3>1 DEF Xor
    <3>3. QED
      BY <3>1, <3>2 DEF Less
  <2>6. CASE t \notin base
    <3>1. t \in a \ end
      BY <2>2, <2>6 DEF Xor
    <3>2. ASSUME NEW j \in end \ a PROVE j < t
      BY <2>3, <2>4, <3>1 DEF Xor
    <3>3. QED
      BY <3>1, <3>2 DEF Less
  <2>7. QED
    BY <2>5, <2>6
<1>4. QED
  BY <1>2, <1>3

(* A word is less than a power of two if and only if it has no bit from    *)
(* there on.                                                               *)
LEMMA BelowPower ==
  ASSUME NEW q \in 0 .. 63, NEW a \in Address
  PROVE  Less(a, {q}) <=> a \ Bits(q) = {}
<1>1. a \subseteq 0 .. 63
  BY DEF Address, Bits
<1>2. ASSUME Less(a, {q}) PROVE a \ Bits(q) = {}
  <2>1. q \notin a /\ \A j \in a \ {q} : j < q
    BY <1>2 DEF Less
  <2>2. QED
    BY <1>1, <2>1 DEF Bits
<1>3. ASSUME a \ Bits(q) = {} PROVE Less(a, {q})
  <2>1. \A j \in a : j < q
    BY <1>1, <1>3 DEF Bits
  <2>2. q \in {q} \ a
    BY <2>1
  <2>3. QED
    BY <2>1, <2>2 DEF Less
<1>4. QED
  BY <1>2, <1>3

(* A word shifted to the right has 64 bits.                                *)
LEMMA ShrAddress == ASSUME NEW a \in Address, NEW n \in Nat PROVE Shr(a, n) \in Address
<1>1. a \in SUBSET Int /\ a \subseteq 0 .. 63
  BY DEF Address, Bits
<1>2. \A x \in Shr(a, n) : x \in Int /\ x >= 0 /\ x + n \in a
  BY <1>1, ShrBits
<1>3. \A x \in Shr(a, n) : x \in 0 .. 63
  BY <1>1, <1>2
<1>4. QED
  BY <1>3 DEF Address, Bits

(* The swap register compares units of 128 MB: of an address and a base of *)
(* at least as many zero bits, they agree above k if the words do.         *)
LEMMA UnitsAligned ==
  ASSUME NEW k \in 27 .. 33, NEW base \in SUBSET (k .. 63), NEW a \in Address
  PROVE  Shr(a, 27) \ Bits(k - 27) = Shr(base, 27) <=> a \ Bits(k) = base
<1>1. a \in SUBSET Int /\ base \in SUBSET Int /\ 27 \in Int
  BY DEF Address, Bits
<1>2. \A x : x \in Shr(a, 27) <=> x \in Int /\ x >= 0 /\ x + 27 \in a
  BY <1>1, ShrBits
<1>3. \A x : x \in Shr(base, 27) <=> x \in Int /\ x >= 0 /\ x + 27 \in base
  BY <1>1, ShrBits
<1> DEFINE u == Shr(a, 27)
           v == Shr(base, 27)
<1> HIDE DEF u, v
<1>4. ASSUME a \ Bits(k) = base, NEW x PROVE x \in u \ Bits(k - 27) <=> x \in v
  <2>1. x \in u \ Bits(k - 27) <=> x \in Int /\ x >= 0 /\ x + 27 \in a /\ x + 27 >= k
    BY <1>2 DEF u, Bits
  <2>2. \A y \in Int : y \in a /\ y >= k <=> y \in base
    BY <1>4, <1>1 DEF Bits, Address
  <2>3. QED
    BY <1>3, <2>1, <2>2 DEF v
<1>5. ASSUME u \ Bits(k - 27) = v, NEW y PROVE y \in a \ Bits(k) <=> y \in base
  <2>1. CASE y \in Int /\ y >= k
    <3>1. y - 27 \in Int /\ y - 27 >= 0 /\ (y - 27) + 27 = y /\ y - 27 \notin Bits(k - 27)
      BY <2>1 DEF Bits
    <3>2. y - 27 \in u <=> y - 27 \in v
      BY <1>5, <3>1
    <3>3. y \in a <=> y \in base
      BY <1>2, <1>3, <3>1, <3>2 DEF u, v
    <3>4. y \notin Bits(k)
      BY <2>1 DEF Bits
    <3>5. QED
      BY <3>3, <3>4
  <2>2. CASE ~(y \in Int /\ y >= k)
    <3>1. a \subseteq 0 .. 63 /\ k \in Int
      BY DEF Address, Bits
    <3>2. ASSUME y \in a \ Bits(k) PROVE FALSE
      <4>1. y \in 0 .. 63 /\ ~(y \in 0 .. k - 1)
        BY <3>1, <3>2 DEF Bits
      <4>2. QED
        BY <2>2, <3>1, <4>1
    <3>3. ASSUME y \in base PROVE FALSE
      <4>1. y \in k .. 63
        BY <3>3
      <4>2. QED
        BY <2>2, <4>1
    <3>4. QED
      BY <3>2, <3>3
  <2>3. QED
    BY <2>1, <2>2
<1>6. QED
  BY <1>4, <1>5 DEF u, v

-----------------------------------------------------------------------------
(* The decoder on any machine, at any point of its way.                    *)

At(m, o, s, r, n, c, x) ==
  INSTANCE AddrDecode WITH machine <- m, opens <- o, SystemAddr <- s,
                           DramRange <- r, NodeID <- n, Channel <- c, ChannelAddr <- x

MatchesOn(m, o, r, a) == At(m, o, {}, 0, 0, 0, {})!Matches(r, a)
NodeOn(m, o, r)       == At(m, o, {}, 0, 0, 0, {})!NodeOf(r)
SwappedOn(m, o, n, a) == At(m, o, {}, 0, 0, 0, {})!Swapped(n, a)
ChannelOn(m, o, s, r, n) == At(m, o, s, r, n, 0, {})!ChannelOf
CellOn(m, o, s, r, n) ==
  At(m, o, s, r, n, 0, {})!ChannelRemoved(At(m, o, s, r, n, 0, {})!NodeRemoved)
SelectingOn(m, o, n, c, x) == At(m, o, {}, 0, n, c, x)!Selecting
SparedOn(m, o, n, c, cs)   == At(m, o, {}, 0, n, c, {})!Spared(cs)

(* In a state, they are the decoder on its machine at its point.           *)
LEMMA Here ==
  /\ \A r, a : Matches(r, a) <=> MatchesOn(machine, opens, r, a)
  /\ \A r : NodeOf(r) = NodeOn(machine, opens, r)
  /\ \A n, a : Swapped(n, a) = SwappedOn(machine, opens, n, a)
  /\ ChannelOf = ChannelOn(machine, opens, SystemAddr, DramRange, NodeID)
  /\ ChannelRemoved(NodeRemoved) = CellOn(machine, opens, SystemAddr, DramRange, NodeID)
  /\ Selecting = SelectingOn(machine, opens, NodeID, Channel, ChannelAddr)
  /\ \A cs : Spared(cs) = SparedOn(machine, opens, NodeID, Channel, cs)
<1> USE DEF Get_PCI, device, RangeReg, IntlvEn, Long, DramBaseLong, Field, Bits, Shr, Shl,
            Less, Xor, At!Get_PCI, At!device, At!RangeReg, At!IntlvEn, At!Long,
            At!DramBaseLong, At!Field, At!Bits, At!Shr, At!Shl, At!Less, At!Xor
<1>1. \A r, a : Matches(r, a) <=> MatchesOn(machine, opens, r, a)
  BY DEF MatchesOn, Matches, DramEn, DramLimitLong, IntlvSel,
         At!Matches, At!DramEn, At!DramLimitLong, At!IntlvSel
<1>2. \A r : NodeOf(r) = NodeOn(machine, opens, r)
  BY DEF NodeOn, NodeOf, Number, At!NodeOf, At!Number
<1>3. \A n, a : Swapped(n, a) = SwappedOn(machine, opens, n, a)
  BY DEF SwappedOn, Swapped, At!Swapped
<1>4. ChannelOf = ChannelOn(machine, opens, SystemAddr, DramRange, NodeID)
  BY DEF ChannelOn, ChannelOf, DctSel, DctSelHiRngEn, DctSelHi, DctSelIntLvEn, DctGangEn,
         DctSelIntLvAddr, DctSelBaseAddr, HiRangeSelected, BitOf, Parity, Interleaved,
         Max, Cardinality, At!ChannelOf, At!DctSel, At!DctSelHiRngEn, At!DctSelHi,
         At!DctSelIntLvEn, At!DctGangEn, At!DctSelIntLvAddr, At!DctSelBaseAddr,
         At!HiRangeSelected, At!BitOf, At!Parity, At!Interleaved, At!Max, At!Cardinality
<1>5. ChannelRemoved(NodeRemoved) = CellOn(machine, opens, SystemAddr, DramRange, NodeID)
  BY DEF CellOn, ChannelRemoved, NodeRemoved, Normalized, ChannelOffset, AboveHole,
         HoleOffset, DramHole, DctSelBaseOffset, Ilog, DctSel, DctSelHiRngEn,
         DctSelIntLvEn, DctGangEn, DctSelIntLvAddr, DctSelBaseAddr, HiRangeSelected, Minus,
         At!ChannelRemoved, At!NodeRemoved, At!Normalized, At!ChannelOffset, At!AboveHole,
         At!HoleOffset, At!DramHole, At!DctSelBaseOffset, At!Ilog, At!DctSel,
         At!DctSelHiRngEn, At!DctSelIntLvEn, At!DctGangEn, At!DctSelIntLvAddr,
         At!DctSelBaseAddr, At!HiRangeSelected, At!Minus
<1>6. Selecting = SelectingOn(machine, opens, NodeID, Channel, ChannelAddr)
  BY DEF SelectingOn, Selecting, Selects, CSBase, CSMask, CSReg, InputAddr,
         At!Selecting, At!Selects, At!CSBase, At!CSMask, At!CSReg, At!InputAddr
<1>7. \A cs : Spared(cs) = SparedOn(machine, opens, NodeID, Channel, cs)
  BY DEF SparedOn, Spared, Number, At!Spared, At!Number
<1>8. QED
  BY <1>1, <1>2, <1>3, <1>4, <1>5, <1>6, <1>7

(* Two machines that may differ in the region swap.                        *)
Alike(m, w) ==
  \A dev, func, reg :
    func # 2 \/ reg # \h10C =>
      RegisterOf(m, <<dev, func, reg>>) = RegisterOf(w, <<dev, func, reg>>)

(* Words are words on each of them.                                        *)
Words(m, o, s, r, n, c, x) ==
  /\ At(m, o, s, r, n, c, x)!device = 24
  /\ \A a, k : At(m, o, s, r, n, c, x)!Shr(a, k) = Shr(a, k)
  /\ \A a, k, l : At(m, o, s, r, n, c, x)!Shl(a, k, l) = Shl(a, k, l)
  /\ \A a, k, l : At(m, o, s, r, n, c, x)!Field(a, k, l) = Field(a, k, l)
  /\ \A a, k, l : At(m, o, s, r, n, c, x)!Minus(a, k, l) = Minus(a, k, l)
  /\ \A a, k : At(m, o, s, r, n, c, x)!Less(a, k) <=> Less(a, k)
  /\ \A a, k : At(m, o, s, r, n, c, x)!Xor(a, k) = Xor(a, k)
  /\ \A a, k : At(m, o, s, r, n, c, x)!Long(a, k) = Long(a, k)
  /\ \A k : At(m, o, s, r, n, c, x)!Bits(k) = Bits(k)
  /\ \A a, k : At(m, o, s, r, n, c, x)!BitOf(a, k) = BitOf(a, k)
  /\ \A a : At(m, o, s, r, n, c, x)!Number(a) = Number(a)
  /\ \A a : At(m, o, s, r, n, c, x)!Max(a) = Max(a)
  /\ \A dev, func, reg :
       At(m, o, s, r, n, c, x)!Get_PCI(dev, func, reg)
         = RegisterOf(m, <<dev, func, reg>>)

(* With /dev/pci a register is what the machine has, and a word is a word. *)
LEMMA SameWord == \A m, o, s, r, n, c, x : o => Words(m, o, s, r, n, c, x)
<1> SUFFICES ASSUME NEW m, NEW o, NEW s, NEW r, NEW n, NEW c, NEW x, o
             PROVE  Words(m, o, s, r, n, c, x)
  OBVIOUS
<1> USE DEF Bits, Shr, Shl, Less, Xor, Field, At!Bits, At!Shr, At!Shl, At!Less, At!Xor,
            At!Field

<1>1. At(m, o, s, r, n, c, x)!device = 24
  BY DEF At!device
<1>2. \A a, k : At(m, o, s, r, n, c, x)!Shr(a, k) = Shr(a, k)
  OBVIOUS
<1>3. \A a, k, l : At(m, o, s, r, n, c, x)!Shl(a, k, l) = Shl(a, k, l)
  OBVIOUS
<1>4. \A a, k, l : At(m, o, s, r, n, c, x)!Field(a, k, l) = Field(a, k, l)
  OBVIOUS
<1>5. \A a, k, l : At(m, o, s, r, n, c, x)!Minus(a, k, l) = Minus(a, k, l)
  BY DEF Minus, At!Minus
<1>6. \A a, k : At(m, o, s, r, n, c, x)!Less(a, k) <=> Less(a, k)
  OBVIOUS
<1>7. \A a, k : At(m, o, s, r, n, c, x)!Xor(a, k) = Xor(a, k)
  OBVIOUS
<1>8. \A a, k : At(m, o, s, r, n, c, x)!Long(a, k) = Long(a, k)
  BY DEF Long, At!Long
<1>9. \A k : At(m, o, s, r, n, c, x)!Bits(k) = Bits(k)
  OBVIOUS
<1>10. \A a, k : At(m, o, s, r, n, c, x)!BitOf(a, k) = BitOf(a, k)
  BY DEF BitOf, At!BitOf
<1>11. \A a : At(m, o, s, r, n, c, x)!Number(a) = Number(a)
  BY DEF Number, At!Number
<1>12. \A a : At(m, o, s, r, n, c, x)!Max(a) = Max(a)
  BY DEF Max, At!Max
<1>13. \A dev, func, reg :
         At(m, o, s, r, n, c, x)!Get_PCI(dev, func, reg)
           = RegisterOf(m, <<dev, func, reg>>)
  BY DEF At!Get_PCI, RegisterOf
<1>14. QED
  BY <1>1, <1>2, <1>3, <1>4, <1>5, <1>6, <1>7, <1>8, <1>9, <1>10, <1>11, <1>12, <1>13 DEF Words

(* They decode an address in the same way once it has been swapped.        *)
LEMMA SameWay ==
  ASSUME NEW m, NEW w, NEW o, NEW s, NEW r, NEW n, NEW c \in {0, 1}, NEW x,
         Words(m, o, s, r, n, c, x), Words(w, o, s, r, n, c, x), Alike(m, w)
  PROVE  /\ At(m, o, s, r, n, c, x)!ChannelOf = At(w, o, s, r, n, c, x)!ChannelOf
         /\ At(m, o, s, r, n, c, x)!ChannelRemoved(At(m, o, s, r, n, c, x)!NodeRemoved)
              = At(w, o, s, r, n, c, x)!ChannelRemoved(At(w, o, s, r, n, c, x)!NodeRemoved)
         /\ At(m, o, s, r, n, c, x)!Selecting = At(w, o, s, r, n, c, x)!Selecting
         /\ \A cs : At(m, o, s, r, n, c, x)!Spared(cs) = At(w, o, s, r, n, c, x)!Spared(cs)
<1>1. \A dev, func, reg : func # 2 \/ reg # \h10C =>
         At(m, o, s, r, n, c, x)!Get_PCI(dev, func, reg) = At(w, o, s, r, n, c, x)!Get_PCI(dev, func, reg)
  <2> SUFFICES ASSUME NEW dev, NEW func, NEW reg, func # 2 \/ reg # \h10C
               PROVE  At(m, o, s, r, n, c, x)!Get_PCI(dev, func, reg) = At(w, o, s, r, n, c, x)!Get_PCI(dev, func, reg)
    OBVIOUS
  <2>1. RegisterOf(m, <<dev, func, reg>>) = RegisterOf(w, <<dev, func, reg>>)
    BY DEF Alike
  <2>2. At(m, o, s, r, n, c, x)!Get_PCI(dev, func, reg) = RegisterOf(m, <<dev, func, reg>>)
    BY DEF Words
  <2>3. At(w, o, s, r, n, c, x)!Get_PCI(dev, func, reg) = RegisterOf(w, <<dev, func, reg>>)
    BY DEF Words
  <2>4. QED
    BY <2>1, <2>2, <2>3
<1>2. \A q, reg : At(m, o, s, r, n, c, x)!RangeReg(q, reg) = At(w, o, s, r, n, c, x)!RangeReg(q, reg)
  BY <1>1 DEF At!RangeReg, Words
<1>3. \A q : At(m, o, s, r, n, c, x)!IntlvEn(q) = At(w, o, s, r, n, c, x)!IntlvEn(q)
  BY <1>2 DEF At!IntlvEn, Words
<1>4. \A q : At(m, o, s, r, n, c, x)!DramBaseLong(q) = At(w, o, s, r, n, c, x)!DramBaseLong(q)
  BY <1>2 DEF At!DramBaseLong, Words
<1>5. \A q : At(m, o, s, r, n, c, x)!Ilog(q) = At(w, o, s, r, n, c, x)!Ilog(q)
  BY <1>3, Zenon DEF At!Ilog
<1>6. At(m, o, s, r, n, c, x)!DctSel = At(w, o, s, r, n, c, x)!DctSel
  BY <1>1 DEF At!DctSel, Words
<1>7. At(m, o, s, r, n, c, x)!DctSelHiRngEn <=> At(w, o, s, r, n, c, x)!DctSelHiRngEn
  BY <1>6 DEF At!DctSelHiRngEn
<1>8. At(m, o, s, r, n, c, x)!DctSelIntLvEn <=> At(w, o, s, r, n, c, x)!DctSelIntLvEn
  BY <1>6 DEF At!DctSelIntLvEn
<1>9. At(m, o, s, r, n, c, x)!DctGangEn <=> At(w, o, s, r, n, c, x)!DctGangEn
  BY <1>6 DEF At!DctGangEn
<1>10. At(m, o, s, r, n, c, x)!DctSelHi = At(w, o, s, r, n, c, x)!DctSelHi
  BY <1>6 DEF At!DctSelHi
<1>11. At(m, o, s, r, n, c, x)!DctSelIntLvAddr = At(w, o, s, r, n, c, x)!DctSelIntLvAddr
  BY <1>6 DEF At!DctSelIntLvAddr, Words
<1>12. At(m, o, s, r, n, c, x)!DctSelBaseAddr = At(w, o, s, r, n, c, x)!DctSelBaseAddr
  BY <1>6 DEF At!DctSelBaseAddr
<1>13. At(m, o, s, r, n, c, x)!DctSelBaseOffset = At(w, o, s, r, n, c, x)!DctSelBaseOffset
  BY <1>1 DEF At!DctSelBaseOffset, Words
<1>14. At(m, o, s, r, n, c, x)!DramHole = At(w, o, s, r, n, c, x)!DramHole
  BY <1>1 DEF At!DramHole, Words
<1>15. At(m, o, s, r, n, c, x)!HoleOffset = At(w, o, s, r, n, c, x)!HoleOffset
  BY <1>14 DEF At!HoleOffset, Words
<1>16. At(m, o, s, r, n, c, x)!HiRangeSelected <=> At(w, o, s, r, n, c, x)!HiRangeSelected
  BY <1>7, <1>9, <1>12 DEF At!HiRangeSelected, Words
<1>17. At(m, o, s, r, n, c, x)!Parity = At(w, o, s, r, n, c, x)!Parity
  BY  DEF At!Parity, At!Cardinality, Cardinality
<1>18. At(m, o, s, r, n, c, x)!Interleaved = At(w, o, s, r, n, c, x)!Interleaved
  <2> DEFINE F(how, parity, en) ==
               CASE how = {}     -> BitOf(s, 6)
                 [] how = {1}    -> (BitOf(s, 6) + parity) % 2
                 [] how = {0, 1} -> (BitOf(s, 9) + parity) % 2
                 [] OTHER -> BitOf(s, IF en = {} THEN 12 ELSE 13 + Max(en))
  <2>1. At(m, o, s, r, n, c, x)!Interleaved = F(At(m, o, s, r, n, c, x)!DctSelIntLvAddr, At(m, o, s, r, n, c, x)!Parity, At(m, o, s, r, n, c, x)!IntlvEn(r))
    BY DEF At!Interleaved, BitOf, At!BitOf, Max, At!Max
  <2>2. At(w, o, s, r, n, c, x)!Interleaved = F(At(w, o, s, r, n, c, x)!DctSelIntLvAddr, At(w, o, s, r, n, c, x)!Parity, At(w, o, s, r, n, c, x)!IntlvEn(r))
    BY DEF At!Interleaved, BitOf, At!BitOf, Max, At!Max
  <2> HIDE DEF F
  <2>3. QED
    BY <1>3, <1>11, <1>17, <2>1, <2>2
<1>19. At(m, o, s, r, n, c, x)!ChannelOf = At(w, o, s, r, n, c, x)!ChannelOf
  BY <1>9, <1>16, <1>10, <1>8, <1>18, <1>7, Zenon DEF At!ChannelOf
<1>20. At(m, o, s, r, n, c, x)!AboveHole <=> At(w, o, s, r, n, c, x)!AboveHole
  BY <1>14 DEF At!AboveHole, Words
<1>21. At(m, o, s, r, n, c, x)!ChannelOffset = At(w, o, s, r, n, c, x)!ChannelOffset
  BY <1>16, <1>20, <1>12, <1>15, <1>13, <1>4 DEF At!ChannelOffset
<1>22. At(m, o, s, r, n, c, x)!Normalized = At(w, o, s, r, n, c, x)!Normalized
  BY <1>21 DEF At!Normalized, Words
<1>23. At(m, o, s, r, n, c, x)!NodeRemoved = At(w, o, s, r, n, c, x)!NodeRemoved
  BY <1>22, <1>5 DEF At!NodeRemoved, Words
<1>24. \A a : At(m, o, s, r, n, c, x)!ChannelRemoved(a) = At(w, o, s, r, n, c, x)!ChannelRemoved(a)
  <2> SUFFICES ASSUME NEW a PROVE At(m, o, s, r, n, c, x)!ChannelRemoved(a) = At(w, o, s, r, n, c, x)!ChannelRemoved(a)
    OBVIOUS
  <2> DEFINE F(how) ==
               CASE 0 \notin how -> Shr(a, 1) \cap (6 .. 63)
                 [] how = {0}    -> Shr(a \cap (13 .. 63), 1) \cup (a \cap (6 .. 11))
                 [] how = {0, 1} -> Shr(a \cap (10 .. 63), 1) \cup (a \cap (6 .. 8))
             Whole == ~At(m, o, s, r, n, c, x)!DctSelIntLvEn \/ At(m, o, s, r, n, c, x)!HiRangeSelected \/ At(m, o, s, r, n, c, x)!DctGangEn
  <2>1. At(m, o, s, r, n, c, x)!ChannelRemoved(a) = IF Whole THEN a ELSE F(At(m, o, s, r, n, c, x)!DctSelIntLvAddr)
    BY DEF At!ChannelRemoved, Shr, At!Shr
  <2>2. At(w, o, s, r, n, c, x)!ChannelRemoved(a) =
          IF ~At(w, o, s, r, n, c, x)!DctSelIntLvEn \/ At(w, o, s, r, n, c, x)!HiRangeSelected \/ At(w, o, s, r, n, c, x)!DctGangEn
          THEN a ELSE F(At(w, o, s, r, n, c, x)!DctSelIntLvAddr)
    BY DEF At!ChannelRemoved, Shr, At!Shr
  <2>3. Whole <=> ~At(w, o, s, r, n, c, x)!DctSelIntLvEn \/ At(w, o, s, r, n, c, x)!HiRangeSelected \/ At(w, o, s, r, n, c, x)!DctGangEn
    BY <1>8, <1>9, <1>16
  <2> HIDE DEF F, Whole
  <2>4. QED
    BY <1>11, <2>1, <2>2, <2>3
<1>25. \A reg \in Int : reg # \h10C /\ reg # \h00C =>
         At(m, o, s, r, n, c, x)!CSReg(reg) = At(w, o, s, r, n, c, x)!CSReg(reg)
  <2> SUFFICES ASSUME NEW reg \in Int, reg # \h10C, reg # \h00C
               PROVE  At(m, o, s, r, n, c, x)!CSReg(reg) = At(w, o, s, r, n, c, x)!CSReg(reg)
    OBVIOUS
  <2>1. reg + c * \h100 # \h10C
    OBVIOUS
  <2>2. QED
    BY <1>1, <2>1 DEF At!CSReg, Words
<1>26. \A cs \in 0 .. 7 : At(m, o, s, r, n, c, x)!CSBase(cs) = At(w, o, s, r, n, c, x)!CSBase(cs)
  BY <1>25 DEF At!CSBase
<1>27. \A cs \in 0 .. 7 : At(m, o, s, r, n, c, x)!CSMask(cs) = At(w, o, s, r, n, c, x)!CSMask(cs)
  BY <1>25 DEF At!CSMask, Words
<1>28. At(m, o, s, r, n, c, x)!InputAddr = At(w, o, s, r, n, c, x)!InputAddr
  BY  DEF At!InputAddr, Words
<1>29. \A cs \in 0 .. 7 : At(m, o, s, r, n, c, x)!Selects(cs) <=> At(w, o, s, r, n, c, x)!Selects(cs)
  BY <1>26, <1>27, <1>28 DEF At!Selects
<1>30. At(m, o, s, r, n, c, x)!Selecting = At(w, o, s, r, n, c, x)!Selecting
  BY <1>29 DEF At!Selecting
<1>31. \A cs : At(m, o, s, r, n, c, x)!Spared(cs) = At(w, o, s, r, n, c, x)!Spared(cs)
  <2> SUFFICES ASSUME NEW cs PROVE At(m, o, s, r, n, c, x)!Spared(cs) = At(w, o, s, r, n, c, x)!Spared(cs)
    OBVIOUS
  <2> DEFINE F(ctl) ==
               CASE c > 0 /\ 3 \in ctl /\ cs = Number(Field(ctl, 8, 8 + 2)) -> -2
                 [] c = 0 /\ 1 \in ctl /\ cs = Number(Field(ctl, 4, 4 + 2)) -> -1
                 [] OTHER -> cs
  <2>1. At(m, o, s, r, n, c, x)!Spared(cs) = F(At(m, o, s, r, n, c, x)!Get_PCI(At(m, o, s, r, n, c, x)!device + n, 3, \hB0))
    BY DEF At!Spared, Number, At!Number, Field, At!Field, Shr, At!Shr
  <2>2. At(w, o, s, r, n, c, x)!Spared(cs) = F(At(w, o, s, r, n, c, x)!Get_PCI(At(w, o, s, r, n, c, x)!device + n, 3, \hB0))
    BY DEF At!Spared, Number, At!Number, Field, At!Field, Shr, At!Shr
  <2> HIDE DEF F
  <2>3. At(m, o, s, r, n, c, x)!Get_PCI(At(m, o, s, r, n, c, x)!device + n, 3, \hB0) = At(w, o, s, r, n, c, x)!Get_PCI(At(w, o, s, r, n, c, x)!device + n, 3, \hB0)
    BY <1>1 DEF Words
  <2>4. QED
    BY <2>1, <2>2, <2>3
<1>32. QED
  BY <1>19, <1>23, <1>24, <1>30, <1>31

-----------------------------------------------------------------------------
(* The ranges and the swap, from the registers of a machine.               *)

(* Whether address a is in range r.                                        *)
Within(m, r, a) ==
  /\ RangeOf(m, r, \h40) \cap {0, 1} # {}
  /\ ~Less(a, First(m, r)) /\ ~Less(Last(m, r), a)
  /\ Interleaving(m, r) # {} => Turn(m, r) = Shr(a, 12) \cap Interleaving(m, r)

(* What a swap register makes of it.                                       *)
Exchanged(swap, a) ==
  IF /\ 0 \in swap
     /\ Shr(a, 34) = {}
     /\ \/ ~Less(Shr(a, 27), Field(swap, 3, 9)) /\ ~Less(Field(swap, 11, 17), Shr(a, 27))
        \/ Less(Shr(a, 27), Field(swap, 20, 26))
  THEN Xor(a, Shl(Field(swap, 3, 9), 27, 32)) ELSE a

(* Registers have 32 bits.                                                 *)
LEMMA RegisterBits == \A m \in Machines : \A r : RegisterOf(m, r) \subseteq 0 .. 31
BY MachinesAssumption DEF RegisterOf

(* A limit is filled with ones up to 16 MB, in two steps in the code.      *)
LEMMA LastOf ==
  ASSUME NEW high, NEW low \in SUBSET Int, high \in SUBSET Int
  PROVE  Long(high, (low \cap Bits(32)) \cup Bits(16)) \cup Bits(8)
           = Long(high, low \cap (16 .. 31)) \cup Bits(24)
<1> DEFINE h == Shl(high \cap Bits(8), 32, 64)
           v == h \cup ((low \cap Bits(32)) \cup Bits(16))
           w == h \cup (low \cap (16 .. 31))
<1>1. h \in SUBSET Int
  <2>1. high \cap Bits(8) \in SUBSET Int
    OBVIOUS
  <2>2. QED
    BY <2>1, InShl
<1> HIDE DEF h
<1>2. v \in SUBSET Int /\ w \in SUBSET Int
  BY <1>1 DEF Bits
<1>3. \A y : y \in v <=> y \in w \/ y \in 0 .. 15
  BY DEF Bits
<1>4. Long(high, (low \cap Bits(32)) \cup Bits(16)) = Shl(v, 8, 64)
      /\ Long(high, low \cap (16 .. 31)) = Shl(w, 8, 64)
  BY DEF Long, h
<1> HIDE DEF v, w
<1>5. \A y : y \in Shl(v, 8, 64) <=> y \in Int /\ y - 8 \in v /\ y < 64
  BY <1>2, InShl
<1>6. \A y : y \in Shl(w, 8, 64) <=> y \in Int /\ y - 8 \in w /\ y < 64
  BY <1>2, InShl
<1>7. ASSUME NEW y PROVE y \in Shl(v, 8, 64) \cup Bits(8) <=> y \in Shl(w, 8, 64) \cup Bits(24)
  <2>1. y \in Bits(24) <=> y \in Bits(8) \/ (y \in Int /\ y - 8 \in 0 .. 15)
    BY DEF Bits
  <2>2. y \in Int /\ y - 8 \in 0 .. 15 => y < 64
    OBVIOUS
  <2>3. QED
    BY <1>3, <1>5, <1>6, <2>1, <2>2
<1>8. QED
  BY <1>4, <1>7

(* The decoder's ranges and its swap on a machine.                         *)
LEMMA RangeFacts ==
  ASSUME NEW m \in Machines, NEW o, Words(m, o, {}, 0, 0, 0, {})
  PROVE  /\ \A r, a : MatchesOn(m, o, r, a) <=> Within(m, r, a)
         /\ \A r : SwapOf(m, r) = RegisterOf(m, Swap(NodeOn(m, o, r)))
         /\ \A n, a : SwappedOn(m, o, n, a) = Exchanged(RegisterOf(m, Swap(n)), a)
<1>2. \A r, reg : At(m, o, {}, 0, 0, 0, {})!RangeReg(r, reg) = RangeOf(m, r, reg)
  BY DEF At!RangeReg, RangeOf, Words
<1>3. \A r, a : MatchesOn(m, o, r, a) <=> Within(m, r, a)
  <2> SUFFICES ASSUME NEW r, NEW a PROVE MatchesOn(m, o, r, a) <=> Within(m, r, a)
    OBVIOUS
  <2>1. At(m, o, {}, 0, 0, 0, {})!DramEn(r) <=> RangeOf(m, r, \h40) \cap {0, 1} # {}
    BY <1>2 DEF At!DramEn
  <2>2. At(m, o, {}, 0, 0, 0, {})!DramBaseLong(r) = First(m, r)
    <3>1. At(m, o, {}, 0, 0, 0, {})!DramBaseLong(r)
            = Long(At(m, o, {}, 0, 0, 0, {})!RangeReg(r, \h140), At(m, o, {}, 0, 0, 0, {})!RangeReg(r, \h40) \cap (16 .. 31))
      BY DEF At!DramBaseLong, Long, At!Long, Shl, At!Shl, Bits, At!Bits
    <3>2. QED
      BY <1>2, <3>1 DEF First
  <2>3. At(m, o, {}, 0, 0, 0, {})!DramLimitLong(r) = Last(m, r)
    <3>1. RangeOf(m, r, \h144) \in SUBSET Int /\ RangeOf(m, r, \h44) \in SUBSET Int
      <4>1. RangeOf(m, r, \h144) \subseteq 0 .. 31 /\ RangeOf(m, r, \h44) \subseteq 0 .. 31
        BY RegisterBits DEF RangeOf
      <4>2. QED
        BY <4>1
    <3>2. At(m, o, {}, 0, 0, 0, {})!DramLimitLong(r)
            = Long(RangeOf(m, r, \h144), (RangeOf(m, r, \h44) \cap Bits(32)) \cup Bits(16))
                \cup Bits(8)
      <4>1. At(m, o, {}, 0, 0, 0, {})!DramLimitLong(r)
              = Long(At(m, o, {}, 0, 0, 0, {})!RangeReg(r, \h144),
                     (At(m, o, {}, 0, 0, 0, {})!RangeReg(r, \h44) \cap Bits(32)) \cup Bits(16)) \cup Bits(8)
        BY DEF At!DramLimitLong, Long, At!Long, Shl, At!Shl, Bits, At!Bits
      <4>2. QED
        BY <1>2, <4>1
    <3>3. Long(RangeOf(m, r, \h144), (RangeOf(m, r, \h44) \cap Bits(32)) \cup Bits(16))
            \cup Bits(8) = Last(m, r)
      BY <3>1, LastOf DEF Last
    <3>4. QED
      BY <3>2, <3>3
  <2>4. At(m, o, {}, 0, 0, 0, {})!IntlvEn(r) = Interleaving(m, r)
    BY <1>2 DEF At!IntlvEn, Interleaving, Words
  <2>5. At(m, o, {}, 0, 0, 0, {})!IntlvSel(r) = Turn(m, r)
    BY <1>2 DEF At!IntlvSel, Turn, Words
  <2>6. QED
    BY <2>1, <2>2, <2>3, <2>4, <2>5 DEF MatchesOn, At!Matches, Within, Words
<1>4. \A r : SwapOf(m, r) = RegisterOf(m, Swap(NodeOn(m, o, r)))
  BY <1>2 DEF NodeOn, At!NodeOf, SwapOf, NodeIn, Words
<1>5. \A n, a : SwappedOn(m, o, n, a) = Exchanged(RegisterOf(m, Swap(n)), a)
  <2> SUFFICES ASSUME NEW n, NEW a
               PROVE  SwappedOn(m, o, n, a) = Exchanged(RegisterOf(m, Swap(n)), a)
    OBVIOUS
  <2>1. At(m, o, {}, 0, 0, 0, {})!Get_PCI(At(m, o, {}, 0, 0, 0, {})!device + n, 2, \h10C)
          = RegisterOf(m, Swap(n))
    <3>1. At(m, o, {}, 0, 0, 0, {})!device + n = 24 + n
      BY DEF Words
    <3>2. At(m, o, {}, 0, 0, 0, {})!Get_PCI(24 + n, 2, \h10C) = RegisterOf(m, <<24 + n, 2, \h10C>>)
      BY DEF Words
    <3>3. QED
      BY <3>1, <3>2 DEF Swap
  <2>2. SwappedOn(m, o, n, a)
          = Exchanged(At(m, o, {}, 0, 0, 0, {})!Get_PCI(At(m, o, {}, 0, 0, 0, {})!device + n, 2, \h10C), a)
    BY DEF SwappedOn, At!Swapped, Exchanged, Field, At!Field, Shr, At!Shr, Shl, At!Shl,
           Less, At!Less, Xor, At!Xor
  <2>3. QED
    BY <2>1, <2>2
<1>6. QED
  BY <1>3, <1>4, <1>5

(* Nodes are 0 to 7.                                                       *)
LEMMA NodeNumber == \A m, o, r : NodeOn(m, o, r) \in 0 .. 7
<1> SUFFICES ASSUME NEW m, NEW o, NEW r PROVE NodeOn(m, o, r) \in 0 .. 7
  OBVIOUS
<1> DEFINE f == Field(At(m, o, {}, 0, 0, 0, {})!RangeReg(r, \h44), 0, 2)
<1>1. NodeOn(m, o, r) = Number(f)
  BY DEF NodeOn, At!NodeOf, Number, At!Number, Field, At!Field, Shr, At!Shr
<1>2. 3 \notin f /\ 4 \notin f /\ 5 \notin f /\ 6 \notin f /\ 7 \notin f
  BY DEF Field, Shr
<1> HIDE DEF f
<1>3. Number(f) \in 0 .. 7
  BY <1>2 DEF Number
<1>4. QED
  BY <1>1, <1>3

(* The base or the limit of a range has 64 bits.                           *)
LEMMA LongAddress ==
  ASSUME NEW high \in SUBSET (0 .. 31), NEW low \in SUBSET (0 .. 31)
  PROVE  Long(high, low) \in Address
<1> DEFINE h == Shl(high \cap Bits(8), 32, 64)
           v == h \cup low
<1>1. \A y : y \in h <=> y \in Int /\ y - 32 \in high \cap Bits(8) /\ y < 64
  <2>1. high \cap Bits(8) \in SUBSET Int
    BY DEF Bits
  <2>2. QED
    BY <2>1, InShl
<1> HIDE DEF h
<1>2. v \in SUBSET Int /\ \A y \in v : y >= 0
  <2>1. \A y \in h : y \in Int /\ y >= 0
    BY <1>1 DEF Bits
  <2>2. \A y \in low : y \in Int /\ y >= 0
    OBVIOUS
  <2>3. QED
    BY <2>1, <2>2
<1>3. Long(high, low) = Shl(v, 8, 64)
  BY DEF Long, h
<1> HIDE DEF v
<1>4. \A y : y \in Shl(v, 8, 64) <=> y \in Int /\ y - 8 \in v /\ y < 64
  BY <1>2, InShl
<1>5. \A y : y \in Shl(v, 8, 64) => y \in 0 .. 63
  BY <1>2, <1>4
<1>6. QED
  BY <1>3, <1>5 DEF Address, Bits

(* Both ends of a range are addresses.                                     *)
LEMMA RangeWords ==
  ASSUME NEW m \in Machines, NEW r
  PROVE  First(m, r) \in Address /\ Last(m, r) \in Address
<1>1. \A reg : RangeOf(m, r, reg) \subseteq 0 .. 31
  BY RegisterBits DEF RangeOf
<1>2. \A reg : RangeOf(m, r, reg) \cap (16 .. 31) \in SUBSET (0 .. 31)
  BY <1>1
<1>3. First(m, r) \in Address
  BY <1>1, <1>2, LongAddress DEF First
<1>4. Long(RangeOf(m, r, \h144), RangeOf(m, r, \h44) \cap (16 .. 31)) \in Address
  BY <1>1, <1>2, LongAddress
<1>5. Last(m, r) \in Address
  BY <1>4 DEF Last, Address, Bits
<1>6. QED
  BY <1>3, <1>5

(* No address is in two ranges.                                            *)
LEMMA OneRange ==
  ASSUME NEW m \in Machines, Disjoint(m), NEW a \in Address,
         NEW r \in 0 .. 7, NEW q \in 0 .. 7, Within(m, r, a), Within(m, q, a)
  PROVE  r = q
<1> SUFFICES ASSUME r # q PROVE FALSE
  OBVIOUS
<1>1. /\ First(m, r) \in Address /\ First(m, q) \in Address
      /\ Last(m, r) \in Address /\ Last(m, q) \in Address
  BY RangeWords
<1>2. \A f \in Address, l \in Address : Less(l, f) => Less(a, f) \/ Less(l, a)
  <2> SUFFICES ASSUME NEW f \in Address, NEW l \in Address, Less(l, f),
                      ~Less(a, f), ~Less(l, a)
               PROVE  FALSE
    OBVIOUS
  <2>1. a = f \/ Less(f, a)
    BY LessTotal
  <2>2. CASE a = f
    BY <2>2
  <2>3. CASE Less(f, a)
    BY <2>3, LessTransitive
  <2>4. QED
    BY <2>1, <2>2, <2>3
<1>3. r \in Ranges(m) /\ q \in Ranges(m)
  BY DEF Within, Ranges
<1>4. \/ Less(Last(m, r), First(m, q)) \/ Less(Last(m, q), First(m, r))
      \/ /\ Interleaving(m, r) = Interleaving(m, q) /\ Interleaving(m, r) # {}
         /\ Turn(m, r) # Turn(m, q)
  BY <1>3 DEF Disjoint
<1>5. QED
  BY <1>1, <1>2, <1>4 DEF Within

-----------------------------------------------------------------------------
(* The exchanged regions.                                                  *)

(* An address is in an exchanged region if its bits from k on are those of *)
(* the region's base.                                                      *)
LEMMA Regions ==
  ASSUME NEW m, NEW k \in 27 .. 33, Exchanging(m, k), NEW a \in Address
  PROVE  /\ m.base \in SUBSET (k .. 63)
         /\ In(a, m.low) <=> a \ Bits(k) = {}
         /\ In(a, m.high) <=> a \ Bits(k) = m.base
<1> DEFINE end == m.base \cup Bits(k)
<1>1. /\ m.base \subseteq k .. 33
      /\ m.low = {<<{}, Bits(k)>>} /\ m.high = {<<m.base, end>>}
  BY DEF Exchanging
<1>2. m.base \in SUBSET (k .. 63) /\ k \in 0 .. 63
  BY <1>1
<1>3. In(a, m.low) <=> ~Less(a, {}) /\ ~Less({} \cup Bits(k), a)
  BY <1>1 DEF In
<1>4. In(a, m.high) <=> ~Less(a, m.base) /\ ~Less(end, a)
  BY <1>1 DEF In
<1>5. {} \in SUBSET (k .. 63)
  OBVIOUS
<1>6. In(a, m.low) <=> a \ Bits(k) = {}
  BY <1>2, <1>3, <1>5, Aligned
<1>7. In(a, m.high) <=> a \ Bits(k) = m.base
  BY <1>2, <1>4, Aligned
<1>8. QED
  BY <1>2, <1>6, <1>7

(* The swap register makes of an address what the exchange means.          *)
LEMMA SwapMeant ==
  ASSUME NEW m, NEW k \in 27 .. 33, Exchanging(m, k), NEW a \in Address, NEW swap,
         0 \in swap, Field(swap, 3, 9) = Shr(m.base, 27),
         Field(swap, 11, 17) = Shr(m.base \cup Bits(k), 27), Field(swap, 20, 26) = {k - 27}
  PROVE  Exchanged(swap, a) = Partner(m, a)
<1> DEFINE unit == Shr(a, 27)
           low  == a \ Bits(k) = {}
           high == a \ Bits(k) = m.base
           base == Shr(m.base, 27)
           kept == m.base \cap Bits(32)
<1>1. m.base \in SUBSET (k .. 63) /\ (In(a, m.low) <=> low) /\ (In(a, m.high) <=> high)
  BY Regions
<1>2. m.base \subseteq k .. 33 /\ a \subseteq 0 .. 63
  BY DEF Exchanging, Address, Bits
<1>3. unit \in Address /\ k - 27 \in 0 .. 63
  BY ShrAddress
<1>4. Less(unit, {k - 27}) <=> low
  <2>1. Less(unit, {k - 27}) <=> unit \ Bits(k - 27) = {}
    BY <1>3, BelowPower
  <2>2. Shr({}, 27) = {} /\ {} \in SUBSET (k .. 63)
    BY DEF Shr
  <2>3. unit \ Bits(k - 27) = Shr({}, 27) <=> a \ Bits(k) = {}
    BY <2>2, UnitsAligned
  <2>4. QED
    BY <2>1, <2>2, <2>3
<1>5. ~Less(unit, base) /\ ~Less(Shr(m.base \cup Bits(k), 27), unit) <=> high
  <2>1. Shr(m.base \cup Bits(k), 27) = base \cup Bits(k - 27)
    <3>1. m.base \in SUBSET Int /\ m.base \cup Bits(k) \in SUBSET Int
      BY <1>2 DEF Bits
    <3>2. \A y : y \in Shr(m.base \cup Bits(k), 27)
                   <=> y \in Int /\ y >= 0 /\ y + 27 \in m.base \cup Bits(k)
      BY <3>1, ShrBits
    <3>3. \A y : y \in base <=> y \in Int /\ y >= 0 /\ y + 27 \in m.base
      BY <3>1, ShrBits
    <3>4. \A y : y \in Bits(k - 27) <=> y \in Int /\ y >= 0 /\ y + 27 \in Bits(k)
      BY DEF Bits
    <3> HIDE DEF base
    <3>5. \A y : y \in Shr(m.base \cup Bits(k), 27) <=> y \in base \cup Bits(k - 27)
      BY <3>2, <3>3, <3>4
    <3>6. QED
      BY <3>5
  <2>2. base \in SUBSET (k - 27 .. 63)
    <3>1. m.base \in SUBSET Int
      BY <1>2
    <3>2. \A y : y \in base <=> y \in Int /\ y >= 0 /\ y + 27 \in m.base
      BY <3>1, ShrBits
    <3> HIDE DEF base
    <3>3. \A y \in base : y \in k - 27 .. 63
      BY <1>1, <3>2
    <3>4. QED
      BY <3>3
  <2>3. ~Less(unit, base) /\ ~Less(base \cup Bits(k - 27), unit)
          <=> unit \ Bits(k - 27) = base
    <3> HIDE DEF unit, base
    <3>1. \A q \in 0 .. 63 : \A b \in SUBSET (q .. 63) : \A c \in Address :
            ~Less(c, b) /\ ~Less(b \cup Bits(q), c) <=> c \ Bits(q) = b
      BY Aligned
    <3>2. QED
      BY <1>3, <2>2, <3>1
  <2>4. unit \ Bits(k - 27) = base <=> high
    BY <1>1, UnitsAligned
  <2>5. QED
    BY <2>1, <2>3, <2>4
<1>6. low \/ high => Shr(a, 34) = {}
  <2> SUFFICES ASSUME low \/ high PROVE Shr(a, 34) = {}
    OBVIOUS
  <2>1. a \in SUBSET Int /\ 34 \in Int
    BY <1>2
  <2>2. \A y : y \in Shr(a, 34) <=> y \in Int /\ y >= 0 /\ y + 34 \in a
    BY <2>1, ShrBits
  <2>3. \A z \in a : z \in Bits(k) \/ z \in m.base
    OBVIOUS
  <2>4. \A z \in a : z < 34
    BY <1>2, <2>3 DEF Bits
  <2>5. QED
    BY <2>2, <2>4
<1>7. Exchanged(swap, a) = IF low \/ high THEN Xor(a, Shl(base, 27, 32)) ELSE a
  BY <1>4, <1>5, <1>6 DEF Exchanged
<1>8. Shl(base, 27, 32) = kept
  <2>1. m.base \in SUBSET Int
    BY <1>2
  <2>2. \A y : y \in base <=> y \in Int /\ y >= 0 /\ y + 27 \in m.base
    BY <2>1, ShrBits
  <2> HIDE DEF base
  <2>3. base \in SUBSET Int
    BY <2>2
  <2>4. \A y : y \in Shl(base, 27, 32) <=> y \in Int /\ y - 27 \in base /\ y < 32
    BY <2>3, InShl
  <2>5. \A y : y \in Shl(base, 27, 32) <=> y \in m.base /\ y \in Bits(32)
    BY <1>1, <2>2, <2>4 DEF Bits
  <2>6. QED
    BY <2>5
<1>9. low => Xor(a, kept) = a \cup kept
  <2>1. low => a \cap m.base = {}
    BY <1>1 DEF Bits
  <2>2. QED
    BY <2>1 DEF Xor
<1>10. high => Xor(a, kept) = a \ kept
  <2>1. high => m.base \subseteq a
    OBVIOUS
  <2>2. QED
    BY <2>1 DEF Xor
<1> HIDE DEF low, high, base, unit
<1>11. Partner(m, a) = IF low THEN a \cup kept ELSE IF high THEN a \ kept ELSE a
  BY <1>1 DEF Partner
<1>12. QED
  BY <1>7, <1>8, <1>9, <1>10, <1>11

(* The exchange leaves an address in its range, and is what the decoder    *)
(* undoes in the node of the range.                                        *)
LEMMA ExchangeInRange ==
  ASSUME NEW m \in Machines, NEW k \in 27 .. 33, Exchanging(m, k),
         NEW r \in 0 .. 7, NEW a \in Address, Within(m, r, a)
  PROVE  /\ Exchanged(SwapOf(m, r), a) = Partner(m, a)
         /\ Partner(m, a) \in Address
         /\ Within(m, r, Partner(m, a))
<1> DEFINE end  == m.base \cup Bits(k)
           low  == a \ Bits(k) = {}
           high == a \ Bits(k) = m.base
           kept == m.base \cap Bits(32)
           b    == Partner(m, a)
<1>1. m.base \in SUBSET (k .. 63) /\ (In(a, m.low) <=> low) /\ (In(a, m.high) <=> high)
  BY Regions
<1>2. b = IF low THEN a \cup kept ELSE IF high THEN a \ kept ELSE a
  BY <1>1 DEF Partner
<1>3. end \in Address
  <2>1. \A x \in m.base : x \in 0 .. 63
    BY <1>1
  <2>2. \A x \in Bits(k) : x \in 0 .. 63
    BY DEF Bits
  <2>3. QED
    BY <2>1, <2>2 DEF Address, Bits
<1>4. b \in Address
  <2>1. kept \subseteq 0 .. 63
    BY <1>3 DEF Address, Bits
  <2>2. a \subseteq 0 .. 63
    BY DEF Address, Bits
  <2> HIDE DEF b, kept, low, high
  <2>3. b \subseteq 0 .. 63
    BY <1>2, <2>1, <2>2
  <2>4. QED
    BY <2>3 DEF Address, Bits
<1>5. First(m, r) \in Address /\ Last(m, r) \in Address
  BY RangeWords
<1>6. r \in Ranges(m) /\ ~Less(a, First(m, r)) /\ ~Less(Last(m, r), a)
  BY DEF Within, Ranges
<1>7. CASE Less(end, First(m, r)) /\ 0 \notin SwapOf(m, r)
  <2>1. Less(end, a)
    <3>1. First(m, r) = a \/ Less(First(m, r), a)
      BY <1>5, <1>6, LessTotal
    <3>2. CASE First(m, r) = a
      BY <1>7, <3>2
    <3>3. CASE Less(First(m, r), a)
      BY <1>3, <1>5, <1>7, <3>3, LessTransitive
    <3>4. QED
      BY <3>1, <3>2, <3>3
  <2>2. ~low /\ ~high
    <3>1. \E x \in a : x \notin end
      BY <2>1 DEF Less
    <3>2. QED
      BY <3>1
  <2>3. b = a
    BY <1>2, <2>2
  <2>4. Exchanged(SwapOf(m, r), a) = a
    BY <1>7 DEF Exchanged
  <2>5. QED
    BY <2>3, <2>4
<1>8. CASE /\ First(m, r) = {} /\ ~Less(Last(m, r), end)
           /\ 0 \in SwapOf(m, r)
           /\ Field(SwapOf(m, r), 3, 9) = Shr(m.base, 27)
           /\ Field(SwapOf(m, r), 11, 17) = Shr(end, 27)
           /\ Field(SwapOf(m, r), 20, 26) = {k - 27}
  <2>1. Exchanged(SwapOf(m, r), a) = b
    BY <1>8, SwapMeant
  <2>2. ~Less(b, First(m, r))
    BY <1>8 DEF Less
  <2>3. ~Less(Last(m, r), b)
    <3>1. CASE ~low /\ ~high
      BY <1>2, <1>6, <3>1
    <3>2. CASE low \/ high
      <4>1. b \subseteq end
        <5>1. a \subseteq end
          BY <3>2
        <5>2. QED
          BY <1>2, <5>1
      <4>2. ~Less(end, b)
        BY <4>1 DEF Less
      <4>3. end = b \/ Less(b, end)
        BY <1>3, <1>4, <4>2, LessTotal
      <4> HIDE DEF b, end
      <4>4. CASE end = b
        BY <1>8, <4>4
      <4>5. CASE Less(b, end)
        <5>1. SUFFICES ASSUME Less(Last(m, r), b) PROVE Less(Last(m, r), end)
          BY <1>8
        <5>2. QED
          BY <1>3, <1>4, <1>5, <4>5, <5>1, LessTransitive
      <4>6. QED
        BY <4>3, <4>4, <4>5
    <3>3. QED
      BY <3>1, <3>2
  <2>4. Shr(b, 12) \cap Interleaving(m, r) = Shr(a, 12) \cap Interleaving(m, r)
    <3>1. \A x \in Interleaving(m, r) : x \in {0, 1, 2}
      BY DEF Interleaving, Field, Shr
    <3>2. a \in SUBSET Int /\ b \in SUBSET Int /\ 12 \in Int
      BY <1>4 DEF Address, Bits
    <3>3. \A x : x \in Shr(a, 12) <=> x \in Int /\ x >= 0 /\ x + 12 \in a
      BY <3>2, ShrBits
    <3>4. \A x : x \in Shr(b, 12) <=> x \in Int /\ x >= 0 /\ x + 12 \in b
      BY <3>2, ShrBits
    <3>5. \A y \in {12, 13, 14} : y \in a <=> y \in b
      <4>1. \A y \in kept : y >= 27
        BY <1>1
      <4>2. \A y \in {12, 13, 14} : y \notin kept
        BY <4>1
      <4> HIDE DEF b, kept, low, high
      <4>3. QED
        BY <1>2, <4>2
    <3> HIDE DEF b
    <3>6. \A x \in {0, 1, 2} : x \in Shr(a, 12) <=> x \in Shr(b, 12)
      <4>1. \A x \in {0, 1, 2} : x \in Int /\ x >= 0 /\ x + 12 \in {12, 13, 14}
        OBVIOUS
      <4>2. QED
        BY <3>3, <3>4, <3>5, <4>1
    <3>7. QED
      BY <3>1, <3>6
  <2>5. Within(m, r, b)
    BY <2>2, <2>3, <2>4 DEF Within
  <2>6. QED
    BY <1>4, <2>1, <2>5
<1>9. QED
  BY <1>6, <1>7, <1>8 DEF Exchanging

(* What is known of the two machines of a reboot.                          *)
LEMMA Rebooted ==
  ASSUME NEW m, NEW w, <<m, w>> \in Reboots
  PROVE  /\ m \in Machines /\ w \in Machines /\ Disjoint(m) /\ Alike(m, w)
         /\ \E k \in 27 .. 33 : Exchanging(m, k)
         /\ \A r, a : Within(m, r, a) <=> Within(w, r, a)
         /\ \A n \in 0 .. 7 : 0 \notin RegisterOf(w, Swap(n))
<1> DEFINE p == <<m, w>>
<1>1. p \in Reboots /\ p[1] = m /\ p[2] = w
  OBVIOUS
<1> HIDE DEF p
<1>2. /\ Disjoint(m) /\ \E k \in 27 .. 33 : Exchanging(m, k)
      /\ \A n \in 0 .. 7 : 0 \notin RegisterOf(w, Swap(n))
      /\ \A r \in DOMAIN m.regs \cup DOMAIN w.regs :
           r # Swap(r[1] - 24) => RegisterOf(m, r) = RegisterOf(w, r)
  BY <1>1, ExchangeAssumption
<1>3. m \in Machines /\ w \in Machines
  BY RebootsAssumption
<1>4. Alike(m, w)
  <2> SUFFICES ASSUME NEW dev, NEW func, NEW reg, func # 2 \/ reg # \h10C
               PROVE  RegisterOf(m, <<dev, func, reg>>) = RegisterOf(w, <<dev, func, reg>>)
    BY DEF Alike
  <2> DEFINE t == <<dev, func, reg>>
  <2>1. t # Swap(t[1] - 24)
    BY DEF Swap
  <2> HIDE DEF t
  <2>2. CASE t \in DOMAIN m.regs \cup DOMAIN w.regs
    BY <1>2, <2>1, <2>2 DEF t
  <2>3. CASE t \notin DOMAIN m.regs \cup DOMAIN w.regs
    BY <2>3 DEF RegisterOf, t
  <2>4. QED
    BY <2>2, <2>3
<1>5. \A r, reg : RangeOf(m, r, reg) = RangeOf(w, r, reg)
  <2>1. ASSUME NEW r, NEW reg PROVE RangeOf(m, r, reg) = RangeOf(w, r, reg)
    BY <1>4 DEF Alike, RangeOf
  <2>2. QED
    BY <2>1
<1>6. \A r, a : Within(m, r, a) <=> Within(w, r, a)
  <2> SUFFICES ASSUME NEW r, NEW a PROVE Within(m, r, a) <=> Within(w, r, a)
    OBVIOUS
  <2>1. First(m, r) = First(w, r) /\ Last(m, r) = Last(w, r)
    BY <1>5 DEF First, Last
  <2>2. Interleaving(m, r) = Interleaving(w, r) /\ Turn(m, r) = Turn(w, r)
    BY <1>5 DEF Interleaving, Turn
  <2>3. QED
    BY <1>5, <2>1, <2>2 DEF Within
<1>7. QED
  BY <1>2, <1>3, <1>4, <1>6

(* A machine whose ranges are apart, with an exchange or without.          *)
Orderly(m) ==
  /\ m \in Machines /\ Disjoint(m)
  /\ \/ \A n \in 0 .. 7 : 0 \notin RegisterOf(m, Swap(n))
     \/ \E k \in 27 .. 33 : Exchanging(m, k)

(* Both machines of a reboot are.                                          *)
LEMMA PairOrderly ==
  ASSUME NEW m, NEW w, <<m, w>> \in Reboots
  PROVE  Orderly(m) /\ Orderly(w)
<1>1. /\ m \in Machines /\ w \in Machines /\ Disjoint(m) /\ Alike(m, w)
      /\ \E k \in 27 .. 33 : Exchanging(m, k)
      /\ \A n \in 0 .. 7 : 0 \notin RegisterOf(w, Swap(n))
  BY Rebooted
<1>2. \A r, reg : RangeOf(m, r, reg) = RangeOf(w, r, reg)
  <2>1. ASSUME NEW r, NEW reg PROVE RangeOf(m, r, reg) = RangeOf(w, r, reg)
    BY <1>1 DEF Alike, RangeOf
  <2>2. QED
    BY <2>1
<1>3. \A r : /\ First(m, r) = First(w, r) /\ Last(m, r) = Last(w, r)
             /\ Interleaving(m, r) = Interleaving(w, r) /\ Turn(m, r) = Turn(w, r)
  <2>1. ASSUME NEW r
        PROVE  /\ First(m, r) = First(w, r) /\ Last(m, r) = Last(w, r)
               /\ Interleaving(m, r) = Interleaving(w, r) /\ Turn(m, r) = Turn(w, r)
    BY <1>2 DEF First, Last, Interleaving, Turn
  <2>2. QED
    BY <2>1
<1>4. Ranges(m) = Ranges(w)
  BY <1>2 DEF Ranges
<1>5. Disjoint(w)
  BY <1>1, <1>3, <1>4 DEF Disjoint
<1>6. QED
  BY <1>1, <1>5 DEF Orderly

(* There the swap leaves an address in its range.                          *)
LEMMA SwapInRange ==
  ASSUME NEW m, Orderly(m), NEW o, Words(m, o, {}, 0, 0, 0, {}),
         NEW r \in 0 .. 7, NEW a \in Address, Within(m, r, a)
  PROVE  LET b == SwappedOn(m, o, NodeOn(m, o, r), a)
         IN  b \in Address /\ Within(m, r, b)
<1>1. m \in Machines
  BY DEF Orderly
<1>2. SwappedOn(m, o, NodeOn(m, o, r), a) = Exchanged(SwapOf(m, r), a)
  BY <1>1, RangeFacts
<1>3. CASE \E k \in 27 .. 33 : Exchanging(m, k)
  BY <1>1, <1>2, <1>3, ExchangeInRange
<1>4. CASE \A n \in 0 .. 7 : 0 \notin RegisterOf(m, Swap(n))
  <2>1. 0 \notin SwapOf(m, r)
    <3>1. SwapOf(m, r) = RegisterOf(m, Swap(NodeOn(m, o, r)))
      BY <1>1, RangeFacts
    <3>2. NodeOn(m, o, r) \in 0 .. 7
      BY NodeNumber
    <3>3. QED
      BY <1>4, <3>1, <3>2
  <2>2. Exchanged(SwapOf(m, r), a) = a
    BY <2>1 DEF Exchanged
  <2>3. QED
    BY <1>2, <2>2
<1>5. QED
  BY <1>3, <1>4 DEF Orderly

-----------------------------------------------------------------------------
(* What the decoder has found out so far.                                  *)

(* Address a is in range r, of node n, and s is a swapped.                 *)
Into(m, o, a, s, r, n) ==
  /\ r \in 0 .. 7 /\ Within(m, r, a)
  /\ n = NodeOn(m, o, r) /\ s = SwappedOn(m, o, n, a)

(* The channel, the address in it, and the rank.                           *)
Route(m, o, s, r, n, c, x) == c = ChannelOn(m, o, s, r, n) /\ x = CellOn(m, o, s, r, n)

Rank(m, o, n, c, x, cs) == cs = SparedOn(m, o, n, c, Min(SelectingOn(m, o, n, c, x)))

(* The answer to address a.                                                *)
AnswerOf(m, o, a, n, c, cs, x) ==
  \E s, r : Into(m, o, a, s, r, n) /\ Route(m, o, s, r, n, c, x) /\ Rank(m, o, n, c, x, cs)

(* An address that a swap has changed is in no later range.                *)
Searched ==
  /\ DramRange \in Nat /\ SystemAddr \in Address
  /\ \/ SystemAddr = addr
     \/ \E r \in 0 .. 7 : r < DramRange /\ Within(machine, r, SystemAddr)

(* Where the decoder is on its way to the answer.                          *)
Underway ==
  opens /\ Orderly(machine) =>
    /\ pc \in {"range", "channel", "chip", "found"} => addr \in Address
    /\ pc = "range" => Searched
    /\ pc \in {"channel", "chip"} =>
         Into(machine, opens, addr, SystemAddr, DramRange, NodeID)
    /\ pc = "chip" =>
         Route(machine, opens, SystemAddr, DramRange, NodeID, Channel, ChannelAddr)
    /\ pc = "found" => AnswerOf(machine, opens, addr, NodeID, Channel, CS, ChannelAddr)

(* The answer of the first run.                                            *)
Remembered ==
  opens /\ earlier # NoAnswer /\ earlier.found /\ Orderly(earlier.machine) =>
    /\ earlier.addr \in Address
    /\ AnswerOf(earlier.machine, opens, earlier.addr, earlier.node, earlier.channel,
                earlier.cs, earlier.cell)

(* Each step finds out what the decoder on its machine finds out.          *)
LEMMA UnderwayKept ==
  Set /\ Underway /\ [NbNext]_<<vars, eccVars>> => Underway'
<1> SUFFICES ASSUME Set, Underway, [NbNext]_<<vars, eccVars>>, opens', Orderly(machine')
             PROVE  Underway'
  BY DEF Underway
<1>1. CASE UNCHANGED vars \/ (EccNext /\ UNCHANGED decodeVars)
  <2>1. /\ UNCHANGED <<machine, opens, pc, addr, SystemAddr, DramRange>>
        /\ UNCHANGED <<NodeID, Channel, CS, ChannelAddr>>
    BY <1>1 DEF vars, decodeVars, node, pci, EccNext, print_nb_cap,
                print_nb_mca_cfg, print_dct_cfg, Say, EccFails
  <2>2. QED
    BY <2>1 DEF Underway, Searched
<1>2. CASE Ask
  <2>1. /\ \E q \in Asked[machine] : addr' = q[1] \/ addr' = q[2]
        /\ SystemAddr' = addr' /\ pc' = "range" /\ DramRange' = 0
    BY <1>2 DEF Ask
  <2>2. addr' \in Address
    BY <2>1, AskedAssumption DEF Set
  <2>3. QED
    BY <2>1, <2>2 DEF Underway, Searched
<1>3. CASE Again
  BY <1>3 DEF Again, Underway
<1>4. CASE ReadFails
  BY <1>4 DEF ReadFails, Underway
<1>5. CASE ~Ask /\ ~Again /\ Next
  <2>1. UNCHANGED <<machine, opens, addr>> /\ opens /\ Orderly(machine)
    BY <1>5 DEF Next, NextRange, EnterRange, Normalize, FindChipSelect, ReadFails, pci
  <2>2. Words(machine, opens, {}, 0, 0, 0, {})
    BY <2>1, SameWord
  <2>3. \A r, a : Matches(r, a) <=> Within(machine, r, a)
    BY <2>2, Here, RangeFacts DEF Set
  <2>4. CASE NextRange
    <3>1. /\ pc = "range" /\ SystemAddr' = SystemAddr
          /\ \/ DramRange' = DramRange + 1 /\ pc' = "range"
             \/ pc' = "unmapped"
      BY <2>4 DEF NextRange
    <3>2. addr \in Address /\ Searched
      BY <2>1, <3>1 DEF Underway
    <3>3. CASE DramRange' = DramRange + 1 /\ pc' = "range"
      <4>1. Searched'
        BY <2>1, <3>1, <3>2, <3>3 DEF Searched
      <4>2. QED
        BY <2>1, <3>2, <3>3, <4>1 DEF Underway
    <3>4. CASE pc' = "unmapped"
      BY <3>4 DEF Underway
    <3>5. QED
      BY <3>1, <3>3, <3>4
  <2>5. CASE EnterRange
    <3>1. /\ pc = "range" /\ pc' = "channel" /\ DramRange' = DramRange
          /\ DramRange < 8 /\ Matches(DramRange, SystemAddr)
          /\ NodeID' = NodeOf(DramRange) /\ SystemAddr' = Swapped(NodeID', SystemAddr)
      BY <2>5 DEF EnterRange
    <3>2. addr \in Address /\ Searched
      BY <2>1, <3>1 DEF Underway
    <3>3. DramRange \in 0 .. 7 /\ SystemAddr \in Address
      BY <3>1, <3>2 DEF Searched
    <3>4. Within(machine, DramRange, SystemAddr)
      BY <2>3, <3>1
    <3>5. SystemAddr = addr
      <4>1. SUFFICES ASSUME NEW r \in 0 .. 7, r < DramRange, Within(machine, r, SystemAddr)
                     PROVE  FALSE
        BY <3>2 DEF Searched
      <4>2. r = DramRange
        BY <2>1, <3>3, <3>4, <4>1, OneRange DEF Orderly
      <4>3. QED
        BY <4>1, <4>2
    <3>6. Into(machine, opens, addr, SystemAddr', DramRange, NodeID')
      BY <3>1, <3>3, <3>4, <3>5, Here DEF Into
    <3>7. QED
      BY <2>1, <3>1, <3>2, <3>6 DEF Underway
  <2>6. CASE Normalize
    <3>1. /\ pc = "channel" /\ pc' = "chip" /\ UNCHANGED <<SystemAddr, DramRange, NodeID>>
          /\ Channel' = ChannelOf /\ ChannelAddr' = ChannelRemoved(NodeRemoved)
      BY <2>6 DEF Normalize
    <3>2. Route(machine, opens, SystemAddr, DramRange, NodeID, Channel', ChannelAddr')
      BY <3>1, Here DEF Route
    <3>3. QED
      BY <2>1, <3>1, <3>2 DEF Underway
  <2>7. CASE FindChipSelect
    <3>1. /\ pc = "chip" /\ UNCHANGED <<SystemAddr, NodeID, Channel, ChannelAddr>>
          /\ \/ CS' = Spared(Min(Selecting)) /\ pc' = "found"
             \/ DramRange' = DramRange + 1 /\ pc' = "range"
      BY <2>7 DEF FindChipSelect
    <3>2. /\ addr \in Address
          /\ Into(machine, opens, addr, SystemAddr, DramRange, NodeID)
          /\ Route(machine, opens, SystemAddr, DramRange, NodeID, Channel, ChannelAddr)
      BY <2>1, <3>1 DEF Underway
    <3>3. CASE CS' = Spared(Min(Selecting)) /\ pc' = "found"
      <4>1. Rank(machine, opens, NodeID, Channel, ChannelAddr, CS')
        BY <3>3, Here DEF Rank
      <4>2. AnswerOf(machine, opens, addr, NodeID, Channel, CS', ChannelAddr)
        BY <3>2, <4>1 DEF AnswerOf
      <4>3. QED
        BY <2>1, <3>1, <3>2, <3>3, <4>2 DEF Underway
    <3>4. CASE DramRange' = DramRange + 1 /\ pc' = "range"
      <4>1. SystemAddr \in Address /\ Within(machine, DramRange, SystemAddr)
        BY <2>1, <2>2, <3>2, SwapInRange DEF Into
      <4>2. DramRange \in 0 .. 7
        BY <3>2 DEF Into
      <4>3. Searched'
        BY <2>1, <3>1, <3>4, <4>1, <4>2 DEF Searched
      <4>4. QED
        BY <2>1, <3>2, <3>4, <4>3 DEF Underway
    <3>5. QED
      BY <3>1, <3>3, <3>4
  <2>8. CASE ReadFails
    BY <1>4, <2>8
  <2>9. QED
    BY <1>5, <2>4, <2>5, <2>6, <2>7, <2>8 DEF Next
<1>6. QED
  BY <1>1, <1>2, <1>3, <1>5 DEF NbNext, vars

(* The answer that is kept is one that was found.                          *)
LEMMA RememberedKept ==
  Underway /\ Remembered /\ [NbNext]_<<vars, eccVars>> => Remembered'
<1> SUFFICES ASSUME Underway, Remembered, [NbNext]_<<vars, eccVars>> PROVE Remembered'
  OBVIOUS
<1>1. CASE UNCHANGED <<opens, earlier>>
  BY <1>1 DEF Remembered, NoAnswer
<1>2. CASE Again
  <2>1. /\ opens' = opens
        /\ earlier' = [machine |-> machine, addr |-> addr, found |-> pc = "found",
                       node |-> NodeID, channel |-> Channel, cs |-> CS,
                       cell |-> ChannelAddr]
    BY <1>2 DEF Again
  <2>2. /\ earlier'.machine = machine /\ earlier'.addr = addr
        /\ (earlier'.found <=> pc = "found")
        /\ earlier'.node = NodeID /\ earlier'.channel = Channel
        /\ earlier'.cs = CS /\ earlier'.cell = ChannelAddr
    BY <2>1
  <2>3. opens /\ pc = "found" /\ Orderly(machine) =>
          /\ addr \in Address
          /\ AnswerOf(machine, opens, addr, NodeID, Channel, CS, ChannelAddr)
    BY DEF Underway
  <2>4. QED
    BY <2>1, <2>2, <2>3 DEF Remembered
<1>3. CASE ~Again
  <2>1. UNCHANGED <<opens, earlier>>
    BY <1>3 DEF NbNext, Next, vars, pci, decodeVars, EccNext, print_nb_cap,
                print_nb_mca_cfg, print_dct_cfg, Say, EccFails, Ask, NextRange,
                EnterRange, Normalize, FindChipSelect, ReadFails
  <2>2. QED
    BY <1>1, <2>1
<1>4. QED
  BY <1>2, <1>3

Reboot(m, w) == <<m, w>> \in Reboots
Reads(m, o)  == \A s, r, n, c, x : Words(m, o, s, r, n, c, x)

(* With and without the exchange, an address and its partner are given the *)
(* same answer.                                                            *)
LEMMA SameAnswer ==
  ASSUME NEW m, NEW w, Reboot(m, w), NEW o,
         Reads(m, o), Reads(w, o),
         NEW a \in Address,
         NEW n1, NEW c1, NEW cs1, NEW x1, AnswerOf(m, o, a, n1, c1, cs1, x1),
         NEW n2, NEW c2 \in {0, 1}, NEW cs2, NEW x2,
         AnswerOf(w, o, Partner(m, a), n2, c2, cs2, x2)
  PROVE  n1 = n2 /\ c1 = c2 /\ cs1 = cs2 /\ x1 = x2
<1> DEFINE b == Partner(m, a)
<1> USE DEF Reads, Reboot
<1>1. PICK s1, r1 : /\ Into(m, o, a, s1, r1, n1) /\ Route(m, o, s1, r1, n1, c1, x1)
                    /\ Rank(m, o, n1, c1, x1, cs1)
  BY DEF AnswerOf
<1>2. PICK s2, r2 : /\ Into(w, o, b, s2, r2, n2) /\ Route(w, o, s2, r2, n2, c2, x2)
                    /\ Rank(w, o, n2, c2, x2, cs2)
  BY DEF AnswerOf
<1>3. /\ m \in Machines /\ w \in Machines /\ Disjoint(m) /\ Alike(m, w)
      /\ \A r, c : Within(m, r, c) <=> Within(w, r, c)
      /\ \A n \in 0 .. 7 : 0 \notin RegisterOf(w, Swap(n))
  BY Rebooted
<1>4. PICK k \in 27 .. 33 : Exchanging(m, k)
  BY Rebooted
<1>5. r1 \in 0 .. 7 /\ Within(m, r1, a) /\ r2 \in 0 .. 7 /\ Within(m, r2, b)
  BY <1>1, <1>2, <1>3 DEF Into
<1>6. /\ Exchanged(SwapOf(m, r1), a) = b /\ b \in Address /\ Within(m, r1, b)
  BY <1>3, <1>4, <1>5, ExchangeInRange
<1> HIDE DEF b
<1>7. r1 = r2
  BY <1>3, <1>5, <1>6, OneRange
<1>8. n1 = n2
  <2>1. RangeOf(m, r1, \h44) = RangeOf(w, r1, \h44)
    BY <1>3 DEF Alike, RangeOf
  <2>2. At(m, o, {}, 0, 0, 0, {})!RangeReg(r1, \h44) = RangeOf(m, r1, \h44)
    BY DEF At!RangeReg, RangeOf, Words
  <2>3. At(w, o, {}, 0, 0, 0, {})!RangeReg(r1, \h44) = RangeOf(w, r1, \h44)
    BY DEF At!RangeReg, RangeOf, Words
  <2>4. NodeOn(m, o, r1) = Number(Field(At(m, o, {}, 0, 0, 0, {})!RangeReg(r1, \h44), 0, 2))
    BY DEF NodeOn, At!NodeOf, Words
  <2>5. NodeOn(w, o, r1) = Number(Field(At(w, o, {}, 0, 0, 0, {})!RangeReg(r1, \h44), 0, 2))
    BY DEF NodeOn, At!NodeOf, Words
  <2>6. NodeOn(m, o, r1) = NodeOn(w, o, r1)
    BY <2>1, <2>2, <2>3, <2>4, <2>5
  <2>7. QED
    BY <1>1, <1>2, <1>7, <2>6 DEF Into
<1>9. s1 = s2
  <2>1. s1 = b
    <3>1. s1 = Exchanged(RegisterOf(m, Swap(n1)), a)
      BY <1>1, <1>3, RangeFacts DEF Into
    <3>2. SwapOf(m, r1) = RegisterOf(m, Swap(n1))
      BY <1>1, <1>3, RangeFacts DEF Into
    <3>3. QED
      BY <1>6, <3>1, <3>2
  <2>2. s2 = b
    <3>1. s2 = Exchanged(RegisterOf(w, Swap(n2)), b)
      BY <1>2, <1>3, RangeFacts DEF Into
    <3>2. n2 \in 0 .. 7
      BY <1>2, NodeNumber DEF Into
    <3>3. QED
      BY <1>3, <3>1, <3>2 DEF Exchanged
  <2>3. QED
    BY <2>1, <2>2
<1>10. c1 = c2 /\ x1 = x2
  <2>1. /\ ChannelOn(m, o, s1, r1, n1) = ChannelOn(w, o, s1, r1, n1)
        /\ CellOn(m, o, s1, r1, n1) = CellOn(w, o, s1, r1, n1)
    BY <1>3, SameWay DEF ChannelOn, CellOn
  <2>2. QED
    BY <1>1, <1>2, <1>7, <1>8, <1>9, <2>1 DEF Route
<1>11. cs1 = cs2
  <2>1. SelectingOn(m, o, n2, c2, x2) = SelectingOn(w, o, n2, c2, x2)
    BY <1>3, SameWay DEF SelectingOn
  <2>2. \A cs : SparedOn(m, o, n2, c2, cs) = SparedOn(w, o, n2, c2, cs)
    BY <1>3, SameWay DEF SparedOn
  <2>3. QED
    BY <1>1, <1>2, <1>8, <1>10, <2>1, <2>2 DEF Rank
<1>12. QED
  BY <1>8, <1>9, <1>10, <1>11

(* What the decoder has found is what it has remembered, when the other    *)
(* machine of a reboot has been asked for the partner.                     *)
LEMMA ExchangesFound ==
  NbInv /\ Underway /\ Remembered => SwapExchanges
<1> DEFINE m  == earlier.machine
           a  == earlier.addr
           n  == earlier.node
           c  == earlier.channel
           cs == earlier.cs
           x  == earlier.cell
<1> SUFFICES ASSUME NbInv, Underway, Remembered, BothFound, <<m, machine>> \in Reboots,
                    addr = Partner(m, a)
             PROVE  Place = EarlierPlace
  BY DEF SwapExchanges
<1>1. pc = "found" /\ earlier # NoAnswer /\ earlier.found
  BY DEF BothFound
<1>2. opens /\ Channel \in {0, 1}
  BY <1>1 DEF NbInv, Unplaced, Chosen
<1>3. Orderly(m) /\ Orderly(machine) /\ Reboot(m, machine)
  BY PairOrderly DEF Reboot
<1>4. AnswerOf(machine, opens, Partner(m, a), NodeID, Channel, CS, ChannelAddr)
  BY <1>1, <1>2, <1>3 DEF Underway
<1>5. a \in Address /\ AnswerOf(m, opens, a, n, c, cs, x)
  BY <1>1, <1>2, <1>3 DEF Remembered
<1>6. Reads(m, opens) /\ Reads(machine, opens)
  BY <1>2, SameWord DEF Reads
<1>7. n = NodeID /\ c = Channel /\ cs = CS /\ x = ChannelAddr
  <2>1. Channel \in {0, 1}
    BY <1>2
  <2> HIDE DEF m, a, n, c, cs, x
  <2>2. QED
    BY <1>3, <1>4, <1>5, <1>6, <2>1, SameAnswer
<1>8. QED
  BY <1>7 DEF Place, EarlierPlace

(* Wherever the firmware puts its exchange and however large it makes it,  *)
(* an address is decoded to the place that its partner has when the        *)
(* machine is set up without the exchange, where the partner is as far     *)
(* away as 32 bits of the distance say: the code cuts it at 4 GB.          *)
THEOREM SwapExchangesAlways == NbSpec => []SwapExchanges
<1>1. NbInit => Underway /\ Remembered
  BY DEF NbInit, Init, Underway, Remembered
<1>2. Underway /\ Remembered /\ Set /\ [NbNext]_<<vars, eccVars>>
        => (Underway /\ Remembered)'
  BY UnderwayKept, RememberedKept
<1>3. NbInv => Set
  BY DEF NbInv
<1>4. QED
  BY <1>1, <1>2, <1>3, NbInvAlways, ExchangesFound, PTL DEF NbSpec

-----------------------------------------------------------------------------
(* Machines on which every block of memory has a place of its own.         *)

(* How a node selects the channel.                                         *)
ChannelsOf(m, n) == RegisterOf(m, <<24 + n, 2, \h110>>)

(* A machine without a hole, with a range for each node, whose channels    *)
(* take turns or are one above the other (or there is one), and whose      *)
(* exchange, if it makes one, is below 4 GB.                               *)
Straight(m) ==
  /\ Disjoint(m)
  /\ \/ \A n \in 0 .. 7 : 0 \notin RegisterOf(m, Swap(n))
     \/ m.base \subseteq 0 .. 31 /\ \E k \in 27 .. 33 : Exchanging(m, k)
  /\ \A r, q \in Ranges(m) : NodeIn(m, r) = NodeIn(m, q) => r = q
  /\ \A r \in Ranges(m) : Interleaving(m, r) \in {{}, {0}, {0, 1}, {0, 1, 2}}
  /\ \A n \in 0 .. 7 :
       /\ 0 \notin RegisterOf(m, <<24 + n, 1, \hF0>>)
       /\ 4 \in ChannelsOf(m, n) \/ ~({0, 2} \subseteq ChannelsOf(m, n))

-----------------------------------------------------------------------------
(* What removing and subtracting leave to tell two words apart.            *)

(* A set of bits that is not empty has a lowest one.                       *)
LEMMA Lowest ==
  ASSUME NEW S \in SUBSET (0 .. 63), S # {}
  PROVE  \E k \in S : \A j \in S : k <= j
<1> DEFINE T == {63 - j : j \in S}
<1>1. T \in SUBSET (0 .. 63) /\ T # {}
  <2>1. \A j \in S : 63 - j \in 0 .. 63
    OBVIOUS
  <2>2. QED
    BY <2>1, Zenon
<1> HIDE DEF T
<1>2. PICK x \in T : \A y \in T : y <= x
  BY <1>1, Highest
<1>3. PICK k \in S : x = 63 - k
  BY DEF T
<1>4. \A j \in S : 63 - j \in T
  BY DEF T
<1>5. \A j \in S : k <= j
  BY <1>2, <1>3, <1>4
<1>6. QED
  BY <1>5

(* A bit of a difference: those of the two words, and whether it is        *)
(* borrowed.                                                               *)
LEMMA MinusBit ==
  ASSUME NEW a, NEW b, NEW w, NEW k \in Bits(w)
  PROVE  k \in Minus(a, b, w)
           <=> (k \in Xor(a, b) <=> ~Less({j \in a : j < k}, {j \in b : j < k}))
<1> DEFINE borrowed == Less({j \in a : j < k}, {j \in b : j < k})
           differ   == k \in Xor(a, b)
<1>1. k \in Minus(a, b, w) <=> (differ # borrowed)
  BY DEF Minus
<1>2. borrowed \in BOOLEAN /\ differ \in BOOLEAN
  BY DEF Less
<1> HIDE DEF borrowed, differ
<1>3. (differ # borrowed) <=> (differ <=> ~borrowed)
  BY <1>2
<1>4. QED
  BY <1>1, <1>3 DEF borrowed, differ

(* Below all bits of the subtrahend, a word is left as it is.              *)
LEMMA LowKept ==
  ASSUME NEW a, NEW b, NEW w \in Int, NEW k \in Int, 0 <= k, k < w,
         \A i \in b : i \in Int /\ i > k
  PROVE  k \in Minus(a, b, w) <=> k \in a
<1> DEFINE Below(c) == {j \in c : j < k}
<1>1. Below(b) = {}
  OBVIOUS
<1>2. ~Less(Below(a), Below(b))
  BY <1>1 DEF Less
<1>3. k \in Xor(a, b) <=> k \in a
  BY DEF Xor
<1>4. k \in Bits(w)
  BY DEF Bits
<1>5. QED
  BY <1>2, <1>3, <1>4, MinusBit

(* Two words that differ, differ when the same is taken from them.         *)
LEMMA MinusTells ==
  ASSUME NEW a \in SUBSET (6 .. 47), NEW b \in SUBSET (6 .. 47), NEW c,
         \A k \in 6 .. 47 : k \in Minus(a, c, 64) <=> k \in Minus(b, c, 64)
  PROVE  a = b
<1> SUFFICES ASSUME a # b PROVE FALSE
  OBVIOUS
<1>1. Xor(a, b) \in SUBSET (0 .. 63) /\ Xor(a, b) # {}
  BY DEF Xor
<1>2. PICK k \in Xor(a, b) : \A j \in Xor(a, b) : k <= j
  BY <1>1, Lowest
<1>3. k \in 6 .. 47 /\ k \in Bits(64)
  BY <1>2 DEF Xor, Bits
<1> DEFINE Below(d) == {j \in d : j < k}
<1>4. Below(a) = Below(b)
  <2>1. ASSUME NEW j, j \in a, j < k PROVE j \in b
    BY <1>2, <1>3, <2>1 DEF Xor
  <2>2. ASSUME NEW j, j \in b, j < k PROVE j \in a
    BY <1>2, <1>3, <2>2 DEF Xor
  <2>3. QED
    BY <2>1, <2>2
<1>5. k \in Minus(a, c, 64) <=> (k \in Xor(a, c) <=> ~Less(Below(a), Below(c)))
  BY <1>3, MinusBit
<1>6. k \in Minus(b, c, 64) <=> (k \in Xor(b, c) <=> ~Less(Below(b), Below(c)))
  BY <1>3, MinusBit
<1>7. (k \in Xor(a, c)) <=> ~(k \in Xor(b, c))
  BY <1>2 DEF Xor
<1> HIDE DEF Below
<1>8. (k \in Xor(a, c)) <=> (k \in Xor(b, c))
  BY <1>3, <1>4, <1>5, <1>6, Zenon
<1>9. QED
  BY <1>7, <1>8

(* A word without the k bits that select its node, and without the one     *)
(* that selects its channel.                                               *)
NodeOff(x, k) == (Shr(x, k) \cap (12 .. 47)) \cup (x \cap (6 .. 11))

ChannelOff(x, how) ==
  IF 0 \notin how THEN Shr(x, 1) \cap (6 .. 63)
  ELSE IF how = {0} THEN Shr(x \cap (13 .. 63), 1) \cup (x \cap (6 .. 11))
  ELSE Shr(x \cap (10 .. 63), 1) \cup (x \cap (6 .. 8))

ChannelBit(how) == IF 0 \notin how THEN 6 ELSE IF how = {0} THEN 12 ELSE 9

(* Without the bits of the node, the low bits stay and the high move down. *)
LEMMA NodeOffBits ==
  ASSUME NEW x \in SUBSET Int, NEW k \in 0 .. 3
  PROVE  /\ NodeOff(x, k) \in SUBSET (6 .. 47)
         /\ \A j \in 6 .. 11 : j \in NodeOff(x, k) <=> j \in x
         /\ \A j \in 12 .. 47 : j \in NodeOff(x, k) <=> j + k \in x
<1>1. \A y : y \in Shr(x, k) <=> y \in Int /\ y >= 0 /\ y + k \in x
  BY ShrBits
<1>2. QED
  BY <1>1 DEF NodeOff

(* Without the bit of the channel, all other bits can be told.             *)
LEMMA ChannelOffTells ==
  ASSUME NEW x \in SUBSET (6 .. 47), NEW y \in SUBSET (6 .. 47),
         NEW how \in SUBSET {0, 1}, ChannelOff(x, how) = ChannelOff(y, how)
  PROVE  \A j \in 6 .. 47 : j # ChannelBit(how) => (j \in x <=> j \in y)
<1> SUFFICES ASSUME NEW j \in 6 .. 47, j # ChannelBit(how)
             PROVE  j \in x <=> j \in y
  OBVIOUS
<1>1. CASE 0 \notin how
  <2>1. \A z \in SUBSET (6 .. 47) : j - 1 \in Shr(z, 1) \cap (6 .. 63) <=> j \in z
    <3>1. ASSUME NEW z \in SUBSET (6 .. 47)
          PROVE  j - 1 \in Shr(z, 1) \cap (6 .. 63) <=> j \in z
      <4>1. j # 6 /\ z \in SUBSET Int
        BY <1>1 DEF ChannelBit
      <4>2. j - 1 \in Shr(z, 1) <=> j - 1 >= 0 /\ (j - 1) + 1 \in z
        BY <4>1, ShrBits
      <4>3. (j - 1) + 1 = j /\ j - 1 \in 6 .. 63
        BY <4>1
      <4>4. QED
        BY <4>2, <4>3
    <3>2. QED
      BY <3>1
  <2>2. QED
    BY <1>1, <2>1 DEF ChannelOff
<1>2. ASSUME NEW l \in {9, 12}, j # l,
             Shr(x \cap (l + 1 .. 63), 1) \cup (x \cap (6 .. l - 1))
               = Shr(y \cap (l + 1 .. 63), 1) \cup (y \cap (6 .. l - 1))
      PROVE  j \in x <=> j \in y
  <2>1. ASSUME NEW z \in SUBSET (6 .. 47)
        PROVE  LET f == Shr(z \cap (l + 1 .. 63), 1) \cup (z \cap (6 .. l - 1))
               IN  /\ j < l => (j \in f <=> j \in z)
                   /\ j > l => (j - 1 \in f <=> j \in z)
    <3>1. z \cap (l + 1 .. 63) \in SUBSET Int
      OBVIOUS
    <3>2. \A i : i \in Shr(z \cap (l + 1 .. 63), 1)
                   <=> i \in Int /\ i >= 0 /\ i + 1 \in z \cap (l + 1 .. 63)
      BY <3>1, ShrBits
    <3>3. j < l => j \notin Shr(z \cap (l + 1 .. 63), 1)
      BY <3>2
    <3>4. j > l => (j - 1 \in Shr(z \cap (l + 1 .. 63), 1) <=> j \in z)
      <4> SUFFICES ASSUME j > l
                   PROVE  j - 1 \in Shr(z \cap (l + 1 .. 63), 1) <=> j \in z
        OBVIOUS
      <4>1. (j - 1) + 1 = j /\ j - 1 \in Int /\ j - 1 >= 0 /\ j \in l + 1 .. 63
        OBVIOUS
      <4>2. QED
        BY <3>2, <4>1
    <3>5. QED
      BY <3>3, <3>4
  <2>2. j < l \/ j > l
    BY <1>2
  <2>3. QED
    BY <1>2, <2>1, <2>2
<1>3. CASE how = {0}
  <2>1. j # 12 /\ 12 + 1 = 13 /\ 12 - 1 = 11
    BY <1>3 DEF ChannelBit
  <2>2. Shr(x \cap (12 + 1 .. 63), 1) \cup (x \cap (6 .. 12 - 1))
          = Shr(y \cap (12 + 1 .. 63), 1) \cup (y \cap (6 .. 12 - 1))
    BY <1>3, <2>1 DEF ChannelOff
  <2>3. QED
    BY <1>2, <2>1, <2>2
<1>4. CASE 0 \in how /\ how # {0}
  <2>1. j # 9 /\ 9 + 1 = 10 /\ 9 - 1 = 8
    BY <1>4 DEF ChannelBit
  <2>2. Shr(x \cap (9 + 1 .. 63), 1) \cup (x \cap (6 .. 9 - 1))
          = Shr(y \cap (9 + 1 .. 63), 1) \cup (y \cap (6 .. 9 - 1))
    BY <1>4, <2>1 DEF ChannelOff
  <2>3. QED
    BY <1>2, <2>1, <2>2
<1>5. QED
  BY <1>1, <1>3, <1>4

-----------------------------------------------------------------------------
(* The decoder's way on a straight machine.                                *)

High(sel, s) ==
  /\ 0 \in sel /\ 4 \notin sel
  /\ ~Less(Shr(s, 27), Shr(sel \cap (11 .. 31), 11))

Taken(m, n, r, s) ==
  (IF High(ChannelsOf(m, n), s)
   THEN Shl(RegisterOf(m, <<24 + n, 2, \h114>>) \cap (10 .. 31), 16, 64)
   ELSE First(m, r) \cap (27 .. 47)) \cap (23 .. 47)

Rest(m, n, r, s) == Minus(s \cap (6 .. 47), Taken(m, n, r, s), 64)

(* How many bits select the node, and which bit the channel.               *)
Count(en) == IF en = {} THEN 0 ELSE IF en = {0} THEN 1 ELSE IF en = {0, 1} THEN 2 ELSE 3

SelectingBit(how, en) ==
  IF how \in {{}, {1}} THEN 6 ELSE IF how = {0} THEN 12 + Count(en) ELSE 9

Hash(how, s) == IF 1 \in how THEN Cardinality(s \cap (16 .. 20)) % 2 ELSE 0

How(m, n) == Field(ChannelsOf(m, n), 6, 7)

(* There are four ways to select the channel.                              *)
LEMMA HowBits == \A m, n : How(m, n) \in {{}, {0}, {1}, {0, 1}}
<1> SUFFICES ASSUME NEW m, NEW n PROVE How(m, n) \in {{}, {0}, {1}, {0, 1}}
  OBVIOUS
<1>1. \A x \in How(m, n) : x \in {0, 1}
  BY DEF How, Field, Shr
<1> DEFINE h == How(m, n)
<1> HIDE DEF h
<1>2. \A x \in h : x \in {0, 1}
  BY <1>1 DEF h
<1>3. h \in {{}, {0}, {1}, {0, 1}}
  BY <1>2
<1>4. QED
  BY <1>3 DEF h

(* The highest of the bits that can be set.                                *)
LEMMA HighestOf == Max({0}) = 0 /\ Max({0, 1}) = 1 /\ Max({0, 1, 2}) = 2
<1>1. ASSUME NEW S, NEW x \in S, \A y \in S : x >= y,
             \A z \in S : (\A y \in S : z >= y) => z = x
      PROVE  Max(S) = x
  BY <1>1 DEF Max
<1>2. Max({0}) = 0
  BY <1>1
<1>3. Max({0, 1}) = 1
  BY <1>1
<1>4. Max({0, 1, 2}) = 2
  BY <1>1
<1>5. QED
  BY <1>2, <1>3, <1>4

(* What the decoder derives on its way: the select register, whether the   *)
(* address is in the high range, what is left of it without the offset,    *)
(* and without the node, and the bit that selects the channel.             *)
LEMMA Ways ==
  ASSUME NEW m, NEW o, NEW s, NEW r, NEW n, Words(m, o, s, r, n, 0, {}),
         0 \notin RegisterOf(m, <<24 + n, 1, \hF0>>),
         Interleaving(m, r) \in {{}, {0}, {0, 1}, {0, 1, 2}}
  PROVE  /\ At(m, o, s, r, n, 0, {})!DctSel = ChannelsOf(m, n)
         /\ At(m, o, s, r, n, 0, {})!HiRangeSelected <=> High(ChannelsOf(m, n), s)
         /\ At(m, o, s, r, n, 0, {})!Normalized = Rest(m, n, r, s)
         /\ At(m, o, s, r, n, 0, {})!NodeRemoved
              = NodeOff(Rest(m, n, r, s), Count(Interleaving(m, r)))
         /\ At(m, o, s, r, n, 0, {})!Interleaved
              = (BitOf(s, SelectingBit(How(m, n), Interleaving(m, r)))
                   + Hash(How(m, n), s)) % 2
<1> DEFINE sel == ChannelsOf(m, n)
           en  == Interleaving(m, r)
<1>1. At(m, o, s, r, n, 0, {})!DctSel = sel
  BY DEF At!DctSel, ChannelsOf, Words
<1>2. \A reg : At(m, o, s, r, n, 0, {})!RangeReg(r, reg) = RangeOf(m, r, reg)
  BY DEF At!RangeReg, RangeOf, Words
<1>3. At(m, o, s, r, n, 0, {})!IntlvEn(r) = en
  BY <1>2 DEF At!IntlvEn, Interleaving, Words
<1>4. At(m, o, s, r, n, 0, {})!HiRangeSelected <=> High(sel, s)
  BY <1>1 DEF At!HiRangeSelected, At!DctSelHiRngEn, At!DctGangEn, At!DctSelBaseAddr,
              High, Words
<1>5. ~At(m, o, s, r, n, 0, {})!AboveHole
  <2>1. At(m, o, s, r, n, 0, {})!DramHole = RegisterOf(m, <<24 + n, 1, \hF0>>)
    BY DEF At!DramHole, Words
  <2>2. QED
    BY <2>1 DEF At!AboveHole
<1>6. At(m, o, s, r, n, 0, {})!DramBaseLong(r) = First(m, r)
  <2>1. At(m, o, s, r, n, 0, {})!DramBaseLong(r)
          = Long(At(m, o, s, r, n, 0, {})!RangeReg(r, \h140),
                 At(m, o, s, r, n, 0, {})!RangeReg(r, \h40) \cap (16 .. 31))
    BY DEF At!DramBaseLong, Words
  <2>2. QED
    BY <1>2, <2>1 DEF First
<1>7. At(m, o, s, r, n, 0, {})!DctSelBaseOffset
        = Shl(RegisterOf(m, <<24 + n, 2, \h114>>) \cap (10 .. 31), 16, 64)
  BY DEF At!DctSelBaseOffset, Words
<1>8. At(m, o, s, r, n, 0, {})!ChannelOffset \cap (23 .. 47) = Taken(m, n, r, s)
  BY <1>4, <1>5, <1>6, <1>7 DEF At!ChannelOffset, Taken
<1>9. At(m, o, s, r, n, 0, {})!Normalized = Rest(m, n, r, s)
  BY <1>8 DEF At!Normalized, Rest, Words
<1>10. At(m, o, s, r, n, 0, {})!Ilog(r) = Count(en)
  <2>1. At(m, o, s, r, n, 0, {})!Ilog(r)
          = CASE en = {0} -> 1 [] en = {0, 1} -> 2 [] en = {0, 1, 2} -> 3 [] OTHER -> 0
    BY <1>3, Zenon DEF At!Ilog
  <2> HIDE DEF en
  <2>2. en \in {{}, {0}, {0, 1}, {0, 1, 2}}
    BY DEF en
  <2>3. CASE en = {}
    <3>1. At(m, o, s, r, n, 0, {})!Ilog(r) = 0
      BY <2>1, <2>3
    <3>2. QED
      BY <2>3, <3>1 DEF Count
  <2>4. CASE en = {0}
    <3>1. At(m, o, s, r, n, 0, {})!Ilog(r) = 1
      BY <2>1, <2>4
    <3>2. QED
      BY <2>4, <3>1 DEF Count
  <2>5. CASE en = {0, 1}
    <3>1. At(m, o, s, r, n, 0, {})!Ilog(r) = 2
      BY <2>1, <2>5
    <3>2. QED
      BY <2>5, <3>1 DEF Count
  <2>6. CASE en = {0, 1, 2}
    <3>1. At(m, o, s, r, n, 0, {})!Ilog(r) = 3
      BY <2>1, <2>6
    <3>2. QED
      BY <2>6, <3>1 DEF Count
  <2>7. QED
    BY <2>2, <2>3, <2>4, <2>5, <2>6
<1>11. At(m, o, s, r, n, 0, {})!NodeRemoved = NodeOff(Rest(m, n, r, s), Count(en))
  BY <1>9, <1>10 DEF At!NodeRemoved, NodeOff, Words
<1>12. At(m, o, s, r, n, 0, {})!Interleaved
         = (BitOf(s, SelectingBit(How(m, n), en)) + Hash(How(m, n), s)) % 2
  <2> DEFINE how  == How(m, n)
             par  == Cardinality(s \cap (16 .. 20)) % 2
             past == IF en = {} THEN 12 ELSE 13 + Max(en)
  <2>1. At(m, o, s, r, n, 0, {})!DctSelIntLvAddr = how
    BY <1>1 DEF At!DctSelIntLvAddr, How, Words
  <2>2. At(m, o, s, r, n, 0, {})!Parity = par
    BY DEF At!Parity, At!Cardinality, Cardinality
  <2>3. past = 12 + Count(en)
    BY HighestOf DEF Count
  <2>4. At(m, o, s, r, n, 0, {})!Interleaved
          = CASE how = {}     -> BitOf(s, 6)
              [] how = {1}    -> (BitOf(s, 6) + par) % 2
              [] how = {0, 1} -> (BitOf(s, 9) + par) % 2
              [] OTHER -> BitOf(s, past)
    <3> DEFINE F(h, p, e) ==
                 CASE h = {}     -> BitOf(s, 6)
                   [] h = {1}    -> (BitOf(s, 6) + p) % 2
                   [] h = {0, 1} -> (BitOf(s, 9) + p) % 2
                   [] OTHER -> BitOf(s, IF e = {} THEN 12 ELSE 13 + Max(e))
    <3>1. At(m, o, s, r, n, 0, {})!Interleaved
            = F(At(m, o, s, r, n, 0, {})!DctSelIntLvAddr, At(m, o, s, r, n, 0, {})!Parity,
                At(m, o, s, r, n, 0, {})!IntlvEn(r))
      BY DEF At!Interleaved, BitOf, At!BitOf, Max, At!Max
    <3> HIDE DEF F
    <3>2. At(m, o, s, r, n, 0, {})!Interleaved = F(how, par, en)
      BY <1>3, <2>1, <2>2, <3>1
    <3>3. QED
      BY <3>2 DEF F
  <2>5. how \in {{}, {0}, {1}, {0, 1}}
    BY HowBits
  <2>6. \A b : BitOf(s, b) \in {0, 1}
    BY DEF BitOf
  <2> DEFINE seen == At(m, o, s, r, n, 0, {})!Interleaved
  <2> HIDE DEF how, past, en, seen
  <2>7. CASE how = {}
    <3>1. seen = BitOf(s, 6)
      BY <2>4, <2>7 DEF seen
    <3>2. (BitOf(s, 6) + 0) % 2 = BitOf(s, 6)
      BY <2>6
    <3>3. SelectingBit(how, en) = 6 /\ Hash(how, s) = 0
      BY <2>7 DEF SelectingBit, Hash
    <3>4. QED
      BY <3>1, <3>2, <3>3 DEF seen, how
  <2>8. CASE how = {1}
    <3>1. seen = (BitOf(s, 6) + par) % 2
      BY <2>4, <2>8 DEF seen
    <3>2. SelectingBit(how, en) = 6 /\ Hash(how, s) = par
      BY <2>8 DEF SelectingBit, Hash
    <3>3. QED
      BY <3>1, <3>2 DEF seen, how
  <2>9. CASE how = {0, 1}
    <3>1. seen = (BitOf(s, 9) + par) % 2
      BY <2>4, <2>9 DEF seen
    <3>2. SelectingBit(how, en) = 9 /\ Hash(how, s) = par
      BY <2>9 DEF SelectingBit, Hash
    <3>3. QED
      BY <3>1, <3>2 DEF seen, how
  <2>10. CASE how = {0}
    <3>1. seen = BitOf(s, past)
      BY <2>4, <2>10 DEF seen
    <3>2. (BitOf(s, past) + 0) % 2 = BitOf(s, past)
      BY <2>6
    <3>3. SelectingBit(how, en) = past /\ Hash(how, s) = 0
      BY <2>3, <2>10 DEF SelectingBit, Hash
    <3>4. QED
      BY <3>1, <3>2, <3>3 DEF seen, how
  <2>11. QED
    BY <2>5, <2>7, <2>8, <2>9, <2>10
<1>13. QED
  BY <1>1, <1>4, <1>9, <1>11, <1>12

(* Channels that take turns.                                               *)
Mixed(sel) == 2 \in sel /\ 4 \notin sel

(* Which channel an address goes to.                                       *)
LEMMA ChannelIs ==
  ASSUME NEW m, NEW o, NEW s, NEW r, NEW n, Words(m, o, s, r, n, 0, {}),
         0 \notin RegisterOf(m, <<24 + n, 1, \hF0>>),
         Interleaving(m, r) \in {{}, {0}, {0, 1}, {0, 1, 2}}
  PROVE  LET sel == ChannelsOf(m, n)
             hi  == IF 1 \in sel THEN 1 ELSE 0
         IN  ChannelOn(m, o, s, r, n) =
               IF 4 \in sel THEN 0
               ELSE IF High(sel, s) THEN hi
               ELSE IF 2 \in sel
               THEN (BitOf(s, SelectingBit(How(m, n), Interleaving(m, r)))
                       + Hash(How(m, n), s)) % 2
               ELSE IF 0 \in sel THEN 1 - hi ELSE 0
<1> DEFINE sel  == ChannelsOf(m, n)
           hi   == IF 1 \in sel THEN 1 ELSE 0
           gang == 4 \in sel
           high == High(sel, s)
           turn == 2 \in sel
           seen == (BitOf(s, SelectingBit(How(m, n), Interleaving(m, r)))
                      + Hash(How(m, n), s)) % 2
           rest == IF 0 \in sel THEN 1 - hi ELSE 0
<1>1. /\ At(m, o, s, r, n, 0, {})!DctSel = sel
      /\ At(m, o, s, r, n, 0, {})!HiRangeSelected <=> high
      /\ At(m, o, s, r, n, 0, {})!Interleaved = seen
  BY Ways
<1>2. /\ At(m, o, s, r, n, 0, {})!DctGangEn <=> gang
      /\ At(m, o, s, r, n, 0, {})!DctSelIntLvEn <=> turn
      /\ At(m, o, s, r, n, 0, {})!DctSelHiRngEn <=> 0 \in sel
      /\ At(m, o, s, r, n, 0, {})!DctSelHi = hi
  BY <1>1 DEF At!DctGangEn, At!DctSelIntLvEn, At!DctSelHiRngEn, At!DctSelHi
<1> DEFINE chan == ChannelOn(m, o, s, r, n)
<1>3. chan = CASE gang                     -> 0
               [] ~gang /\ high            -> hi
               [] ~gang /\ ~high /\ turn   -> seen
               [] ~gang /\ ~high /\ ~turn  -> rest
  BY <1>1, <1>2, Zenon DEF ChannelOn, At!ChannelOf
<1> SUFFICES chan = IF gang THEN 0 ELSE IF high THEN hi ELSE IF turn THEN seen ELSE rest
  OBVIOUS
<1> HIDE DEF chan, gang, high, hi, turn, seen, rest
<1>4. CASE gang
  BY <1>3, <1>4, Zenon
<1>5. CASE ~gang /\ high
  BY <1>3, <1>5, Zenon
<1>6. CASE ~gang /\ ~high /\ turn
  BY <1>3, <1>6, Zenon
<1>7. CASE ~gang /\ ~high /\ ~turn
  BY <1>3, <1>7, Zenon
<1>8. QED
  BY <1>4, <1>5, <1>6, <1>7

(* Which address in it.                                                    *)
LEMMA CellIs ==
  ASSUME NEW m, NEW o, NEW s, NEW r, NEW n, Words(m, o, s, r, n, 0, {}),
         0 \notin RegisterOf(m, <<24 + n, 1, \hF0>>),
         4 \in ChannelsOf(m, n) \/ ~({0, 2} \subseteq ChannelsOf(m, n)),
         Interleaving(m, r) \in {{}, {0}, {0, 1}, {0, 1, 2}}
  PROVE  LET f == NodeOff(Rest(m, n, r, s), Count(Interleaving(m, r)))
         IN  CellOn(m, o, s, r, n) =
               IF Mixed(ChannelsOf(m, n)) THEN ChannelOff(f, How(m, n)) ELSE f
<1> DEFINE sel == ChannelsOf(m, n)
           how == How(m, n)
           f   == NodeOff(Rest(m, n, r, s), Count(Interleaving(m, r)))
<1>1. /\ At(m, o, s, r, n, 0, {})!DctSel = sel
      /\ At(m, o, s, r, n, 0, {})!HiRangeSelected <=> High(sel, s)
      /\ At(m, o, s, r, n, 0, {})!NodeRemoved = f
  BY Ways
<1>2. /\ At(m, o, s, r, n, 0, {})!DctGangEn <=> 4 \in sel
      /\ At(m, o, s, r, n, 0, {})!DctSelIntLvEn <=> 2 \in sel
      /\ At(m, o, s, r, n, 0, {})!DctSelIntLvAddr = how
  BY <1>1 DEF At!DctGangEn, At!DctSelIntLvEn, At!DctSelIntLvAddr, How, Words
<1>3. Mixed(sel) => ~High(sel, s)
  BY DEF Mixed, High
<1>4. ~At(m, o, s, r, n, 0, {})!DctSelIntLvEn \/ At(m, o, s, r, n, 0, {})!HiRangeSelected
        \/ At(m, o, s, r, n, 0, {})!DctGangEn <=> ~Mixed(sel)
  BY <1>1, <1>2, <1>3 DEF Mixed, High
<1> DEFINE F(h, x) == CASE 0 \notin h  -> Shr(x, 1) \cap (6 .. 63)
                        [] h = {0}     -> Shr(x \cap (13 .. 63), 1) \cup (x \cap (6 .. 11))
                        [] h = {0, 1}  -> Shr(x \cap (10 .. 63), 1) \cup (x \cap (6 .. 8))
<1>5. CellOn(m, o, s, r, n) =
        IF ~At(m, o, s, r, n, 0, {})!DctSelIntLvEn \/ At(m, o, s, r, n, 0, {})!HiRangeSelected
             \/ At(m, o, s, r, n, 0, {})!DctGangEn
        THEN At(m, o, s, r, n, 0, {})!NodeRemoved
        ELSE F(At(m, o, s, r, n, 0, {})!DctSelIntLvAddr, At(m, o, s, r, n, 0, {})!NodeRemoved)
  BY DEF CellOn, At!ChannelRemoved, Shr, At!Shr
<1>6. F(how, f) = ChannelOff(f, how)
  <2> HIDE DEF f, how
  <2>1. how \in {{}, {0}, {1}, {0, 1}}
    BY HowBits DEF how
  <2>2. CASE 0 \notin how
    <3>1. F(how, f) = Shr(f, 1) \cap (6 .. 63)
      BY <2>2, Zenon
    <3>2. QED
      BY <2>2, <3>1 DEF ChannelOff
  <2>3. CASE how = {0}
    <3>1. 0 \in how /\ how # {0, 1}
      BY <2>3
    <3>2. F(how, f) = Shr(f \cap (13 .. 63), 1) \cup (f \cap (6 .. 11))
      BY <2>3, <3>1, Zenon
    <3>3. QED
      BY <2>3, <3>1, <3>2 DEF ChannelOff
  <2>4. CASE how = {0, 1}
    <3>1. 0 \in how /\ how # {0}
      BY <2>4
    <3>2. F(how, f) = Shr(f \cap (10 .. 63), 1) \cup (f \cap (6 .. 8))
      BY <2>4, <3>1, Zenon
    <3>3. QED
      BY <3>1, <3>2 DEF ChannelOff
  <2>5. QED
    BY <2>1, <2>2, <2>3, <2>4
<1> HIDE DEF F, f, how, sel
<1>7. CellOn(m, o, s, r, n) = IF Mixed(sel) THEN ChannelOff(f, how) ELSE f
  BY <1>1, <1>2, <1>4, <1>5, <1>6
<1>8. QED
  BY <1>7 DEF F, f, how, sel

(* Ranges end below 2^48.                                                  *)
LEMMA Within48 ==
  ASSUME NEW m \in Machines, NEW r, NEW a \in Address, Within(m, r, a)
  PROVE  a \subseteq 0 .. 47
<1> DEFINE high == RangeOf(m, r, \h144)
           low  == RangeOf(m, r, \h44) \cap (16 .. 31)
           h    == Shl(high \cap Bits(8), 32, 64)
<1>1. high \subseteq 0 .. 31 /\ low \subseteq 0 .. 31
  BY RegisterBits DEF RangeOf
<1> HIDE DEF high, low
<1>2. \A y : y \in h <=> y \in Int /\ y - 32 \in high \cap Bits(8) /\ y < 64
  <2>1. high \cap Bits(8) \in SUBSET Int
    BY DEF Bits
  <2>2. QED
    BY <2>1, InShl
<1>3. \A y \in h : y \in 0 .. 39
  BY <1>2 DEF Bits
<1> DEFINE v == h \cup low
<1>4. Last(m, r) = Shl(v, 8, 64) \cup Bits(24)
  BY DEF Last, Long, high, low, h
<1> HIDE DEF h
<1>5. \A y \in v : y \in 0 .. 39
  <2>1. \A y \in low : y \in 0 .. 39
    BY <1>1
  <2>2. QED
    BY <1>3, <2>1
<1> HIDE DEF v
<1>6. v \in SUBSET Int
  BY <1>5
<1>7. \A y : y \in Shl(v, 8, 64) <=> y \in Int /\ y - 8 \in v /\ y < 64
  BY <1>6, InShl
<1>8. \A y \in Last(m, r) : y \in 0 .. 47
  BY <1>4, <1>5, <1>7 DEF Bits
<1>9. a \subseteq 0 .. 63 /\ ~Less(Last(m, r), a)
  BY DEF Within, Address, Bits
<1> DEFINE S == a \ (0 .. 47)
<1> SUFFICES ASSUME S # {} PROVE FALSE
  BY <1>9
<1>10. S \in SUBSET (0 .. 63)
  BY <1>9
<1>11. PICK k \in S : \A j \in S : j <= k
  BY <1>10, Highest
<1>12. k \in a \ Last(m, r)
  BY <1>8, <1>11
<1>13. \A j \in Last(m, r) \ a : j < k
  BY <1>8, <1>9, <1>11
<1>14. QED
  BY <1>9, <1>12, <1>13 DEF Less

(* The parity that a hash adds is one bit.                                 *)
LEMMA HashBit == \A how, s : Hash(how, s) \in {0, 1}
<1> SUFFICES ASSUME NEW s PROVE Cardinality(s \cap (16 .. 20)) % 2 \in {0, 1}
  BY DEF Hash
<1>1. \A a, b \in Int : IsFiniteSet(a .. b)
  BY FS_Interval
<1>2. IsFiniteSet(s \cap (16 .. 20))
  <2> DEFINE S == 16 .. 20
  <2>1. IsFiniteSet(S)
    <3>1. 16 \in Int /\ 20 \in Int
      OBVIOUS
    <3>2. QED
      BY <1>1, <3>1, Zenon
  <2> HIDE DEF S
  <2>2. IsFiniteSet(s \cap S)
    BY <2>1, FS_Subset
  <2>3. QED
    BY <2>2 DEF S
<1>3. Cardinality(s \cap (16 .. 20)) \in Nat
  BY <1>2, FS_CardinalityType
<1>4. QED
  BY <1>3

(* In a range, two words that are decoded to the same channel and to the   *)
(* same address in it are the same.                                        *)
LEMMA SameBlock ==
  ASSUME NEW m \in Machines, Straight(m), NEW o, Reads(m, o),
         NEW r \in 0 .. 7, NEW n \in 0 .. 7, NEW s \in Address, NEW t \in Address,
         Within(m, r, s), Within(m, r, t),
         ChannelOn(m, o, s, r, n) = ChannelOn(m, o, t, r, n),
         CellOn(m, o, s, r, n) = CellOn(m, o, t, r, n)
  PROVE  s \cap (6 .. 63) = t \cap (6 .. 63)
<1> DEFINE sel == ChannelsOf(m, n)
           en  == Interleaving(m, r)
           how == How(m, n)
           k   == Count(en)
           bit == SelectingBit(how, en)
           x   == Rest(m, n, r, s)
           y   == Rest(m, n, r, t)
<1>1. /\ 0 \notin RegisterOf(m, <<24 + n, 1, \hF0>>)
      /\ 4 \in sel \/ ~({0, 2} \subseteq sel)
  BY DEF Straight
<1>2. en \in {{}, {0}, {0, 1}, {0, 1, 2}}
  BY DEF Straight, Within, Ranges
<1>3. how \in {{}, {0}, {1}, {0, 1}}
  BY HowBits
<1>4. k \in 0 .. 3 /\ bit \in 6 .. 15 /\ (1 \in how => bit < 12)
      /\ en = {i \in {0, 1, 2} : i < k}
  <2> HIDE DEF en, how
  <2>1. CASE en = {}
    BY <1>3, <2>1 DEF Count, SelectingBit
  <2>2. CASE en = {0}
    BY <1>3, <2>2 DEF Count, SelectingBit
  <2>3. CASE en = {0, 1}
    BY <1>3, <2>3 DEF Count, SelectingBit
  <2>4. CASE en = {0, 1, 2}
    BY <1>3, <2>4 DEF Count, SelectingBit
  <2>5. QED
    BY <1>2, <2>1, <2>2, <2>3, <2>4
<1>5. Words(m, o, s, r, n, 0, {}) /\ Words(m, o, t, r, n, 0, {})
  BY DEF Reads
<1> DEFINE hi == IF 1 \in sel THEN 1 ELSE 0
           Chan(a) == IF 4 \in sel THEN 0
                      ELSE IF High(sel, a) THEN hi
                      ELSE IF 2 \in sel THEN (BitOf(a, bit) + Hash(how, a)) % 2
                      ELSE IF 0 \in sel THEN 1 - hi ELSE 0
           f  == NodeOff(x, k)
           g  == NodeOff(y, k)
<1>6. Chan(s) = Chan(t)
  <2>1. ChannelOn(m, o, s, r, n) = Chan(s)
    BY <1>1, <1>2, <1>5, ChannelIs
  <2>2. ChannelOn(m, o, t, r, n) = Chan(t)
    BY <1>1, <1>2, <1>5, ChannelIs
  <2> HIDE DEF Chan
  <2>3. QED
    BY <2>1, <2>2
<1>7. IF Mixed(sel) THEN ChannelOff(f, how) = ChannelOff(g, how) ELSE f = g
  <2>1. CellOn(m, o, s, r, n) = IF Mixed(sel) THEN ChannelOff(f, how) ELSE f
    BY <1>1, <1>2, <1>5, CellIs
  <2>2. CellOn(m, o, t, r, n) = IF Mixed(sel) THEN ChannelOff(g, how) ELSE g
    BY <1>1, <1>2, <1>5, CellIs
  <2> HIDE DEF f, g, how, sel
  <2>3. QED
    BY <2>1, <2>2
<1>8. High(sel, s) <=> High(sel, t)
  <2>1. CASE 4 \in sel \/ 0 \notin sel
    BY <2>1 DEF High
  <2>2. CASE 4 \notin sel /\ 0 \in sel
    <3>1. 2 \notin sel /\ hi \in {0, 1} /\ hi # 1 - hi
      BY <1>1, <2>2
    <3>2. Chan(s) = (IF High(sel, s) THEN hi ELSE 1 - hi)
          /\ Chan(t) = (IF High(sel, t) THEN hi ELSE 1 - hi)
      BY <2>2, <3>1
    <3> HIDE DEF Chan, hi
    <3>3. QED
      BY <1>6, <3>1, <3>2
  <2>3. QED
    BY <2>1, <2>2
<1> DEFINE c == Taken(m, n, r, s)
<1>9. c \subseteq 23 .. 47 /\ x = Minus(s \cap (6 .. 47), c, 64) /\ y = Minus(t \cap (6 .. 47), c, 64)
  BY <1>8 DEF Taken, Rest
<1>10. x \in SUBSET Int /\ y \in SUBSET Int
  BY <1>9 DEF Minus, Bits
<1>11. \A j \in 6 .. 22 : (j \in x <=> j \in s) /\ (j \in y <=> j \in t)
  <2> HIDE DEF x, y, c
  <2>1. \A i \in c : i \in Int /\ i > 22
    BY <1>9
  <2>2. ASSUME NEW j \in 6 .. 22 PROVE (j \in x <=> j \in s) /\ (j \in y <=> j \in t)
    <3>1. \A i \in c : i \in Int /\ i > j
      BY <2>1
    <3> DEFINE a == s \cap (6 .. 47)
               b == t \cap (6 .. 47)
    <3>2. /\ x = Minus(a, c, 64) /\ y = Minus(b, c, 64)
          /\ 64 \in Int /\ j \in Int /\ 0 <= j /\ j < 64
          /\ (j \in a <=> j \in s) /\ (j \in b <=> j \in t)
      BY <1>9
    <3> HIDE DEF a, b
    <3>3. (j \in Minus(a, c, 64) <=> j \in a) /\ (j \in Minus(b, c, 64) <=> j \in b)
      BY <3>1, <3>2, LowKept
    <3>4. QED
      BY <3>2, <3>3
  <2>3. QED
    BY <2>2
<1>12. \A j \in 12 .. 11 + k : j \in s <=> j \in t
  <2> SUFFICES ASSUME NEW j \in 12 .. 11 + k PROVE j \in s <=> j \in t
    OBVIOUS
  <2>1. j - 12 \in en
    <3> HIDE DEF en, k
    <3>1. j - 12 \in {0, 1, 2} /\ j - 12 < k
      BY <1>4
    <3>2. QED
      BY <1>4, <3>1
  <2>2. Shr(s, 12) \cap en = Shr(t, 12) \cap en
    BY <2>1 DEF Within
  <2>3. s \in SUBSET Int /\ t \in SUBSET Int
    BY DEF Address, Bits
  <2>4. j - 12 \in Int /\ j - 12 >= 0 /\ (j - 12) + 12 = j
    BY <1>4
  <2> HIDE DEF en, k
  <2>5. j - 12 \in Shr(s, 12) <=> j \in s
    BY <2>3, <2>4, ShrBits
  <2>6. j - 12 \in Shr(t, 12) <=> j \in t
    BY <2>3, <2>4, ShrBits
  <2>7. QED
    BY <2>1, <2>2, <2>5, <2>6
<1>13. /\ f \in SUBSET (6 .. 47) /\ g \in SUBSET (6 .. 47)
       /\ \A j \in 6 .. 11 : (j \in f <=> j \in x) /\ (j \in g <=> j \in y)
       /\ \A j \in 12 .. 47 : (j \in f <=> j + k \in x) /\ (j \in g <=> j + k \in y)
  <2> HIDE DEF x, y, k
  <2>1. QED
    BY <1>4, <1>10, NodeOffBits
<1>14. \A j \in 6 .. 47 : ~Mixed(sel) \/ j # bit => (j \in x <=> j \in y)
  <2> SUFFICES ASSUME NEW j \in 6 .. 47, ~Mixed(sel) \/ j # bit
               PROVE  j \in x <=> j \in y
    OBVIOUS
  <2> DEFINE place == IF j < 12 THEN j ELSE j - k
  <2>1. \A i \in 6 .. 47 : ~Mixed(sel) \/ i # ChannelBit(how) => (i \in f <=> i \in g)
    <3>1. CASE Mixed(sel)
      <4>1. how \in SUBSET {0, 1}
        BY <1>3
      <4>2. ChannelOff(f, how) = ChannelOff(g, how)
        BY <1>7, <3>1
      <4> HIDE DEF f, g, how
      <4>3. QED
        BY <1>13, <3>1, <4>1, <4>2, ChannelOffTells
    <3>2. CASE ~Mixed(sel)
      BY <1>7, <3>2
    <3>3. QED
      BY <3>1, <3>2
  <2>2. CASE j \in 12 .. 11 + k
    <3>1. j \in 6 .. 22
      BY <1>4, <2>2
    <3>2. QED
      BY <1>11, <1>12, <2>2, <3>1
  <2>3. CASE j \notin 12 .. 11 + k
    <3>1. place \in 6 .. 47 /\ (j >= 12 => place \in 12 .. 47 /\ place + k = j)
      BY <1>4, <2>3
    <3>2. bit = (IF ChannelBit(how) = 12 THEN 12 + k ELSE ChannelBit(how))
          /\ ChannelBit(how) \in {6, 9, 12}
      <4> HIDE DEF how, en
      <4>1. how \in {{}, {1}} <=> 0 \notin how
        BY <1>3
      <4>2. QED
        BY <4>1 DEF SelectingBit, ChannelBit
    <3>3. j # bit => place # ChannelBit(how)
      <4> HIDE DEF bit, k
      <4>1. QED
        BY <1>4, <2>3, <3>1, <3>2
    <3>4. place \in f <=> place \in g
      BY <2>1, <3>1, <3>3
    <3> HIDE DEF f, g, x, y, k
    <3>5. CASE j < 12
      BY <1>13, <3>4, <3>5
    <3>6. CASE j >= 12
      BY <1>13, <3>1, <3>4, <3>6
    <3>7. QED
      BY <3>5, <3>6
  <2>4. QED
    BY <2>2, <2>3
<1>15. Mixed(sel) => (bit \in x <=> bit \in y)
  <2> SUFFICES ASSUME Mixed(sel) PROVE bit \in x <=> bit \in y
    OBVIOUS
  <2>1. ~High(sel, s) /\ ~High(sel, t)
    BY <1>1 DEF Mixed, High
  <2>2. (BitOf(s, bit) + Hash(how, s)) % 2 = (BitOf(t, bit) + Hash(how, t)) % 2
    BY <1>6, <2>1 DEF Mixed
  <2>3. Hash(how, s) = Hash(how, t)
    <3>1. CASE 1 \notin how
      BY <3>1 DEF Hash
    <3>2. CASE 1 \in how
      <4> HIDE DEF x, y, bit
      <4>1. \A j \in 16 .. 20 : j \in s <=> j \in t
        BY <1>4, <1>11, <1>14, <3>2
      <4>2. s \cap (16 .. 20) = t \cap (16 .. 20)
        BY <4>1
      <4>3. QED
        BY <4>2 DEF Hash
    <3>3. QED
      BY <3>1, <3>2
  <2>4. Hash(how, s) \in {0, 1} /\ BitOf(s, bit) \in {0, 1} /\ BitOf(t, bit) \in {0, 1}
    BY HashBit DEF BitOf
  <2>5. BitOf(s, bit) = BitOf(t, bit)
    <3> DEFINE h == Hash(how, s)
               p == BitOf(s, bit)
               q == BitOf(t, bit)
    <3>1. (p + h) % 2 = (q + h) % 2 /\ h \in {0, 1} /\ p \in {0, 1} /\ q \in {0, 1}
      BY <2>2, <2>3, <2>4
    <3> HIDE DEF h, p, q
    <3>2. p = q
      BY <3>1
    <3>3. QED
      BY <3>2 DEF p, q
  <2>6. bit \in s <=> bit \in t
    BY <2>5 DEF BitOf
  <2>7. QED
    BY <1>4, <1>11, <2>6
<1>16. \A j \in 6 .. 47 : j \in x <=> j \in y
  <2> HIDE DEF x, y, bit
  <2>1. QED
    BY <1>14, <1>15
<1>17. s \cap (6 .. 47) = t \cap (6 .. 47)
  BY <1>9, <1>16, MinusTells
<1>18. s \subseteq 0 .. 47 /\ t \subseteq 0 .. 47
  BY Within48
<1>19. QED
  BY <1>17, <1>18

(* The exchange, below 4 GB, is undone by itself.                          *)
LEMMA SwapTells ==
  ASSUME NEW m \in Machines, Straight(m), NEW r \in 0 .. 7, 
         NEW n \in 0 .. 7, SwapOf(m, r) = RegisterOf(m, Swap(n)),
         NEW a \in Address, NEW b \in Address, Within(m, r, a), Within(m, r, b),
         Exchanged(SwapOf(m, r), a) \cap (6 .. 63) = Exchanged(SwapOf(m, r), b) \cap (6 .. 63)
  PROVE  a \cap (6 .. 63) = b \cap (6 .. 63)
<1>1. CASE \A i \in 0 .. 7 : 0 \notin RegisterOf(m, Swap(i))
  BY <1>1 DEF Exchanged
<1>2. CASE m.base \subseteq 0 .. 31 /\ \E k \in 27 .. 33 : Exchanging(m, k)
  <2>1. PICK k \in 27 .. 33 : Exchanging(m, k)
    BY <1>2
  <2> DEFINE base     == m.base
             above(c) == c \ Bits(k)
             p        == Partner(m, a)
             q        == Partner(m, b)
  <2>2. Exchanged(SwapOf(m, r), a) = p /\ Exchanged(SwapOf(m, r), b) = q
        /\ p \in Address /\ q \in Address
    BY <2>1, ExchangeInRange
  <2>3. base \cap Bits(k) = {} /\ base \cap Bits(32) = base
    <3>1. base \in SUBSET (k .. 63)
      BY <2>1, Regions
    <3>2. QED
      BY <1>2, <3>1 DEF Bits
  <2>4. ASSUME NEW c \in Address
        PROVE  Partner(m, c) = IF above(c) = {} THEN c \cup base
                               ELSE IF above(c) = base THEN c \ base ELSE c
    <3>1. (In(c, m.low) <=> above(c) = {}) /\ (In(c, m.high) <=> above(c) = base)
      BY <2>1, Regions
    <3>2. QED
      BY <2>3, <3>1 DEF Partner
  <2>5. ASSUME NEW c \in Address
        PROVE  /\ Partner(m, c) \cap Bits(k) = c \cap Bits(k)
               /\ above(Partner(m, c)) = IF above(c) = {} THEN base
                                         ELSE IF above(c) = base THEN {} ELSE above(c)
    <3> DEFINE d == Partner(m, c)
    <3>1. d = IF above(c) = {} THEN c \cup base
              ELSE IF above(c) = base THEN c \ base ELSE c
      BY <2>4
    <3> HIDE DEF d
    <3>2. QED
      BY <2>3, <3>1 DEF d
  <2> HIDE DEF p, q
  <2>6. \A j \in 6 .. 63 : j \in p <=> j \in q
    BY <2>2
  <2>7. above(p) = above(q)
    <3>1. \A j \in above(p) : j \in 6 .. 63 /\ j \notin Bits(k) /\ j \in p
      BY <2>2 DEF Address, Bits
    <3>2. \A j \in above(q) : j \in 6 .. 63 /\ j \notin Bits(k) /\ j \in q
      BY <2>2 DEF Address, Bits
    <3>3. \A j : j \in above(p) <=> j \in above(q)
      BY <2>6, <3>1, <3>2
    <3>4. QED
      BY <3>3
  <2>8. above(a) = above(b)
    <3> DEFINE u == above(a)
               v == above(b)
    <3>1. above(p) = IF u = {} THEN base ELSE IF u = base THEN {} ELSE u
      BY <2>5 DEF p
    <3>2. above(q) = IF v = {} THEN base ELSE IF v = base THEN {} ELSE v
      BY <2>5 DEF q
    <3> HIDE DEF u, v, above
    <3>3. u = v
      BY <2>7, <3>1, <3>2
    <3>4. QED
      BY <3>3 DEF u, v
  <2>9. \A j \in 6 .. 63 : j \in a <=> j \in b
    <3> SUFFICES ASSUME NEW j \in 6 .. 63 PROVE j \in a <=> j \in b
      OBVIOUS
    <3>1. CASE j \in Bits(k)
      <4>1. (j \in p <=> j \in a) /\ (j \in q <=> j \in b)
        BY <2>5, <3>1 DEF p, q
      <4>2. QED
        BY <2>6, <4>1
    <3>2. CASE j \notin Bits(k)
      BY <2>8, <3>2
    <3>3. QED
      BY <3>1, <3>2
  <2>10. QED
    BY <2>9
<1>3. QED
  BY <1>1, <1>2 DEF Straight

(* Two blocks that are given the same place are the same.                  *)
LEMMA OneBlock ==
  ASSUME NEW m \in Machines, Straight(m), NEW o, Reads(m, o),
         NEW a \in Address, NEW b \in Address, NEW n, NEW c, NEW cs, NEW x,
         AnswerOf(m, o, a, n, c, cs, x), AnswerOf(m, o, b, n, c, cs, x)
  PROVE  a \cap (6 .. 63) = b \cap (6 .. 63)
<1>1. PICK s, r : Into(m, o, a, s, r, n) /\ Route(m, o, s, r, n, c, x)
  BY DEF AnswerOf
<1>2. PICK t, q : Into(m, o, b, t, q, n) /\ Route(m, o, t, q, n, c, x)
  BY DEF AnswerOf
<1>3. /\ r \in 0 .. 7 /\ Within(m, r, a) /\ n = NodeOn(m, o, r)
      /\ s = SwappedOn(m, o, n, a)
      /\ q \in 0 .. 7 /\ Within(m, q, b) /\ n = NodeOn(m, o, q)
      /\ t = SwappedOn(m, o, n, b)
  BY <1>1, <1>2 DEF Into
<1>4. Words(m, o, {}, 0, 0, 0, {}) /\ n \in 0 .. 7
  BY <1>3, NodeNumber DEF Reads
<1>5. \A i : NodeOn(m, o, i) = NodeIn(m, i)
  <2>1. \A i, reg : At(m, o, {}, 0, 0, 0, {})!RangeReg(i, reg) = RangeOf(m, i, reg)
    BY <1>4 DEF At!RangeReg, RangeOf, Words
  <2>2. QED
    BY <1>4, <2>1 DEF NodeOn, At!NodeOf, NodeIn, Words
<1>6. r = q
  <2>1. r \in Ranges(m) /\ q \in Ranges(m) /\ NodeIn(m, r) = NodeIn(m, q)
    BY <1>3, <1>5 DEF Within, Ranges
  <2>2. QED
    BY <2>1 DEF Straight
<1>7. Orderly(m)
  BY DEF Orderly, Straight
<1>8. s \in Address /\ Within(m, r, s) /\ t \in Address /\ Within(m, r, t)
  BY <1>3, <1>4, <1>6, <1>7, SwapInRange
<1>9. s \cap (6 .. 63) = t \cap (6 .. 63)
  <2>1. Route(m, o, s, r, n, c, x) /\ Route(m, o, t, r, n, c, x)
    BY <1>1, <1>2, <1>6
  <2>2. ChannelOn(m, o, s, r, n) = ChannelOn(m, o, t, r, n)
        /\ CellOn(m, o, s, r, n) = CellOn(m, o, t, r, n)
    BY <2>1, Zenon DEF Route
  <2>3. r \in 0 .. 7 /\ n \in 0 .. 7
    BY <1>3, <1>4
  <2>4. QED
    BY <1>8, <2>2, <2>3, SameBlock
<1>10. /\ SwapOf(m, r) = RegisterOf(m, Swap(n))
       /\ s = Exchanged(SwapOf(m, r), a) /\ t = Exchanged(SwapOf(m, r), b)
  <2>1. SwapOf(m, r) = RegisterOf(m, Swap(NodeOn(m, o, r)))
    BY <1>4, RangeFacts
  <2>2. NodeOn(m, o, r) = n
    BY <1>3
  <2>3. SwapOf(m, r) = RegisterOf(m, Swap(n))
    BY <2>1, <2>2
  <2>4. SwappedOn(m, o, n, a) = Exchanged(RegisterOf(m, Swap(n)), a)
        /\ SwappedOn(m, o, n, b) = Exchanged(RegisterOf(m, Swap(n)), b)
    BY <1>4, RangeFacts
  <2>5. s = SwappedOn(m, o, n, a) /\ t = SwappedOn(m, o, n, b)
    BY <1>3
  <2>6. QED
    BY <2>3, <2>4, <2>5
<1>11. QED
  BY <1>3, <1>4, <1>6, <1>9, <1>10, SwapTells

(* On a straight machine, with any number of nodes and however they and    *)
(* their channels are interleaved, no two blocks of memory have one place. *)
THEOREM UniqueAlways == NbSpec => [](Straight(machine) => Unique)
<1>1. NbInv /\ Underway /\ Remembered => (Straight(machine) => Unique)
  <2> DEFINE a  == earlier.addr
             n  == earlier.node
             c  == earlier.channel
             cs == earlier.cs
             x  == earlier.cell
  <2> SUFFICES ASSUME NbInv, Underway, Remembered, Straight(machine), BothFound,
                      earlier.machine = machine, Place = EarlierPlace
               PROVE  a \cap (6 .. 63) = addr \cap (6 .. 63)
    BY DEF Unique
  <2>1. pc = "found" /\ earlier # NoAnswer /\ earlier.found
    BY DEF BothFound
  <2>2. opens /\ machine \in Machines
    BY <2>1 DEF NbInv, Unplaced, Set
  <2>3. Orderly(machine)
    BY <2>2 DEF Orderly, Straight
  <2>4. addr \in Address /\ AnswerOf(machine, opens, addr, NodeID, Channel, CS, ChannelAddr)
    BY <2>1, <2>2, <2>3 DEF Underway
  <2>5. a \in Address /\ AnswerOf(machine, opens, a, n, c, cs, x)
    BY <2>1, <2>2, <2>3 DEF Remembered
  <2>6. n = NodeID /\ c = Channel /\ cs = CS /\ x = ChannelAddr
    BY DEF Place, EarlierPlace
  <2>7. Reads(machine, opens)
    BY <2>2, SameWord DEF Reads
  <2> HIDE DEF a, n, c, cs, x
  <2>8. machine \in Machines /\ AnswerOf(machine, opens, a, NodeID, Channel, CS, ChannelAddr)
    BY <2>2, <2>5, <2>6
  <2>9. QED
    BY <2>4, <2>5, <2>7, <2>8, OneBlock
<1>2. NbInit => Underway /\ Remembered
  BY DEF NbInit, Init, Underway, Remembered
<1>3. Underway /\ Remembered /\ Set /\ [NbNext]_<<vars, eccVars>>
        => (Underway /\ Remembered)'
  BY UnderwayKept, RememberedKept
<1>4. NbInv => Set
  BY DEF NbInv
<1>5. QED
  BY <1>1, <1>2, <1>3, <1>4, NbInvAlways, PTL DEF NbSpec
=============================================================================
