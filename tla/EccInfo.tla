------------------------------ MODULE EccInfo ------------------------------
(***************************************************************************)
(* amd-ecc-info.c: reads the northbridge of node 0 and prints what it says *)
(* about ECC, the scrubber and the two DRAM controllers.  The report is    *)
(* the set of the claims printed so far; a step prints one group of them,  *)
(* each from its own reading of the register.                              *)
(***************************************************************************)
EXTENDS PciConfig

VARIABLES
  step,       \* "cap", "mca", "dct", "dct 0", "dct 1", "printed", "failed"
  report      \* the claims printed

eccVars == <<step, report>>

EccInit == step = "cap" /\ report = {}

(* get_pci: the callers keep 32 bits.                                      *)
get_pci(func, reg) == Get_PCI(24, func, reg) \cap Bits(32)

Yes(claim, bit, word) == <<claim, bit \in word>>

ScrubClaim(rate, period) ==
  LET speed == (1000000000 \div period) * 64
  IN  <<"scrub", rate, speed, 1073741824 \div speed>>

(* Fault: the rates that are not defined are not told from the others.     *)
DramScrubUnchecked(rate) ==
  IF rate = 0 THEN <<"scrub disabled">>
  ELSE ScrubClaim(rate, 40 * 2 ^ (IF rate > 22 THEN 22 ELSE rate - 1))

(* Fault: the period is doubled once too often.                            *)
DramScrubDoubled(rate) ==
  IF rate = 0 THEN <<"scrub disabled">>
  ELSE IF rate > 22 THEN <<"scrub invalid">>
  ELSE ScrubClaim(rate, 40 * 2 ^ rate)

(* The scrubber's speed, and the seconds it takes for 1 GB, in integers.   *)
DramScrub(rate) ==
  IF rate = 0 THEN <<"scrub disabled">>
  ELSE IF rate > 22 THEN <<"scrub invalid">>                   \* 0x16
  ELSE ScrubClaim(rate, 40 * 2 ^ (rate - 1))

NbCap ==
  LET cfg == get_pci(3, \hE8)
  IN  {Yes("NB ECC", 3, cfg), Yes("NB chipkill", 4, cfg)}

NbMcaCfg ==
  LET cfg == get_pci(3, \h44)
  IN  {Yes("DRAM ECC", 22, cfg)} \cup
      IF 22 \notin cfg THEN {}
      ELSE {Yes("chipkill", 23, cfg), Yes("sync flood", 2, cfg),
            Yes("x8 symbols", 25, get_pci(3, \h180))}
           \cup {DramScrub(Number(get_pci(3, \h58) \cap Bits(8)))}

DctCfg ==
  LET cfg == get_pci(2, \h110)
  IN  {Yes("cleared", 10, cfg), Yes("ganged", 4, cfg),
       Yes("data interleave", 5, cfg), Yes("controller interleave", 2, cfg)}

get_dct_x_cfg(index, low_hi) ==
  get_pci(2, \h90 + index * \h100 + (IF low_hi THEN 4 ELSE 0))

(* Fault: the chip selects of controller 0 are read for both.              *)
get_cs_cfg_same(dct, cs) == get_pci(2, \h40 + cs * 4)

get_cs_cfg(dct, cs) == get_pci(2, \h40 + dct * \h100 + cs * 4)

(* The memory clock in MHz, 0 when it is not printed.                      *)
Freq(ddr3, code) ==
  CASE code = 0 -> IF ddr3 THEN 0 ELSE 200
    [] code = 1 -> IF ddr3 THEN 0 ELSE 266
    [] code = 2 -> 333
    [] code = 3 -> 400
    [] code = 4 -> 533
    [] code = 5 -> IF ddr3 THEN 667 ELSE 0
    [] code = 6 -> IF ddr3 THEN 800 ELSE 0
    [] code = 7 -> 0

(* One turn of the loop over the controllers.                              *)
Dct(i) ==
  LET low  == get_dct_x_cfg(i, FALSE)
      high == get_dct_x_cfg(i, TRUE)
      freq == Freq(8 \in high, Number(high \cap Bits(3)))
      DctYes(claim, bit, word) == <<claim, i, bit \in word>>
  IN  IF 14 \in high THEN {<<"DCT", i, "disabled">>}
      ELSE {<<"DCT", i, "enabled">>,
            DctYes("DIMM ECC", 19, low), DctYes("UDIMM", 16, low),
            <<"x4 mask", i, Number(Field(low, 12, 15))>>, DctYes("128 bit", 11, low),
            DctYes("ODT disabled", 23, high), DctYes("bank swizzle", 22, high),
            DctYes("2T", 20, high), DctYes("power-down", 15, high),
            DctYes("CS power-down", 16, high), DctYes("DDR3", 8, high)}
           \cup {<<"MHz", i, f>> : f \in {freq} \ {0}}
           \cup {<<"CS", i, c>> : c \in {d \in 0 .. 7 : 0 \in get_cs_cfg(i, d)}}

Say(at, claims, next) ==
  /\ step = at /\ Readable(24)
  /\ report' = report \cup claims
  /\ step' = next
  /\ UNCHANGED pci

print_nb_cap     == Say("cap", NbCap, "mca")
print_nb_mca_cfg == Say("mca", NbMcaCfg, "dct")
print_dct_cfg ==
  \/ Say("dct", DctCfg, "dct 0")
  \/ Say("dct 0", Dct(0), "dct 1")
  \/ Say("dct 1", Dct(1), "printed")

(* err(1, "ioctl(PCIOCREAD)"): no such northbridge.                        *)
EccFails ==
  /\ step = "cap" /\ ~Readable(24)
  /\ step' = "failed"
  /\ UNCHANGED <<pci, report>>

EccNext == print_nb_cap \/ print_nb_mca_cfg \/ print_dct_cfg \/ EccFails

-----------------------------------------------------------------------------
(* A report made without /dev/pci, in which every bit is set, claims that  *)
(* ECC is enabled and exits with 0; but it never shows a scrubber's speed  *)
(* nor a controller that is enabled: a report that does was read.          *)
TellTale ==
  ~opens => \A c \in report : c[1] # "scrub" /\ ~(c[1] = "DCT" /\ c[3] = "enabled")

(* The speed printed is at most a tenth below 64 bytes in each period of   *)
(* 40 ns doubled rate - 1 times, and the seconds are those it takes at     *)
(* that speed: the integer divisions lose no more, and none is by zero.    *)
ScrubSpeed ==
  \A c \in report : c[1] = "scrub" =>
    LET period == 40 * 2 ^ (c[2] - 1)
        done   == (c[3] \div 64) * period      \* of the 10^9 ns of a second
    IN  /\ 1 <= c[2] /\ c[2] <= 22
        /\ 900000000 <= done /\ done <= 1000000000
        /\ c[4] * (c[3] \div 64) <= 16777216
        /\ 16777216 < (c[4] + 1) * (c[3] \div 64)
=============================================================================
