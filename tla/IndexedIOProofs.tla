-------------------------- MODULE IndexedIOProofs --------------------------
(***************************************************************************)
(* What IndexedIO does for every number of invocations, every command      *)
(* line and every contents of the chips.                                   *)
(*                                                                         *)
(* Each program is a sequence of pairs, an index and then a read or a      *)
(* write of the register it selects.  The invariant says of a tool that    *)
(* nobody disturbs that after so many pairs it has printed and has set     *)
(* what these pairs are for, and that between the two accesses of a pair   *)
(* the chip's index is the one it has put there.                           *)
(***************************************************************************)
EXTENDS IndexedIO, TLAPS

(* The pairs of t's program, how many they are, which of them set their    *)
(* register, and to what.                                                  *)
Pairs(t) ==
  IF t.name = "getcmos_all" THEN list_end - 14
  ELSE IF t.name = "getextcmos_all" THEN list_end
  ELSE IF t.name = "ioapic" THEN 2 * rdt_count
  ELSE IF t.name \in ReadBack \cup {"ioapic_wr"} THEN 2 ELSE 1

Word(i, j) == IF j % 2 = 0 THEN High(i) ELSE Low(i)

Chosen(t, j) ==
  ( IF t.name = "getcmos_all" THEN 14 + j
    ELSE IF t.name = "getextcmos_all" THEN 128 + j
    ELSE IF t.name = "ioapic" THEN Word(j \div 2, j)
    ELSE IF t.name = "ioapic_wr" THEN Word(t.reg, j)
    ELSE t.reg ) % 256

Stores(t, j) == t.name \in Setters /\ (t.name \in ReadBack => j = 0)

Stored(t, j) ==
  IF t.name = "ioapic_wr"
  THEN (IF j = 0 THEN t.val \div WordBase ELSE t.val) % WordBase
  ELSE t.val % 256

PairAt(t, j) ==
  /\ Program(t)[2 * j + 1] = [op |-> "index", v |-> Chosen(t, j)]
  /\ Program(t)[2 * j + 2] = IF Stores(t, j)
                             THEN [op |-> "data", v |-> Stored(t, j)]
                             ELSE [op |-> "in", v |-> 0]

IsPairs(t) ==
  /\ Len(Program(t)) = 2 * Pairs(t)
  /\ Pairs(t) \in Nat \ {0}
  /\ \A j \in 0 .. Pairs(t) - 1 : PairAt(t, j)

LEMMA ToolFields ==
  ASSUME NEW t \in Tools
  PROVE  /\ t.name \in DOMAIN ChipOf /\ t.reg \in Int /\ t.val \in Nat
         /\ t.name # "ioapic_wr" => t.reg \in Nat
  BY ToolsAssumption

(* The arms of Program, one fact for each kind of tool.                    *)
LEMMA GetArm ==
  ASSUME NEW t,
         t.name \in {"getcmos", "getextcmos", "amdpm2_get", "amdpmio_get",
                     "ithwm_getio", "ithwm2_getio", "intr_map_r"}
  PROVE  Program(t) = Get(t.reg)
<1>1. CASE t.name = "getcmos"
  BY <1>1, Zenon DEF Program, getcmos
<1>2. CASE t.name = "getextcmos"
  BY <1>2, Zenon DEF Program, getextcmos
<1>3. CASE t.name = "amdpm2_get"
  BY <1>3, Zenon DEF Program, amdpm2_get
<1>4. CASE t.name = "amdpmio_get"
  BY <1>4, Zenon DEF Program, amdpmio_get
<1>5. CASE t.name = "ithwm_getio"
  BY <1>5, Zenon DEF Program, ithwm_getio
<1>6. CASE t.name = "ithwm2_getio"
  BY <1>6, Zenon DEF Program, ithwm2_getio
<1>7. CASE t.name = "intr_map_r"
  BY <1>7, Zenon DEF Program, intr_map_r
<1>8. QED
  BY <1>1, <1>2, <1>3, <1>4, <1>5, <1>6, <1>7

LEMMA SetArm ==
  ASSUME NEW t, t.name \in {"amdpm2_set", "amdpmio_set", "intr_map_w"}
  PROVE  Program(t) = Set(t.reg, t.val)
<1>1. CASE t.name = "amdpm2_set"
  BY <1>1, Zenon DEF Program, amdpm2_set
<1>2. CASE t.name = "amdpmio_set"
  BY <1>2, Zenon DEF Program, amdpmio_set
<1>3. CASE t.name = "intr_map_w"
  BY <1>3, Zenon DEF Program, intr_map_w
<1>4. QED
  BY <1>1, <1>2, <1>3

LEMMA ReadBackArm ==
  ASSUME NEW t, t.name \in ReadBack
  PROVE  Program(t) = SetReadBack(t.reg, t.val)
<1>1. CASE t.name = "ithwm_setio"
  BY <1>1, Zenon DEF Program, ithwm_setio
<1>2. CASE t.name = "ithwm2_setio"
  BY <1>2, Zenon DEF Program, ithwm2_setio
<1>3. QED
  BY <1>1, <1>2 DEF ReadBack

LEMMA OtherArms ==
  ASSUME NEW t
  PROVE  /\ t.name = "getcmos_all" => Program(t) = getcmos_all
         /\ t.name = "getextcmos_all" => Program(t) = getextcmos_all
         /\ t.name = "ioapic" => Program(t) = ioapic
         /\ t.name = "ioapic_wr" => Program(t) = set_rdt_entry(t.reg, t.val)
<1>1. CASE t.name = "getcmos_all"
  BY <1>1, Zenon DEF Program
<1>2. CASE t.name = "getextcmos_all"
  BY <1>2, Zenon DEF Program
<1>3. CASE t.name = "ioapic"
  BY <1>3, Zenon DEF Program
<1>4. CASE t.name = "ioapic_wr"
  BY <1>4, Zenon DEF Program
<1>5. QED
  BY <1>1, <1>2, <1>3, <1>4

LEMMA TwoPairs ==
  ASSUME NEW a, NEW b, NEW c, NEW d
  PROVE  /\ Len(<<a, b>> \o <<c, d>>) = 4
         /\ (<<a, b>> \o <<c, d>>)[1] = a /\ (<<a, b>> \o <<c, d>>)[2] = b
         /\ (<<a, b>> \o <<c, d>>)[3] = c /\ (<<a, b>> \o <<c, d>>)[4] = d
  OBVIOUS

(* A listing from first, with bit set in the index.                        *)
LEMMA ListPairs ==
  ASSUME NEW first \in Nat, NEW bit \in Nat, first < list_end,
         NEW j \in 0 .. (list_end - first) - 1
  PROVE  /\ Len(List(first, bit)) = 2 * (list_end - first)
         /\ List(first, bit)[2 * j + 1]
              = [op |-> "index", v |-> (bit + first + j) % 256]
         /\ List(first, bit)[2 * j + 2] = [op |-> "in", v |-> 0]
<1>1. list_end \in Nat
  BY ListAssumption
<1>2. /\ 2 * j + 1 \in 1 .. 2 * (list_end - first)
      /\ 2 * j + 2 \in 1 .. 2 * (list_end - first)
      /\ (2 * j + 1) % 2 = 1 /\ (2 * j + 2) % 2 = 0
      /\ ((2 * j + 1) - 1) \div 2 = j
  BY <1>1
<1>3. Len(List(first, bit)) = 2 * (list_end - first)
  BY <1>1 DEF List
<1>4. List(first, bit)[2 * j + 1] = Idx(bit + first + j)
  BY <1>2 DEF List
<1>5. List(first, bit)[2 * j + 2] = In
  BY <1>2 DEF List
<1>6. QED
  BY <1>3, <1>4, <1>5 DEF Idx, In

LEMMA ioapicPairs ==
  ASSUME NEW j \in 0 .. 2 * rdt_count - 1
  PROVE  /\ Len(ioapic) = 4 * rdt_count
         /\ ioapic[2 * j + 1] = [op |-> "index", v |-> Word(j \div 2, j) % 256]
         /\ ioapic[2 * j + 2] = [op |-> "in", v |-> 0]
<1>1. rdt_count \in Nat
  BY CountAssumption
<1>2. Len(ioapic) = 4 * rdt_count
  BY <1>1 DEF ioapic
<1>3. PICK i \in 0 .. rdt_count - 1 : j = 2 * i \/ j = 2 * i + 1
  <2>1. j \div 2 \in 0 .. rdt_count - 1 /\ (j = 2 * (j \div 2) \/ j = 2 * (j \div 2) + 1)
    BY <1>1
  <2>2. QED
    BY <2>1
<1>4. CASE j = 2 * i
  <2>1. /\ 2 * j + 1 \in 1 .. 4 * rdt_count /\ 2 * j + 2 \in 1 .. 4 * rdt_count
        /\ ((2 * j + 1) - 1) \div 4 = i /\ ((2 * j + 1) - 1) % 4 = 0
        /\ ((2 * j + 2) - 1) \div 4 = i /\ ((2 * j + 2) - 1) % 4 = 1
        /\ j \div 2 = i /\ j % 2 = 0
    BY <1>1, <1>4
  <2>2. ioapic[2 * j + 1] = rdt_entry(i)[1] /\ ioapic[2 * j + 2] = rdt_entry(i)[2]
    BY <2>1 DEF ioapic
  <2>3. QED
    BY <1>2, <2>1, <2>2 DEF rdt_entry, Word, Idx, In
<1>5. CASE j = 2 * i + 1
  <2>1. /\ 2 * j + 1 \in 1 .. 4 * rdt_count /\ 2 * j + 2 \in 1 .. 4 * rdt_count
        /\ ((2 * j + 1) - 1) \div 4 = i /\ ((2 * j + 1) - 1) % 4 = 2
        /\ ((2 * j + 2) - 1) \div 4 = i /\ ((2 * j + 2) - 1) % 4 = 3
        /\ j \div 2 = i /\ j % 2 = 1
    BY <1>1, <1>5
  <2>2. ioapic[2 * j + 1] = rdt_entry(i)[3] /\ ioapic[2 * j + 2] = rdt_entry(i)[4]
    BY <2>1 DEF ioapic
  <2>3. QED
    BY <1>2, <2>1, <2>2 DEF rdt_entry, Word, Idx, In
<1>6. QED
  BY <1>3, <1>4, <1>5

(* Every tool's program is a sequence of pairs.                            *)
LEMMA AllPairs == \A t \in Tools : IsPairs(t)
<1> SUFFICES ASSUME NEW t \in Tools PROVE IsPairs(t)
  OBVIOUS
<1>0. /\ t.name \in DOMAIN ChipOf /\ t.reg \in Int /\ t.val \in Nat
      /\ list_end \in 15 .. 128 /\ rdt_count \in 1 .. 120
  BY ToolFields, ListAssumption, CountAssumption
<1>1. CASE t.name \in {"getcmos", "getextcmos", "amdpm2_get", "amdpmio_get",
                       "ithwm_getio", "ithwm2_getio", "intr_map_r"}
  <2>1. Pairs(t) = 1 /\ Chosen(t, 0) = t.reg % 256 /\ ~Stores(t, 0)
    BY <1>1 DEF Pairs, Chosen, Stores, Setters, ReadBack
  <2>2. Len(Program(t)) = 2 /\ Program(t)[1] = Idx(t.reg) /\ Program(t)[2] = In
    BY <1>1, GetArm DEF Get
  <2>3. PairAt(t, 0)
    BY <2>1, <2>2 DEF PairAt, Idx, In
  <2>4. QED
    BY <2>1, <2>2, <2>3 DEF IsPairs
<1>2. CASE t.name \in {"amdpm2_set", "amdpmio_set", "intr_map_w"}
  <2>1. /\ Pairs(t) = 1 /\ Chosen(t, 0) = t.reg % 256 /\ Stores(t, 0)
        /\ Stored(t, 0) = t.val % 256
    BY <1>2 DEF Pairs, Chosen, Stores, Stored, Setters, ReadBack
  <2>2. Len(Program(t)) = 2 /\ Program(t)[1] = Idx(t.reg) /\ Program(t)[2] = Dat(t.val)
    BY <1>2, SetArm DEF Set
  <2>3. PairAt(t, 0)
    BY <2>1, <2>2 DEF PairAt, Idx, Dat
  <2>4. QED
    BY <2>1, <2>2, <2>3 DEF IsPairs
<1>3. CASE t.name \in ReadBack
  <2>1. /\ Pairs(t) = 2 /\ Chosen(t, 0) = t.reg % 256 /\ Chosen(t, 1) = t.reg % 256
        /\ Stores(t, 0) /\ ~Stores(t, 1) /\ Stored(t, 0) = t.val % 256
    BY <1>3 DEF Pairs, Chosen, Stores, Stored, Setters, ReadBack
  <2>2. /\ Len(Program(t)) = 4
        /\ Program(t)[1] = Idx(t.reg) /\ Program(t)[2] = Dat(t.val)
        /\ Program(t)[3] = Idx(t.reg) /\ Program(t)[4] = In
    <3>1. Program(t) = <<Idx(t.reg), Dat(t.val)>> \o <<Idx(t.reg), In>>
      BY <1>3, ReadBackArm DEF SetReadBack, Set, Get
    <3>2. QED
      BY <3>1, TwoPairs
  <2>3. PairAt(t, 0) /\ PairAt(t, 1)
    BY <2>1, <2>2 DEF PairAt, Idx, Dat, In
  <2>4. \A j \in 0 .. 1 : j = 0 \/ j = 1
    OBVIOUS
  <2>5. QED
    BY <2>1, <2>2, <2>3, <2>4 DEF IsPairs
<1>4. CASE t.name = "ioapic_wr"
  <2>1. Word(t.reg, 0) = High(t.reg) /\ Word(t.reg, 1) = Low(t.reg)
    BY DEF Word
  <2>2. Stored(t, 0) = (t.val \div WordBase) % WordBase /\ Stored(t, 1) = t.val % WordBase
    BY <1>4 DEF Stored
  <2>3. Chosen(t, 0) = High(t.reg) % 256 /\ Chosen(t, 1) = Low(t.reg) % 256
    BY <1>4, <2>1 DEF Chosen
  <2>4. Pairs(t) = 2 /\ Stores(t, 0) /\ Stores(t, 1)
    BY <1>4 DEF Pairs, Stores, Setters, ReadBack
  <2>5. /\ Len(Program(t)) = 4
        /\ Program(t)[1] = Idx(High(t.reg)) /\ Program(t)[2] = Wrd(t.val \div WordBase)
        /\ Program(t)[3] = Idx(Low(t.reg)) /\ Program(t)[4] = Wrd(t.val)
    BY <1>4, OtherArms DEF set_rdt_entry
  <2>6. PairAt(t, 0) /\ PairAt(t, 1)
    BY <2>2, <2>3, <2>4, <2>5 DEF PairAt, Idx, Wrd
  <2>7. \A j \in 0 .. 1 : j = 0 \/ j = 1
    OBVIOUS
  <2>8. QED
    BY <2>4, <2>5, <2>6, <2>7 DEF IsPairs
<1>5. CASE t.name \in {"getcmos_all", "getextcmos_all"}
  <2> DEFINE first == IF t.name = "getcmos_all" THEN 14 ELSE 0
             bit   == IF t.name = "getcmos_all" THEN 0 ELSE 128
  <2>1. /\ Program(t) = List(first, bit) /\ Pairs(t) = list_end - first
        /\ Pairs(t) \in Nat \ {0} /\ first < list_end
    BY <1>0, <1>5, OtherArms DEF Pairs, getcmos_all, getextcmos_all
  <2>2. \A j \in 0 .. Pairs(t) - 1 :
          ~Stores(t, j) /\ Chosen(t, j) = (bit + first + j) % 256
    BY <1>5 DEF Chosen, Stores, Setters
  <2>3. \A j \in 0 .. Pairs(t) - 1 : PairAt(t, j)
    BY <2>1, <2>2, ListPairs DEF PairAt
  <2>4. Len(Program(t)) = 2 * Pairs(t)
    BY <1>0, <2>1 DEF List
  <2>5. QED
    BY <2>1, <2>3, <2>4 DEF IsPairs
<1>6. CASE t.name = "ioapic"
  <2>1. /\ Program(t) = ioapic /\ Pairs(t) = 2 * rdt_count /\ Pairs(t) \in Nat \ {0}
    BY <1>0, <1>6, OtherArms DEF Pairs
  <2>2. \A j \in 0 .. Pairs(t) - 1 :
          ~Stores(t, j) /\ Chosen(t, j) = Word(j \div 2, j) % 256
    BY <1>6 DEF Chosen, Stores, Setters
  <2>3. \A j \in 0 .. Pairs(t) - 1 : PairAt(t, j)
    BY <2>1, <2>2, ioapicPairs DEF PairAt
  <2>4. Len(Program(t)) = 2 * Pairs(t)
    BY <1>0, <2>1 DEF ioapic
  <2>5. QED
    BY <2>1, <2>3, <2>4 DEF IsPairs
<1>7. QED
  BY <1>0, <1>1, <1>2, <1>3, <1>4, <1>5, <1>6 DEF ChipOf, ReadBack

-----------------------------------------------------------------------------
(* What t has printed, and what the registers of its chip hold, once it    *)
(* has been through j pairs, where they held b when it was started.        *)
OutAfter(t, b, j) ==
  IF t.name \notin Setters
  THEN [k \in 1 .. j |-> b[Selected(ChipOf[t.name], Chosen(t, k - 1))]]
  ELSE IF t.name \in ReadBack /\ j = 2 THEN <<Stored(t, 0)>> ELSE << >>

RegsAfter(t, b, j) ==
  IF t.name \notin Setters \/ j = 0 THEN b
  ELSE IF t.name = "ioapic_wr" /\ j = 2
  THEN [b EXCEPT ![Chosen(t, 0)] = Stored(t, 0), ![Chosen(t, 1)] = Stored(t, 1)]
  ELSE [b EXCEPT ![Chosen(t, 0)] = Stored(t, 0)]

Shape ==
  /\ tool \in [Run -> Tools]
  /\ st \in [Run -> {"idle", "running", "done", "dead", "refused"}]
  /\ pc \in [Run -> Nat]
  /\ out \in [Run -> Seq(Nat)]
  /\ before \in [Run -> [Byte -> Nat]]
  /\ overlapped \in [Run -> BOOLEAN]
  /\ regs \in [Chip -> [Byte -> Nat]]
  /\ index \in [Chip -> Byte]

(* Two that run at one chip know it.                                       *)
Alone ==
  \A p, q \in Run :
    p # q /\ st[p] = "running" /\ st[q] = "running" /\ On(p) = On(q) => overlapped[p]

Progress(p) ==
  /\ regs[On(p)] = RegsAfter(tool[p], before[p], pc[p] \div 2)
  /\ out[p] = OutAfter(tool[p], before[p], pc[p] \div 2)
  /\ pc[p] % 2 = 1 => index[On(p)] = Chosen(tool[p], pc[p] \div 2)

InvOf(p) ==
  /\ st[p] = "idle" => pc[p] = 0 /\ out[p] = << >>
  /\ st[p] = "running" =>
       /\ ~Refused(tool[p])
       /\ pc[p] < Len(Program(tool[p]))
       /\ ~overlapped[p] => Progress(p)
  /\ st[p] = "done" /\ ~overlapped[p] =>
       out[p] = OutAfter(tool[p], before[p], Pairs(tool[p]))

IInv == Shape /\ Alone /\ \A p \in Run : InvOf(p)

-----------------------------------------------------------------------------
(* What a pair does to the registers and to what is printed.               *)
LEMMA PairTypes ==
  ASSUME NEW t \in Tools, NEW j \in Nat
  PROVE  /\ Chosen(t, j) \in Byte /\ Stored(t, j) \in Nat
         /\ ChipOf[t.name] \in Chip
         /\ Selected(ChipOf[t.name], Chosen(t, j)) \in Byte
<1>1. /\ t.name \in DOMAIN ChipOf /\ t.reg \in Int /\ t.val \in Nat
      /\ WordBase \in Nat \ {0}
  BY ToolFields, WordBaseAssumption
<1>2. Chosen(t, j) \in Byte
  <2> DEFINE x == IF t.name = "getcmos_all" THEN 14 + j
                  ELSE IF t.name = "getextcmos_all" THEN 128 + j
                  ELSE IF t.name = "ioapic" THEN Word(j \div 2, j)
                  ELSE IF t.name = "ioapic_wr" THEN Word(t.reg, j)
                  ELSE t.reg
  <2>1. x \in Int
    BY <1>1 DEF Word, High, Low, rdt_offset
  <2>2. Chosen(t, j) = x % 256
    BY DEF Chosen
  <2> HIDE DEF x
  <2>3. QED
    BY <2>1, <2>2 DEF Byte
<1>3. Stored(t, j) \in Nat
  <2>1. /\ \A v \in Nat : v % WordBase \in Nat
        /\ t.val \div WordBase \in Nat
    BY <1>1
  <2>2. t.val % 256 \in Nat
    BY <1>1
  <2>3. QED
    BY <1>1, <2>1, <2>2 DEF Stored
<1>4. ChipOf[t.name] \in Chip
  BY <1>1 DEF ChipOf, Chip
<1>5. \A v \in Byte : v % 128 \in Byte
  BY DEF Byte
<1>6. QED
  BY <1>2, <1>3, <1>4, <1>5 DEF Selected

LEMMA SetterPairs ==
  ASSUME NEW t \in Tools, t.name \in Setters
  PROVE  /\ ChipOf[t.name] # "extcmos"
         /\ t.name \in ReadBack => Chosen(t, 0) = Chosen(t, 1) /\ Pairs(t) = 2
         /\ t.name = "ioapic_wr" => Pairs(t) = 2
         /\ t.name \notin ReadBack \cup {"ioapic_wr"} => Pairs(t) = 1
  BY DEF Setters, ReadBack, ChipOf, Chosen, Pairs

LEMMA StorePair ==
  ASSUME NEW t \in Tools, NEW b \in [Byte -> Nat],
         NEW j \in 0 .. Pairs(t) - 1, Stores(t, j)
  PROVE  /\ RegsAfter(t, b, j + 1)
              = [RegsAfter(t, b, j) EXCEPT ![Chosen(t, j)] = Stored(t, j)]
         /\ OutAfter(t, b, j + 1) = OutAfter(t, b, j)
         /\ Selected(ChipOf[t.name], Chosen(t, j)) = Chosen(t, j)
<1>1. t.name \in Setters
  BY DEF Stores
<1>2. Selected(ChipOf[t.name], Chosen(t, j)) = Chosen(t, j)
  BY <1>1, SetterPairs DEF Selected
<1>3. CASE j = 0
  <2>1. /\ RegsAfter(t, b, 0) = b
        /\ RegsAfter(t, b, 1) = [b EXCEPT ![Chosen(t, 0)] = Stored(t, 0)]
    BY <1>1 DEF RegsAfter
  <2>2. OutAfter(t, b, 0) = << >> /\ OutAfter(t, b, 1) = << >>
    BY <1>1 DEF OutAfter
  <2>3. QED
    BY <1>2, <1>3, <2>1, <2>2
<1>4. CASE j # 0
  <2>1. t.name = "ioapic_wr" /\ j = 1
    BY <1>1, <1>4, SetterPairs DEF Stores
  <2>2. /\ RegsAfter(t, b, 1) = [b EXCEPT ![Chosen(t, 0)] = Stored(t, 0)]
        /\ RegsAfter(t, b, 2) = [b EXCEPT ![Chosen(t, 0)] = Stored(t, 0),
                                          ![Chosen(t, 1)] = Stored(t, 1)]
    BY <1>1, <2>1 DEF RegsAfter
  <2>3. OutAfter(t, b, 1) = << >> /\ OutAfter(t, b, 2) = << >>
    BY <1>1, <2>1 DEF OutAfter, ReadBack
  <2>4. QED
    BY <1>2, <2>1, <2>2, <2>3
<1>5. QED
  BY <1>3, <1>4

LEMMA ReadPair ==
  ASSUME NEW t \in Tools, NEW b \in [Byte -> Nat],
         NEW j \in 0 .. Pairs(t) - 1, ~Stores(t, j)
  PROVE  /\ RegsAfter(t, b, j + 1) = RegsAfter(t, b, j)
         /\ OutAfter(t, b, j + 1)
              = Append(OutAfter(t, b, j),
                       RegsAfter(t, b, j)[Selected(ChipOf[t.name], Chosen(t, j))])
<1>1. CASE t.name \notin Setters
  <2>1. RegsAfter(t, b, j) = b /\ RegsAfter(t, b, j + 1) = b
    BY <1>1 DEF RegsAfter
  <2> DEFINE e(k) == b[Selected(ChipOf[t.name], Chosen(t, k - 1))]
  <2>2. OutAfter(t, b, j) = [k \in 1 .. j |-> e(k)]
    BY <1>1 DEF OutAfter
  <2>3. OutAfter(t, b, j + 1) = [k \in 1 .. j + 1 |-> e(k)]
    BY <1>1 DEF OutAfter
  <2>4. e(j + 1) = b[Selected(ChipOf[t.name], Chosen(t, j))]
    BY AllPairs DEF IsPairs
  <2> HIDE DEF e
  <2>5. j \in Nat
    OBVIOUS
  <2>6. [k \in 1 .. j + 1 |-> e(k)] = Append([k \in 1 .. j |-> e(k)], e(j + 1))
    BY <2>5
  <2>7. QED
    BY <2>1, <2>2, <2>3, <2>4, <2>6
<1>2. CASE t.name \in Setters
  <2>1. t.name \in ReadBack /\ j = 1 /\ Chosen(t, 0) = Chosen(t, 1)
    BY <1>2, SetterPairs DEF Stores
  <2>2. t.name # "ioapic_wr"
    BY <2>1 DEF ReadBack
  <2>3. /\ RegsAfter(t, b, 1) = [b EXCEPT ![Chosen(t, 0)] = Stored(t, 0)]
        /\ RegsAfter(t, b, 2) = [b EXCEPT ![Chosen(t, 0)] = Stored(t, 0)]
    BY <1>2, <2>2 DEF RegsAfter
  <2>4. OutAfter(t, b, 1) = << >> /\ OutAfter(t, b, 2) = <<Stored(t, 0)>>
    BY <1>2, <2>1 DEF OutAfter
  <2>5. Selected(ChipOf[t.name], Chosen(t, 1)) = Chosen(t, 1)
    BY <1>2, SetterPairs DEF Selected
  <2>6. RegsAfter(t, b, 1)[Chosen(t, 1)] = Stored(t, 0)
    BY <2>1, <2>3, PairTypes
  <2>7. Append(<< >>, Stored(t, 0)) = <<Stored(t, 0)>> /\ j + 1 = 2
    BY <2>1
  <2>8. RegsAfter(t, b, j + 1) = RegsAfter(t, b, j)
    BY <2>1, <2>3, <2>7
  <2>9. Append(OutAfter(t, b, j), RegsAfter(t, b, j)[Selected(ChipOf[t.name], Chosen(t, j))])
          = <<Stored(t, 0)>>
    BY <2>1, <2>4, <2>5, <2>6, <2>7
  <2>10. QED
    BY <2>4, <2>7, <2>8, <2>9
<1>3. QED
  BY <1>1, <1>2

-----------------------------------------------------------------------------
LEMMA InitShape == Init => IInv
<1> SUFFICES ASSUME Init PROVE IInv
  OBVIOUS
<1>1. \A p \in Run : On(p) \in Chip
  BY PairTypes DEF Init, On
<1>2. regs \in [Chip -> [Byte -> Nat]]
  BY ContentsAssumption DEF Init
<1>3. before \in [Run -> [Byte -> Nat]]
  BY <1>1, <1>2 DEF Init
<1>4. Shape
  BY <1>2, <1>3 DEF Init, Shape, Byte
<1>5. Alone /\ \A p \in Run : InvOf(p)
  BY DEF Init, Alone, InvOf
<1>6. QED
  BY <1>4, <1>5 DEF IInv

(* The access p makes next, by the pair it belongs to.                     *)
LEMMA NextOp ==
  ASSUME NEW t \in Tools, NEW k \in Nat, k < Len(Program(t))
  PROVE  /\ k \div 2 \in 0 .. Pairs(t) - 1
         /\ k % 2 = 0 => Program(t)[k + 1] = [op |-> "index", v |-> Chosen(t, k \div 2)]
         /\ k % 2 = 1 => Program(t)[k + 1] = IF Stores(t, k \div 2)
                              THEN [op |-> "data", v |-> Stored(t, k \div 2)]
                              ELSE [op |-> "in", v |-> 0]
<1>1. /\ Len(Program(t)) = 2 * Pairs(t) /\ Pairs(t) \in Nat
      /\ \A j \in 0 .. Pairs(t) - 1 : PairAt(t, j)
  BY AllPairs DEF IsPairs
<1> DEFINE n == Pairs(t)  j == k \div 2
<1>2. /\ j \in 0 .. n - 1
      /\ k % 2 = 0 => k + 1 = 2 * j + 1
      /\ k % 2 = 1 => k + 1 = 2 * j + 2
  <2> HIDE DEF n
  <2>1. n \in Nat /\ k < 2 * n
    BY <1>1 DEF n
  <2>2. QED
    BY <2>1
<1> HIDE DEF j
<1>3. PairAt(t, j)
  BY <1>1, <1>2
<1>4. QED
  BY <1>2, <1>3 DEF PairAt, j

LEMMA HalfSteps ==
  ASSUME NEW k \in Nat
  PROVE  /\ k % 2 = 0 => (k + 1) % 2 = 1 /\ (k + 1) \div 2 = k \div 2
         /\ k % 2 = 1 => (k + 1) % 2 = 0 /\ (k + 1) \div 2 = (k \div 2) + 1
         /\ k % 2 \in {0, 1}
  OBVIOUS

(* One access of p that nobody disturbs takes its progress one further.    *)
LEMMA AccessProgress ==
  ASSUME NEW p \in Run, Shape, InvOf(p), Access(p)
  PROVE  /\ pc' = [pc EXCEPT ![p] = pc[p] + 1]
         /\ st' = IF pc[p] + 1 = Len(Program(tool[p]))
                  THEN [st EXCEPT ![p] = "done"] ELSE st
         /\ UNCHANGED <<tool, before, overlapped>>
         /\ regs' \in [Chip -> [Byte -> Nat]] /\ index' \in [Chip -> Byte]
         /\ out' \in [Run -> Seq(Nat)]
         /\ \A c \in Chip : c # On(p) => regs'[c] = regs[c] /\ index'[c] = index[c]
         /\ \A q \in Run : q # p => out'[q] = out[q]
         /\ ~overlapped[p] =>
              LET k == pc[p] + 1
              IN  /\ regs'[On(p)] = RegsAfter(tool[p], before[p], k \div 2)
                  /\ out'[p] = OutAfter(tool[p], before[p], k \div 2)
                  /\ k % 2 = 1 => index'[On(p)] = Chosen(tool[p], k \div 2)
                  /\ k % 2 = 0 => index'[On(p)] = Chosen(tool[p], pc[p] \div 2)
<1> DEFINE t == tool[p]
           b == before[p]
           k == pc[p]
           j == k \div 2
           c == On(p)
           op == Program(t)[k + 1]
           r == Selected(c, index[c])
<1>1. /\ t \in Tools /\ b \in [Byte -> Nat] /\ k \in Nat /\ c = ChipOf[t.name]
      /\ c \in Chip /\ index[c] \in Byte /\ regs[c] \in [Byte -> Nat]
      /\ out[p] \in Seq(Nat) /\ k < Len(Program(t)) /\ st[p] = "running"
      /\ ~overlapped[p] => Progress(p)
  BY PairTypes DEF Shape, On, InvOf, Access
<1>2. r \in Byte
  <2>1. \A v \in Byte : v % 128 \in Byte
    BY DEF Byte
  <2>2. QED
    BY <1>1, <2>1 DEF Selected
<1>3. /\ pc' = [pc EXCEPT ![p] = k + 1]
      /\ st' = IF k + 1 = Len(Program(t)) THEN [st EXCEPT ![p] = "done"] ELSE st
      /\ UNCHANGED <<tool, before, overlapped>>
      /\ \/ /\ op.op = "index"
            /\ index' = [index EXCEPT ![c] = op.v]
            /\ UNCHANGED <<regs, out>>
         \/ /\ op.op = "data"
            /\ regs' = [regs EXCEPT ![c] = [regs[c] EXCEPT ![r] = op.v]]
            /\ UNCHANGED <<index, out>>
         \/ /\ op.op = "in"
            /\ out' = [out EXCEPT ![p] = Append(out[p], regs[c][r])]
            /\ UNCHANGED <<index, regs>>
  BY DEF Access
<1>4. /\ j \in 0 .. Pairs(t) - 1
      /\ k % 2 = 0 => op = [op |-> "index", v |-> Chosen(t, j)]
      /\ k % 2 = 1 => op = IF Stores(t, j)
                           THEN [op |-> "data", v |-> Stored(t, j)]
                           ELSE [op |-> "in", v |-> 0]
  BY <1>1, NextOp
<1>5. /\ Chosen(t, j) \in Byte /\ Stored(t, j) \in Nat
  BY <1>1, <1>4, PairTypes
<1>6. /\ k % 2 = 0 => (k + 1) % 2 = 1 /\ (k + 1) \div 2 = j
      /\ k % 2 = 1 => (k + 1) % 2 = 0 /\ (k + 1) \div 2 = j + 1
      /\ k % 2 \in {0, 1}
  BY <1>1, HalfSteps
<1>7. ~overlapped[p] =>
        /\ regs[c] = RegsAfter(t, b, j) /\ out[p] = OutAfter(t, b, j)
        /\ k % 2 = 1 => index[c] = Chosen(t, j)
  BY <1>1 DEF Progress
<1>8. /\ regs \in [Chip -> [Byte -> Nat]] /\ index \in [Chip -> Byte]
      /\ out \in [Run -> Seq(Nat)]
  BY DEF Shape
<1> DEFINE Typed == /\ regs' \in [Chip -> [Byte -> Nat]] /\ index' \in [Chip -> Byte]
                    /\ out' \in [Run -> Seq(Nat)]
           Aside == /\ \A d \in Chip : d # c => regs'[d] = regs[d] /\ index'[d] = index[d]
                    /\ \A q \in Run : q # p => out'[q] = out[q]
           Further ==
             /\ regs'[c] = RegsAfter(t, b, (k + 1) \div 2)
             /\ out'[p] = OutAfter(t, b, (k + 1) \div 2)
             /\ (k + 1) % 2 = 1 => index'[c] = Chosen(t, (k + 1) \div 2)
             /\ (k + 1) % 2 = 0 => index'[c] = Chosen(t, j)
<1> HIDE DEF t, b, k, j, c, op, r
<1>9. Typed /\ Aside /\ (~overlapped[p] => Further)
  <2>1. CASE k % 2 = 0
    <3>1. op.op = "index" /\ op.v = Chosen(t, j)
      BY <1>4, <2>1
    <3>2. index' = [index EXCEPT ![c] = Chosen(t, j)] /\ UNCHANGED <<regs, out>>
      BY <1>3, <3>1
    <3>3. index'[c] = Chosen(t, j)
      BY <1>1, <1>8, <3>2
    <3>4. Typed /\ Aside
      BY <1>5, <1>8, <3>2
    <3>5. ~overlapped[p] => Further
      BY <1>6, <1>7, <2>1, <3>2, <3>3
    <3>6. QED
      BY <3>4, <3>5
  <2>2. CASE k % 2 = 1 /\ Stores(t, j)
    <3>1. op.op = "data" /\ op.v = Stored(t, j)
      BY <1>4, <2>2
    <3>2. /\ regs' = [regs EXCEPT ![c] = [regs[c] EXCEPT ![r] = Stored(t, j)]]
          /\ UNCHANGED <<index, out>>
      BY <1>3, <3>1
    <3>3. /\ RegsAfter(t, b, j + 1) = [RegsAfter(t, b, j) EXCEPT ![Chosen(t, j)] = Stored(t, j)]
          /\ OutAfter(t, b, j + 1) = OutAfter(t, b, j)
          /\ Selected(c, Chosen(t, j)) = Chosen(t, j)
      BY <1>1, <1>4, <2>2, StorePair
    <3>4. [regs[c] EXCEPT ![r] = Stored(t, j)] \in [Byte -> Nat]
      BY <1>1, <1>2, <1>5
    <3>5. Typed /\ Aside
      BY <1>8, <3>2, <3>4
    <3>6. regs'[c] = [regs[c] EXCEPT ![r] = Stored(t, j)]
      BY <1>1, <1>8, <3>2
    <3>7. ~overlapped[p] => r = Chosen(t, j)
      BY <1>7, <2>2, <3>3 DEF r
    <3>8. ~overlapped[p] => Further
      BY <1>6, <1>7, <2>2, <3>2, <3>3, <3>6, <3>7
    <3>9. QED
      BY <3>5, <3>8
  <2>3. CASE k % 2 = 1 /\ ~Stores(t, j)
    <3>1. op.op = "in"
      BY <1>4, <2>3
    <3>2. /\ out' = [out EXCEPT ![p] = Append(out[p], regs[c][r])]
          /\ UNCHANGED <<index, regs>>
      BY <1>3, <3>1
    <3>3. /\ RegsAfter(t, b, j + 1) = RegsAfter(t, b, j)
          /\ OutAfter(t, b, j + 1)
               = Append(OutAfter(t, b, j), RegsAfter(t, b, j)[Selected(c, Chosen(t, j))])
      BY <1>1, <1>4, <2>3, ReadPair
    <3>4. Append(out[p], regs[c][r]) \in Seq(Nat)
      BY <1>1, <1>2
    <3>5. Typed /\ Aside
      BY <1>8, <3>2, <3>4
    <3>6. out'[p] = Append(out[p], regs[c][r])
      BY <1>8, <3>2
    <3>7. ~overlapped[p] => r = Selected(c, Chosen(t, j))
      BY <1>7, <2>3 DEF r
    <3>8. ~overlapped[p] => Further
      BY <1>6, <1>7, <2>3, <3>2, <3>3, <3>6, <3>7
    <3>9. QED
      BY <3>5, <3>8
  <2>4. QED
    BY <1>6, <2>1, <2>2, <2>3
<1>10. QED
  BY <1>3, <1>9 DEF t, b, k, j, c

(* Somebody else's access leaves what an undisturbed tool relies on.       *)
LEMMA AccessInv ==
  ASSUME NEW p \in Run, IInv, Access(p)
  PROVE  IInv'
<1>1. Shape /\ Alone /\ \A q \in Run : InvOf(q)
  BY DEF IInv
<1>2. /\ pc' = [pc EXCEPT ![p] = pc[p] + 1]
      /\ st' = IF pc[p] + 1 = Len(Program(tool[p]))
               THEN [st EXCEPT ![p] = "done"] ELSE st
      /\ UNCHANGED <<tool, before, overlapped>>
      /\ regs' \in [Chip -> [Byte -> Nat]] /\ index' \in [Chip -> Byte]
      /\ out' \in [Run -> Seq(Nat)]
      /\ \A c \in Chip : c # On(p) => regs'[c] = regs[c] /\ index'[c] = index[c]
      /\ \A q \in Run : q # p => out'[q] = out[q]
  BY <1>1, AccessProgress
<1>3. st[p] = "running"
  BY DEF Access
<1>4. /\ pc \in [Run -> Nat] /\ tool \in [Run -> Tools] /\ overlapped \in [Run -> BOOLEAN]
      /\ st \in [Run -> {"idle", "running", "done", "dead", "refused"}]
  BY <1>1 DEF Shape
<1>5. Shape'
  <2>1. pc' \in [Run -> Nat]
    BY <1>2, <1>4
  <2>2. st' \in [Run -> {"idle", "running", "done", "dead", "refused"}]
    BY <1>2, <1>4
  <2>3. QED
    BY <1>1, <1>2, <2>1, <2>2 DEF Shape
<1>6. \A q \in Run : On(q)' = On(q) /\ (st'[q] = "running" => st[q] = "running")
  BY <1>2, <1>4 DEF On
<1>7. Alone'
  BY <1>1, <1>2, <1>6 DEF Alone
<1>8. InvOf(p)'
  <2>1. ~overlapped[p] =>
          LET k == pc[p] + 1
          IN  /\ regs'[On(p)] = RegsAfter(tool[p], before[p], k \div 2)
              /\ out'[p] = OutAfter(tool[p], before[p], k \div 2)
              /\ k % 2 = 1 => index'[On(p)] = Chosen(tool[p], k \div 2)
    BY <1>1, AccessProgress
  <2>2. pc'[p] = pc[p] + 1 /\ tool'[p] = tool[p] /\ before'[p] = before[p]
        /\ overlapped'[p] = overlapped[p] /\ On(p)' = On(p) /\ pc[p] \in Nat
    BY <1>2, <1>4, <1>6
  <2>3. ~overlapped[p] => Progress(p)'
    BY <2>1, <2>2 DEF Progress
  <2>4. ~Refused(tool[p]) /\ pc[p] < Len(Program(tool[p])) /\ Len(Program(tool[p])) = 2 * Pairs(tool[p])
        /\ Pairs(tool[p]) \in Nat
    BY <1>1, <1>3, <1>4, AllPairs DEF InvOf, IsPairs
  <2>5. CASE pc[p] + 1 = Len(Program(tool[p]))
    <3>1. st'[p] = "done"
      BY <1>2, <1>4, <2>5
    <3> DEFINE n == Pairs(tool[p])
    <3>2. (pc[p] + 1) \div 2 = n
      <4>1. n \in Nat /\ pc[p] + 1 = 2 * n
        BY <2>4, <2>5
      <4> HIDE DEF n
      <4>2. QED
        BY <4>1
    <3>3. ~overlapped[p] => out'[p] = OutAfter(tool[p], before[p], Pairs(tool[p]))
      BY <2>1, <3>2
    <3>4. QED
      BY <2>2, <3>1, <3>3 DEF InvOf
  <2>6. CASE pc[p] + 1 # Len(Program(tool[p]))
    <3>1. st'[p] = "running"
      BY <1>2, <1>3, <2>6
    <3>2. pc'[p] < Len(Program(tool[p])')
      BY <2>2, <2>4, <2>6 DEF Shape
    <3>3. QED
      BY <2>2, <2>3, <2>4, <2>6, <3>1, <3>2 DEF InvOf
  <2>7. QED
    BY <2>5, <2>6
<1>9. \A q \in Run : q # p => InvOf(q)'
  <2> SUFFICES ASSUME NEW q \in Run, q # p PROVE InvOf(q)'
    OBVIOUS
  <2>1. /\ tool'[q] = tool[q] /\ st'[q] = st[q] /\ pc'[q] = pc[q] /\ out'[q] = out[q]
        /\ before'[q] = before[q] /\ overlapped'[q] = overlapped[q] /\ On(q)' = On(q)
    BY <1>2, <1>4, <1>6
  <2>2. InvOf(q) /\ On(q) \in Chip
    BY <1>1, <1>4, PairTypes DEF On
  <2>3. st[q] = "running" /\ ~overlapped[q] => On(q) # On(p)
    BY <1>1, <1>3 DEF Alone
  <2>4. st[q] = "running" /\ ~overlapped[q] =>
          regs'[On(q)] = regs[On(q)] /\ index'[On(q)] = index[On(q)]
    BY <1>2, <2>2, <2>3
  <2>5. st[q] = "running" /\ ~overlapped[q] => Progress(q)'
    BY <2>1, <2>2, <2>4 DEF InvOf, Progress
  <2>6. QED
    BY <2>1, <2>2, <2>5 DEF InvOf
<1>10. QED
  BY <1>5, <1>7, <1>8, <1>9 DEF IInv

LEMMA BeginInv ==
  ASSUME NEW p \in Run, IInv, Begin(p)
  PROVE  IInv'
<1>1. Shape /\ Alone /\ \A q \in Run : InvOf(q)
  BY DEF IInv
<1>2. /\ st[p] = "idle"
      /\ UNCHANGED <<tool, pc, out, regs, index>>
      /\ before' = [before EXCEPT ![p] = regs[On(p)]]
      /\ \/ ~Refused(tool[p]) /\ st' = [st EXCEPT ![p] = "running"] /\ Overlap(p)
         \/ st' = [st EXCEPT ![p] = "refused"] /\ UNCHANGED overlapped
  BY DEF Begin
<1>3. \A q \in Run : On(q)' = On(q) /\ On(q) \in Chip
  BY <1>1, <1>2, PairTypes DEF On, Shape
<1>4. \/ /\ overlapped' \in [Run -> BOOLEAN]
         /\ \A q \in Run : overlapped[q] => overlapped'[q]
         /\ \A q \in Run : st[q] = "running" /\ On(q) = On(p) => overlapped'[q] /\ overlapped'[p]
      \/ UNCHANGED overlapped
  <2>1. CASE Overlap(p)
    <3> DEFINE there == {q \in Run : st[q] = "running" /\ On(q) = On(p)}
    <3>1. overlapped' = [q \in Run |-> \/ overlapped[q] \/ q \in there
                                       \/ q = p /\ there # {}]
      BY <2>1 DEF Overlap
    <3>2. overlapped' \in [Run -> BOOLEAN]
      BY <3>1, Zenon
    <3>3. \A q \in Run : overlapped[q] => overlapped'[q]
      BY <3>1
    <3>4. \A q \in there : overlapped'[q] /\ overlapped'[p]
      BY <3>1
    <3>5. QED
      BY <3>2, <3>3, <3>4
  <2>2. QED
    BY <1>2, <2>1
<1>5. Shape'
  <2>1. before' \in [Run -> [Byte -> Nat]]
    BY <1>1, <1>2, <1>3 DEF Shape
  <2>2. st' \in [Run -> {"idle", "running", "done", "dead", "refused"}]
    BY <1>1, <1>2 DEF Shape
  <2>3. overlapped' \in [Run -> BOOLEAN]
    BY <1>1, <1>4 DEF Shape
  <2>4. QED
    BY <1>1, <1>2, <2>1, <2>2, <2>3 DEF Shape
<1>6. Alone'
  <2> SUFFICES ASSUME NEW q \in Run, NEW r \in Run, q # r,
                      st'[q] = "running", st'[r] = "running", On(q)' = On(r)'
               PROVE  overlapped'[q]
    BY DEF Alone
  <2>1. st \in [Run -> {"idle", "running", "done", "dead", "refused"}] /\ On(q) = On(r)
    BY <1>1, <1>3 DEF Shape
  <2>2. CASE q # p /\ r # p
    <3>1. st[q] = "running" /\ st[r] = "running"
      BY <1>2, <2>1, <2>2
    <3>2. overlapped[q]
      BY <1>1, <2>1, <3>1 DEF Alone
    <3>3. QED
      BY <1>4, <3>2
  <2>3. CASE q = p \/ r = p
    <3>1. Overlap(p) /\ st'[p] = "running"
      BY <1>2, <2>1, <2>3
    <3>2. \A s \in Run : st[s] = "running" /\ On(s) = On(p) => overlapped'[s] /\ overlapped'[p]
      BY <3>1 DEF Overlap
    <3>3. QED
      BY <1>2, <2>1, <2>3, <3>2
  <2>4. QED
    BY <2>2, <2>3
<1>7. InvOf(p)'
  <2>1. pc'[p] = 0 /\ out'[p] = << >> /\ On(p)' = On(p) /\ tool'[p] = tool[p]
        /\ regs'[On(p)] = regs[On(p)] /\ before'[p] = regs[On(p)] /\ tool[p] \in Tools
    BY <1>1, <1>2, <1>3 DEF InvOf, Shape
  <2>2. RegsAfter(tool[p], before'[p], 0) = before'[p] /\ OutAfter(tool[p], before'[p], 0) = << >>
    BY DEF RegsAfter, OutAfter
  <2>3. 0 \div 2 = 0 /\ 0 % 2 = 0
    OBVIOUS
  <2>4. Progress(p)'
    BY <2>1, <2>2, <2>3 DEF Progress
  <2>5. 0 < Len(Program(tool[p]))
    BY <2>1, AllPairs DEF IsPairs
  <2>6. \/ st'[p] = "running" /\ ~Refused(tool[p])
        \/ st'[p] = "refused"
    BY <1>1, <1>2 DEF Shape
  <2>7. QED
    BY <2>1, <2>4, <2>5, <2>6 DEF InvOf
<1>8. \A q \in Run : q # p => InvOf(q)'
  <2> SUFFICES ASSUME NEW q \in Run, q # p PROVE InvOf(q)'
    OBVIOUS
  <2>1. /\ tool'[q] = tool[q] /\ st'[q] = st[q] /\ pc'[q] = pc[q] /\ out'[q] = out[q]
        /\ before'[q] = before[q] /\ On(q)' = On(q) /\ (overlapped[q] => overlapped'[q])
        /\ regs' = regs /\ index' = index
    BY <1>1, <1>2, <1>3, <1>4 DEF Shape
  <2>2. Progress(q) => Progress(q)'
    BY <2>1 DEF Progress
  <2>3. QED
    BY <1>1, <2>1, <2>2 DEF InvOf
<1>9. QED
  BY <1>5, <1>6, <1>7, <1>8 DEF IInv

LEMMA KillInv ==
  ASSUME NEW p \in Run, IInv, Kill(p)
  PROVE  IInv'
<1>1. /\ Shape /\ Alone /\ \A q \in Run : InvOf(q)
      /\ st' = [st EXCEPT ![p] = "dead"]
      /\ UNCHANGED <<tool, pc, out, before, overlapped, regs, index>>
  BY DEF IInv, Kill
<1>2. Shape' /\ Alone'
  BY <1>1 DEF Shape, Alone, On
<1>3. \A q \in Run : (Progress(q) <=> Progress(q)') /\ st'[q] = (IF q = p THEN "dead" ELSE st[q])
  BY <1>1 DEF Progress, On, Shape
<1>4. \A q \in Run : InvOf(q)'
  BY <1>1, <1>3 DEF InvOf
<1>5. QED
  BY <1>2, <1>4 DEF IInv

LEMMA StepInv == IInv /\ [Next]_vars => IInv'
<1> SUFFICES ASSUME IInv, [Next]_vars PROVE IInv'
  OBVIOUS
<1>1. CASE UNCHANGED vars
  BY <1>1 DEF vars, IInv, Shape, Alone, InvOf, Progress, On
<1>2. CASE Next
  BY <1>2, AccessInv, BeginInv, KillInv DEF Next
<1>3. QED
  BY <1>1, <1>2

LEMMA Always == Spec => []IInv
  BY InitShape, StepInv, PTL DEF Spec

-----------------------------------------------------------------------------
(* After all its pairs a tool has shown what it is to show, and has set    *)
(* what it is to set.                                                      *)
LEMMA ShowsRight ==
  ASSUME NEW t \in Tools, NEW b \in [Byte -> Nat]
  PROVE  Shows(t, b, OutAfter(t, b, Pairs(t)))
<1>1. t.name \in DOMAIN ChipOf /\ list_end \in 15 .. 128 /\ rdt_count \in 1 .. 120
  BY ToolFields, ListAssumption, CountAssumption
<1> DEFINE o == OutAfter(t, b, Pairs(t))
<1>2. CASE t.name = "getcmos_all"
  <2>1. o = [k \in 1 .. list_end - 14 |-> b[Selected("cmos", Chosen(t, k - 1))]]
    BY <1>2 DEF OutAfter, Pairs, Setters, ChipOf
  <2>2. \A k \in 1 .. list_end - 14 : Selected("cmos", Chosen(t, k - 1)) = k + 13
    BY <1>1, <1>2 DEF Selected, Chosen
  <2>3. o = [k \in 1 .. list_end - 14 |-> b[k + 13]]
    BY <2>1, <2>2
  <2>4. QED
    BY <1>2, <2>3, Zenon DEF Shows, Setters, ReadBack
<1>3. CASE t.name = "getextcmos_all"
  <2>1. o = [k \in 1 .. list_end |-> b[Selected("extcmos", Chosen(t, k - 1))]]
    BY <1>3 DEF OutAfter, Pairs, Setters, ChipOf
  <2>2. \A k \in 1 .. list_end : Selected("extcmos", Chosen(t, k - 1)) = k - 1
    BY <1>1, <1>3 DEF Selected, Chosen
  <2>3. o = [k \in 1 .. list_end |-> b[k - 1]]
    BY <2>1, <2>2
  <2>4. QED
    BY <1>3, <2>3, Zenon DEF Shows, Setters, ReadBack
<1>4. CASE t.name = "ioapic"
  <2>1. o = [k \in 1 .. 2 * rdt_count |-> b[Selected("ioapic", Chosen(t, k - 1))]]
    BY <1>4 DEF OutAfter, Pairs, Setters, ChipOf
  <2>2. \A i \in 0 .. rdt_count - 1 :
          /\ 2 * i + 1 \in 1 .. 2 * rdt_count /\ 2 * i + 2 \in 1 .. 2 * rdt_count
          /\ (2 * i + 1) - 1 = 2 * i /\ (2 * i + 2) - 1 = 2 * i + 1
    BY <1>1
  <2>3. \A i \in 0 .. rdt_count - 1 :
          Chosen(t, 2 * i) = High(i) /\ Chosen(t, 2 * i + 1) = Low(i)
    <3> SUFFICES ASSUME NEW i \in 0 .. rdt_count - 1
                 PROVE  Chosen(t, 2 * i) = High(i) /\ Chosen(t, 2 * i + 1) = Low(i)
      OBVIOUS
    <3>1. /\ (2 * i) \div 2 = i /\ (2 * i) % 2 = 0
          /\ (2 * i + 1) \div 2 = i /\ (2 * i + 1) % 2 = 1
      BY <1>1
    <3>2. High(i) % 256 = High(i) /\ Low(i) % 256 = Low(i)
      BY <1>1 DEF High, Low, rdt_offset
    <3>3. QED
      BY <1>4, <3>1, <3>2 DEF Chosen, Word
  <2>4. \A i \in 0 .. rdt_count - 1 : o[2 * i + 1] = b[High(i)] /\ o[2 * i + 2] = b[Low(i)]
    BY <2>1, <2>2, <2>3 DEF Selected
  <2>5. QED
    BY <1>4, <2>4, Zenon DEF Shows, Setters, ReadBack
<1>5. CASE t.name \in ReadBack
  <2>1. o = <<t.val % 256>>
    BY <1>5 DEF OutAfter, Pairs, Setters, ReadBack, Stored
  <2>2. CASE t.name = "ithwm_setio"
    BY <2>1, <2>2, Zenon DEF Shows, Setters, ReadBack
  <2>3. CASE t.name = "ithwm2_setio"
    BY <2>1, <2>3, Zenon DEF Shows, Setters, ReadBack
  <2>4. QED
    BY <1>5, <2>2, <2>3 DEF ReadBack
<1>6. CASE t.name \in Setters \ ReadBack
  <2>1. o = << >>
    BY <1>6 DEF OutAfter, Setters, ReadBack
  <2>2. /\ t.name \notin ReadBack
        /\ t.name \notin {"getcmos_all", "getextcmos_all", "ioapic"}
    BY <1>6 DEF Setters
  <2>3. QED
    BY <1>6, <2>1, <2>2, Zenon DEF Shows
<1>7. CASE t.name \notin Setters \cup {"getcmos_all", "getextcmos_all", "ioapic"}
  <2>1. Pairs(t) = 1 /\ Chosen(t, 0) = t.reg % 256
    BY <1>7 DEF Pairs, Chosen, Setters, ReadBack
  <2>2. o = [k \in 1 .. 1 |-> b[Selected(ChipOf[t.name], Chosen(t, k - 1))]]
    BY <1>7, <2>1 DEF OutAfter
  <2>3. o = <<b[Selected(ChipOf[t.name], Chosen(t, 0))]>>
    BY <2>2
  <2>4. /\ t.name \notin ReadBack /\ t.name \notin Setters \ ReadBack
        /\ t.name # "getcmos_all" /\ t.name # "getextcmos_all" /\ t.name # "ioapic"
    BY <1>7 DEF Setters, ReadBack
  <2>5. QED
    BY <2>1, <2>3, <2>4, Zenon DEF Shows
<1>8. QED
  BY <1>2, <1>3, <1>4, <1>5, <1>6, <1>7

LEMMA SetsRight ==
  ASSUME NEW t \in Tools, NEW b \in [Byte -> Nat]
  PROVE  RegsAfter(t, b, Pairs(t)) = SetByIt(t, b)
<1>1. CASE t.name = "ioapic_wr"
  <2>1. Word(t.reg, 0) = High(t.reg) /\ Word(t.reg, 1) = Low(t.reg)
    BY DEF Word
  <2>2. /\ Chosen(t, 0) = High(t.reg) % 256 /\ Chosen(t, 1) = Low(t.reg) % 256
        /\ Stored(t, 0) = (t.val \div WordBase) % WordBase
        /\ Stored(t, 1) = t.val % WordBase
    BY <1>1, <2>1 DEF Chosen, Stored
  <2>3. RegsAfter(t, b, Pairs(t))
          = [b EXCEPT ![Chosen(t, 0)] = Stored(t, 0), ![Chosen(t, 1)] = Stored(t, 1)]
    BY <1>1 DEF RegsAfter, Pairs, Setters
  <2>4. SetByIt(t, b)
          = [b EXCEPT ![High(t.reg) % 256] = (t.val \div WordBase) % WordBase,
                      ![Low(t.reg) % 256]  = t.val % WordBase]
    BY <1>1, Zenon DEF SetByIt
  <2>5. QED
    BY <2>2, <2>3, <2>4
<1>2. CASE t.name \in Setters \ {"ioapic_wr"}
  <2>1. Chosen(t, 0) = t.reg % 256 /\ Stored(t, 0) = t.val % 256 /\ Pairs(t) # 0
    BY <1>2 DEF Chosen, Stored, Setters, Pairs
  <2>2. RegsAfter(t, b, Pairs(t)) = [b EXCEPT ![t.reg % 256] = t.val % 256]
    BY <1>2, <2>1 DEF RegsAfter
  <2>3. t.name # "ioapic_wr"
    BY <1>2
  <2>4. SetByIt(t, b) = [b EXCEPT ![t.reg % 256] = t.val % 256]
    BY <1>2, <2>3, Zenon DEF SetByIt
  <2>5. QED
    BY <2>2, <2>4
<1>3. CASE t.name \notin Setters
  <2>1. t.name # "ioapic_wr" /\ t.name \notin Setters \ {"ioapic_wr"}
    BY <1>3 DEF Setters
  <2>2. SetByIt(t, b) = b
    BY <2>1, Zenon DEF SetByIt
  <2>3. QED
    BY <1>3, <2>2 DEF RegsAfter
<1>4. QED
  BY <1>1, <1>2, <1>3

(* The last step of a tool that nobody disturbs.                           *)
LEMMA LastAccess ==
  ASSUME IInv, [Next]_vars, NEW p \in Run, EndsAlone(p)
  PROVE  /\ tool[p] \in Tools /\ before[p] \in [Byte -> Nat] /\ ~Refused(tool[p])
         /\ regs'[On(p)] = RegsAfter(tool[p], before[p], Pairs(tool[p]))
         /\ index'[On(p)] = Chosen(tool[p], Pairs(tool[p]) - 1)
<1>1. Shape /\ InvOf(p) /\ st[p] = "running" /\ st'[p] = "done" /\ ~overlapped[p]
  BY DEF IInv, EndsAlone
<1>2. st \in [Run -> {"idle", "running", "done", "dead", "refused"}]
  BY <1>1 DEF Shape
<1>3. \A q \in Run : ~Begin(q) /\ ~Kill(q)
  <2> SUFFICES ASSUME NEW q \in Run, Begin(q) \/ Kill(q) PROVE FALSE
    OBVIOUS
  <2>1. \/ st[q] = "idle" /\ (st' = [st EXCEPT ![q] = "running"] \/ st' = [st EXCEPT ![q] = "refused"])
        \/ st' = [st EXCEPT ![q] = "dead"]
    BY DEF Begin, Kill
  <2>2. QED
    BY <1>1, <1>2, <2>1
<1>4. PICK q \in Run : Access(q)
  BY <1>1, <1>3 DEF Next, vars
<1>5. st' = IF pc[q] + 1 = Len(Program(tool[q])) THEN [st EXCEPT ![q] = "done"] ELSE st
  BY <1>4 DEF Access
<1>6. p = q /\ pc[p] + 1 = Len(Program(tool[p]))
  BY <1>1, <1>2, <1>5
<1>7. /\ tool[p] \in Tools /\ before[p] \in [Byte -> Nat] /\ pc[p] \in Nat
      /\ ~Refused(tool[p])
  BY <1>1 DEF Shape, InvOf
<1>8. Len(Program(tool[p])) = 2 * Pairs(tool[p]) /\ Pairs(tool[p]) \in Nat \ {0}
  BY <1>7, AllPairs DEF IsPairs
<1> DEFINE k == pc[p]  n == Pairs(tool[p])
<1>9. (k + 1) \div 2 = n /\ (k + 1) % 2 = 0 /\ k \div 2 = n - 1
  <2>1. k \in Nat /\ n \in Nat \ {0} /\ k + 1 = 2 * n
    BY <1>6, <1>7, <1>8
  <2> HIDE DEF k, n
  <2>2. QED
    BY <2>1
<1>10. /\ regs'[On(p)] = RegsAfter(tool[p], before[p], (k + 1) \div 2)
       /\ (k + 1) % 2 = 0 => index'[On(p)] = Chosen(tool[p], k \div 2)
  BY <1>1, <1>4, <1>6, AccessProgress
<1>11. QED
  BY <1>7, <1>9, <1>10

-----------------------------------------------------------------------------
(* Whatever tools are run, in whatever order, ended anywhere: one that     *)
(* comes to its end with its chip to itself has printed what it is for.    *)
THEOREM PrintsRightAlways == Spec => []PrintsRight
<1>1. IInv => PrintsRight
  BY ShowsRight DEF IInv, Shape, InvOf, PrintsRight
<1>2. QED
  BY <1>1, Always, PTL

(* A setter sets the one register, or the one entry, of its command line   *)
(* and leaves every other register of the chip alone; no other tool        *)
(* changes anything.                                                       *)
THEOREM SetsOneAlways == Spec => SetsOne
<1>1. IInv /\ [Next]_vars =>
        \A p \in Run : EndsAlone(p) => regs'[On(p)] = SetByIt(tool[p], before[p])
  BY LastAccess, SetsRight
<1>2. QED
  BY <1>1, Always, PTL DEF Spec, SetsOne

(* amd_intr_map_tool uses its arguments as they are, or refuses them.      *)
THEOREM NothingTruncatedAlways == Spec => NothingTruncated
<1> DEFINE A == \A p \in Run : EndsAlone(p) /\ On(p) = "intr" =>
                  /\ index'["intr"] = tool[p].reg
                  /\ tool[p].name \in Setters =>
                       regs'["intr"][tool[p].reg] = tool[p].val
<1>1. IInv /\ [Next]_vars => A
  <2> SUFFICES ASSUME IInv, [Next]_vars, NEW p \in Run, EndsAlone(p), On(p) = "intr"
               PROVE  /\ index'["intr"] = tool[p].reg
                      /\ tool[p].name \in Setters =>
                           regs'["intr"][tool[p].reg] = tool[p].val
    OBVIOUS
  <2> DEFINE t == tool[p]
  <2>1. /\ t \in Tools /\ before[p] \in [Byte -> Nat] /\ ~Refused(t)
        /\ regs'["intr"] = RegsAfter(t, before[p], Pairs(t))
        /\ index'["intr"] = Chosen(t, Pairs(t) - 1)
    BY LastAccess
  <2>2. t.name \in {"intr_map_r", "intr_map_w"}
    BY <2>1, ToolFields DEF On, ChipOf
  <2>3. t.reg \in Nat /\ t.reg <= 255 /\ t.val \in Nat
        /\ (t.name = "intr_map_w" => t.val <= 255)
    BY <2>1, <2>2, ToolFields DEF Refused
  <2>4. Pairs(t) = 1 /\ Chosen(t, 0) = t.reg % 256
    BY <2>2 DEF Pairs, Chosen, ReadBack
  <2>5. t.reg % 256 = t.reg /\ t.reg \in Byte
    BY <2>3 DEF Byte
  <2>6. ASSUME t.name \in Setters
        PROVE  regs'["intr"][t.reg] = t.val
    <3>1. t.name = "intr_map_w" /\ t.val % 256 = t.val
      BY <2>2, <2>3, <2>6 DEF Setters
    <3>2. regs'["intr"] = [before[p] EXCEPT ![Chosen(t, 0)] = t.val % 256]
      BY <2>1, <2>4, <3>1 DEF RegsAfter, Stored, Setters
    <3>3. QED
      BY <2>1, <2>4, <2>5, <3>1, <3>2
  <2>7. QED
    BY <2>1, <2>4, <2>5, <2>6
<1>2. QED
  BY <1>1, Always, PTL DEF Spec, NothingTruncated

LEMMA WordParity ==
  ASSUME NEW i \in 0 .. rdt_count - 1, NEW n \in Int
  PROVE  /\ High(n) % 256 # Low(i)
         /\ Low(n) % 256 = Low(i) => High(n) % 256 = High(i)
         /\ High(i) \in Byte /\ Low(i) \in Byte /\ High(i) # Low(i)
  BY CountAssumption DEF High, Low, rdt_offset, Byte

(* An entry's low word changes only together with, and after, the high     *)
(* word that belongs to it.                                                *)
THEOREM DestinationFirstAlways == Spec => DestinationFirst
<1> DEFINE Paired(i) ==
      \E p \in Run :
        /\ st[p] = "running" /\ On(p) = "ioapic"
        /\ \/ overlapped[p]
           \/ /\ regs["ioapic"][High(i)] = (tool[p].val \div WordBase) % WordBase
              /\ regs'["ioapic"][Low(i)] = tool[p].val % WordBase
<1>1. IInv /\ [Next]_vars =>
        \A i \in 0 .. rdt_count - 1 :
          regs'["ioapic"][Low(i)] # regs["ioapic"][Low(i)] => Paired(i)
  <2> SUFFICES ASSUME IInv, [Next]_vars, NEW i \in 0 .. rdt_count - 1,
                      regs'["ioapic"][Low(i)] # regs["ioapic"][Low(i)]
               PROVE  Paired(i)
    OBVIOUS
  <2>1. PICK p \in Run : Access(p)
    BY DEF Next, Begin, Kill, vars
  <2>2. Shape /\ InvOf(p) /\ st[p] = "running"
    BY <2>1 DEF IInv, Access
  <2>3. On(p) = "ioapic"
    BY <2>1, <2>2, AccessProgress DEF Chip
  <2>4. CASE overlapped[p]
    BY <2>2, <2>3, <2>4
  <2>5. CASE ~overlapped[p]
    <3> DEFINE t == tool[p]  b == before[p]  k == pc[p]
    <3>1. /\ t \in Tools /\ b \in [Byte -> Nat] /\ k \in Nat
          /\ k < Len(Program(t))
          /\ regs["ioapic"] = RegsAfter(t, b, k \div 2)
      BY <2>2, <2>3, <2>5 DEF Shape, InvOf, Progress
    <3>2. regs'["ioapic"] = RegsAfter(t, b, (k + 1) \div 2)
      BY <2>1, <2>2, <2>3, <2>5, AccessProgress
    <3>3. t.name = "ioapic_wr" /\ t.reg \in Int
      BY <2>3, <3>1, <3>2, ToolFields DEF On, ChipOf, RegsAfter, Setters
    <3> DEFINE j == k \div 2
    <3>4. j \in 0 .. 1 /\ (k + 1) \div 2 = j + 1
      <4>1. (k + 1) \div 2 # j
        BY <3>1, <3>2
      <4>2. (k + 1) \div 2 = j + 1
        BY <3>1, <4>1, HalfSteps
      <4>3. Pairs(t) = 2
        BY <3>1, <3>3, SetterPairs DEF Setters
      <4>4. j \in 0 .. Pairs(t) - 1
        BY <3>1, NextOp
      <4>5. QED
        BY <4>2, <4>3, <4>4
    <3>5. /\ RegsAfter(t, b, 0) = b
          /\ RegsAfter(t, b, 1) = [b EXCEPT ![Chosen(t, 0)] = Stored(t, 0)]
          /\ RegsAfter(t, b, 2) = [b EXCEPT ![Chosen(t, 0)] = Stored(t, 0),
                                            ![Chosen(t, 1)] = Stored(t, 1)]
      BY <3>3 DEF RegsAfter, Setters
    <3>6. Word(t.reg, 0) = High(t.reg) /\ Word(t.reg, 1) = Low(t.reg)
      BY DEF Word
    <3>7. /\ Chosen(t, 0) = High(t.reg) % 256 /\ Chosen(t, 1) = Low(t.reg) % 256
          /\ Stored(t, 0) = (t.val \div WordBase) % WordBase
          /\ Stored(t, 1) = t.val % WordBase
      BY <3>3, <3>6 DEF Chosen, Stored
    <3>8. /\ Chosen(t, 0) # Low(i)
          /\ Chosen(t, 1) = Low(i) => Chosen(t, 0) = High(i)
          /\ High(i) \in Byte /\ Low(i) \in Byte /\ High(i) # Low(i)
      BY <3>3, <3>7, WordParity
    <3>9. regs["ioapic"] = RegsAfter(t, b, j) /\ regs'["ioapic"] = RegsAfter(t, b, j + 1)
      BY <3>1, <3>2, <3>4
    <3> HIDE DEF t, b, k, j
    <3>10. j = 1 /\ Chosen(t, 1) = Low(i)
      <4>1. CASE j = 0
        <5>1. regs["ioapic"] = b /\ regs'["ioapic"] = [b EXCEPT ![Chosen(t, 0)] = Stored(t, 0)]
          BY <3>5, <3>9, <4>1
        <5>2. QED
          BY <3>1, <3>8, <5>1
      <4>2. CASE j = 1
        <5>1. /\ regs["ioapic"] = [b EXCEPT ![Chosen(t, 0)] = Stored(t, 0)]
              /\ regs'["ioapic"] = [b EXCEPT ![Chosen(t, 0)] = Stored(t, 0),
                                             ![Chosen(t, 1)] = Stored(t, 1)]
          BY <3>5, <3>9, <4>2
        <5>2. QED
          BY <3>1, <3>8, <4>2, <5>1
      <4>3. QED
        BY <3>4, <4>1, <4>2
    <3>11. /\ regs["ioapic"] = [b EXCEPT ![Chosen(t, 0)] = Stored(t, 0)]
           /\ regs'["ioapic"] = [b EXCEPT ![Chosen(t, 0)] = Stored(t, 0),
                                          ![Chosen(t, 1)] = Stored(t, 1)]
      BY <3>5, <3>10, <3>9
    <3>12. /\ regs["ioapic"][High(i)] = Stored(t, 0)
           /\ regs'["ioapic"][Low(i)] = Stored(t, 1)
      BY <3>1, <3>8, <3>10, <3>11
    <3>13. QED
      BY <2>2, <2>3, <3>7, <3>12 DEF t
  <2>6. QED
    BY <2>4, <2>5
<1>2. QED
  BY <1>1, Always, PTL DEF Spec, DestinationFirst
=============================================================================
