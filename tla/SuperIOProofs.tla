--------------------------- MODULE SuperIOProofs ---------------------------
(***************************************************************************)
(* What SuperIO does for every number of invocations, every command line   *)
(* and every contents of the chip.                                         *)
(*                                                                         *)
(* The body of each program is a sequence of pairs, an index and then a    *)
(* read or a write of the register it selects.  The invariant says of a    *)
(* tool that nobody disturbs: the key opens the chip however it was left;  *)
(* after j pairs every register holds what the last of them that is for it *)
(* has put there, or what it held when the tool was started; and the       *)
(* bytes read so far are the ones that the tool is to print.               *)
(***************************************************************************)
EXTENDS SuperIO, TLAPS

OpSet == [op : {"index", "data", "in", "masked"}, v : Int]

(* The pairs of t's body: their registers, what is done to them, and the   *)
(* byte written; the device that is selected meanwhile.                    *)
Pairs(t) ==
  IF t.name = "superio" THEN 9
  ELSE IF t.name = "superio2" THEN 10
  ELSE IF t.name = "getreg" THEN 2 ELSE 4

Reg(t, j) ==
  IF t.name = "superio" THEN <<44, 7, 228, 227, 231, 7, 242, 243, 244>>[j + 1]
  ELSE IF t.name = "superio2" THEN <<7, 48, 96, 97, 48, 7, 48, 96, 97, 48>>[j + 1]
  ELSE IF j = 0 THEN DevSel
  ELSE IF t.name = "ite_sio" THEN 239 ELSE t.reg

Kind(t, j) ==
  IF t.name \in {"superio", "superio2"} \/ j = 0 THEN "data"
  ELSE IF j # 2 THEN "in"
  ELSE IF t.name = "ite_sio" THEN "masked" ELSE "data"

Arg(t, j) ==
  IF t.name = "superio" THEN <<1, 7, 2, 1, 1, 8, 0, 249, 192>>[j + 1]
  ELSE IF t.name = "superio2" THEN <<7, 0, 2, 80, 1, 8, 0, 2, 84, 1>>[j + 1]
  ELSE IF t.name = "ite_sio" THEN 7
  ELSE IF j = 0 THEN t.dev ELSE t.val

Dev(t, j) ==
  IF t.name \in {"getreg", "setreg"} THEN t.dev
  ELSE IF t.name = "ite_sio" \/ j <= 5 THEN 7 ELSE 8

PairOp(t, j) ==
  [op |-> Kind(t, j), v |-> IF Kind(t, j) = "data" THEN Arg(t, j) ELSE 0]

(* Length and concatenation under names, for facts to be cited of them.    *)
Size(s) == Len(s)
Cat(a, b) == a \o b

IsPair(s, t, j) == s[1] = Idx(Reg(t, j)) /\ s[2] = PairOp(t, j)

IsPairs(s, t) ==
  /\ Size(s) = Pairs(t)
  /\ \A j \in 0 .. Pairs(t) - 1 : IsPair(s[j + 1], t, j)

-----------------------------------------------------------------------------
(* The bodies, pair by pair.                                               *)
LEMMA SetRegSeq ==
  ASSUME NEW x, NEW y, x \in Int, y \in Int
  PROVE  SetReg(x, y) \in Seq(OpSet)
<1>1. Idx(x) \in OpSet /\ Dat(y) \in OpSet
  BY DEF Idx, Dat, OpSet
<1>2. QED
  BY <1>1 DEF SetReg

LEMMA CatIsBoth ==
  ASSUME NEW S, NEW a \in Seq(S), NEW b \in Seq(S)
  PROVE  /\ Cat(a, b) \in Seq(S)
         /\ Size(Cat(a, b)) = Size(a) + Size(b)
  BY DEF Cat, Size

LEMMA CatFirst ==
  ASSUME NEW S, NEW a \in Seq(S), NEW b \in Seq(S)
  PROVE  \A k \in 1 .. Size(a) : Cat(a, b)[k] = a[k]
  BY DEF Cat, Size

LEMMA CatSecond ==
  ASSUME NEW S, NEW a \in Seq(S), NEW b \in Seq(S)
  PROVE  \A k \in Size(a) + 1 .. Size(a) + Size(b) : Cat(a, b)[k] = b[k - Size(a)]
  BY DEF Cat, Size

LEMMA SetIsPair ==
  ASSUME NEW t, NEW j, NEW x, NEW y, Reg(t, j) = x, PairOp(t, j) = Dat(y)
  PROVE  IsPair(SetReg(x, y), t, j)
  BY DEF IsPair, SetReg

LEMMA GetIsPair ==
  ASSUME NEW t, NEW j, NEW x, Reg(t, j) = x, PairOp(t, j) = In
  PROVE  IsPair(GetReg(x), t, j)
  BY DEF IsPair, GetReg

LEMMA SuperioPairs ==
  ASSUME NEW t, t.name = "superio"
  PROVE  IsPairs(SuperioBody, t)
<1>1. Size(SuperioBody) = 9
  BY DEF SuperioBody, Size
<1> DEFINE R == <<44, 7, 228, 227, 231, 7, 242, 243, 244>>
           V == <<1, 7, 2, 1, 1, 8, 0, 249, 192>>
<1>2. \A j \in 0 .. 8 : SuperioBody[j + 1] = SetReg(R[j + 1], V[j + 1])
  BY DEF SuperioBody, DevSel
<1>3. \A j \in 0 .. 8 : Reg(t, j) = R[j + 1] /\ PairOp(t, j) = Dat(V[j + 1])
  BY DEF Reg, PairOp, Kind, Arg, Dat
<1> HIDE DEF R, V
<1>4. \A j \in 0 .. 8 : IsPair(SuperioBody[j + 1], t, j)
  BY <1>2, <1>3, SetIsPair
<1>5. Pairs(t) = 9
  BY DEF Pairs
<1>6. QED
  BY <1>1, <1>4, <1>5 DEF IsPairs

LEMMA Superio2Pairs ==
  ASSUME NEW t, t.name = "superio2"
  PROVE  IsPairs(Superio2Body, t)
<1> DEFINE R == <<7, 48, 96, 97, 48, 7, 48, 96, 97, 48>>
           V == <<7, 0, 2, 80, 1, 8, 0, 2, 84, 1>>
<1>1. /\ Move(7, 80) = <<SetReg(7, 7), SetReg(48, 0), SetReg(96, 2), SetReg(97, 80), SetReg(48, 1)>>
      /\ Move(8, 84) = <<SetReg(7, 8), SetReg(48, 0), SetReg(96, 2), SetReg(97, 84), SetReg(48, 1)>>
  BY DEF Move, DevSel, DevEn
<1>2. /\ SetReg(7, 7) \in Seq(OpSet) /\ SetReg(48, 0) \in Seq(OpSet)
      /\ SetReg(96, 2) \in Seq(OpSet) /\ SetReg(97, 80) \in Seq(OpSet)
      /\ SetReg(48, 1) \in Seq(OpSet) /\ SetReg(7, 8) \in Seq(OpSet)
      /\ SetReg(97, 84) \in Seq(OpSet)
  <2>1. /\ 7 \in Int /\ 8 \in Int /\ 48 \in Int /\ 96 \in Int /\ 97 \in Int
        /\ 0 \in Int /\ 1 \in Int /\ 2 \in Int /\ 80 \in Int /\ 84 \in Int
    OBVIOUS
  <2>2. QED
    BY <2>1, SetRegSeq, Zenon
<1>3. Move(7, 80) \in Seq(Seq(OpSet)) /\ Move(8, 84) \in Seq(Seq(OpSet))
  <2>1. Move(7, 80) \in Seq(Seq(OpSet))
    BY <1>2 DEF Move, DevSel, DevEn
  <2>2. Move(8, 84) \in Seq(Seq(OpSet))
    BY <1>2 DEF Move, DevSel, DevEn
  <2>3. QED
    BY <2>1, <2>2
<1>4. Size(Move(7, 80)) = 5 /\ Size(Move(8, 84)) = 5
  BY DEF Move, Size
<1>5. Superio2Body = Cat(Move(7, 80), Move(8, 84))
  BY DEF Superio2Body, Cat
<1>6. Superio2Body \in Seq(Seq(OpSet)) /\ Size(Superio2Body) = 10
  BY <1>3, <1>4, <1>5, CatIsBoth
<1>7. /\ \A j \in 0 .. 4 : Superio2Body[j + 1] = Move(7, 80)[j + 1]
      /\ \A j \in 5 .. 9 : Superio2Body[j + 1] = Move(8, 84)[j - 4]
  <2>1. /\ \A k \in 1 .. 5 : Superio2Body[k] = Move(7, 80)[k]
        /\ \A k \in 6 .. 10 : Superio2Body[k] = Move(8, 84)[k - 5]
    <3>1. /\ \A k \in 1 .. Size(Move(7, 80)) : Superio2Body[k] = Move(7, 80)[k]
          /\ \A k \in Size(Move(7, 80)) + 1 .. Size(Move(7, 80)) + Size(Move(8, 84)) :
               Superio2Body[k] = Move(8, 84)[k - Size(Move(7, 80))]
      BY <1>3, <1>5, CatFirst, CatSecond, Zenon
    <3>2. QED
      BY <1>4, <3>1
  <2>2. \A j \in 5 .. 9 : j + 1 \in 6 .. 10 /\ (j + 1) - 5 = j - 4
    OBVIOUS
  <2>3. QED
    BY <2>1, <2>2
<1>8. /\ \A j \in 0 .. 4 : Move(7, 80)[j + 1] = SetReg(R[j + 1], V[j + 1])
      /\ \A j \in 5 .. 9 : Move(8, 84)[j - 4] = SetReg(R[j + 1], V[j + 1])
  BY <1>1
<1>9. \A j \in 0 .. 9 : Reg(t, j) = R[j + 1] /\ PairOp(t, j) = Dat(V[j + 1])
  BY DEF Reg, PairOp, Kind, Arg, Dat
<1> HIDE DEF R, V
<1>10. \A j \in 0 .. 9 : Superio2Body[j + 1] = SetReg(R[j + 1], V[j + 1])
  BY <1>7, <1>8
<1>11. \A j \in 0 .. 9 : IsPair(Superio2Body[j + 1], t, j)
  BY <1>9, <1>10, SetIsPair
<1>12. Pairs(t) = 10
  BY DEF Pairs
<1>13. QED
  BY <1>6, <1>11, <1>12 DEF IsPairs

LEMMA GetPairs ==
  ASSUME NEW t, t.name = "getreg"
  PROVE  IsPairs(GetBody(t), t)
<1>1. Size(GetBody(t)) = 2 /\ Pairs(t) = 2
  BY DEF GetBody, Size, Pairs
<1>2. GetBody(t)[1] = SetReg(DevSel, t.dev) /\ GetBody(t)[2] = GetReg(t.reg)
  BY DEF GetBody
<1>3. /\ Reg(t, 0) = DevSel /\ Reg(t, 1) = t.reg
      /\ PairOp(t, 0) = Dat(t.dev) /\ PairOp(t, 1) = In
  BY DEF Reg, PairOp, Kind, Arg, Dat, In
<1>4. IsPair(GetBody(t)[1], t, 0) /\ IsPair(GetBody(t)[2], t, 1)
  BY <1>2, <1>3, SetIsPair, GetIsPair
<1>5. \A j \in 0 .. 1 : IsPair(GetBody(t)[j + 1], t, j)
  BY <1>4
<1>6. QED
  BY <1>1, <1>5 DEF IsPairs

LEMMA SetPairs ==
  ASSUME NEW t, t.name = "setreg"
  PROVE  IsPairs(SetBody(t), t)
<1>1. Size(SetBody(t)) = 4 /\ Pairs(t) = 4
  BY DEF SetBody, Size, Pairs
<1>2. /\ SetBody(t)[1] = SetReg(DevSel, t.dev) /\ SetBody(t)[2] = GetReg(t.reg)
      /\ SetBody(t)[3] = SetReg(t.reg, t.val) /\ SetBody(t)[4] = GetReg(t.reg)
  BY DEF SetBody
<1>3. /\ Reg(t, 0) = DevSel
      /\ Reg(t, 1) = t.reg /\ Reg(t, 2) = t.reg /\ Reg(t, 3) = t.reg
      /\ PairOp(t, 0) = Dat(t.dev) /\ PairOp(t, 1) = In
      /\ PairOp(t, 2) = Dat(t.val) /\ PairOp(t, 3) = In
  BY DEF Reg, PairOp, Kind, Arg, Dat, In
<1>4. /\ IsPair(SetBody(t)[1], t, 0) /\ IsPair(SetBody(t)[2], t, 1)
      /\ IsPair(SetBody(t)[3], t, 2) /\ IsPair(SetBody(t)[4], t, 3)
  BY <1>2, <1>3, SetIsPair, GetIsPair
<1>5. \A j \in 0 .. 3 : IsPair(SetBody(t)[j + 1], t, j)
  BY <1>4
<1>6. QED
  BY <1>1, <1>5 DEF IsPairs

LEMMA IteSioPairs ==
  ASSUME NEW t, t.name = "ite_sio"
  PROVE  IsPairs(IteSioBody, t)
<1>1. Size(IteSioBody) = 4 /\ Pairs(t) = 4
  BY DEF IteSioBody, Size, Pairs
<1>2. /\ IteSioBody[1] = SetReg(DevSel, 7) /\ IteSioBody[2] = GetReg(239)
      /\ IteSioBody[3] = <<Idx(239), Masked>> /\ IteSioBody[4] = GetReg(239)
  BY DEF IteSioBody
<1>3. /\ Reg(t, 0) = DevSel
      /\ Reg(t, 1) = 239 /\ Reg(t, 2) = 239 /\ Reg(t, 3) = 239
      /\ PairOp(t, 0) = Dat(7) /\ PairOp(t, 1) = In
      /\ PairOp(t, 2) = Masked /\ PairOp(t, 3) = In
  BY DEF Reg, PairOp, Kind, Arg, Dat, In, Masked
<1>4. /\ IsPair(IteSioBody[1], t, 0) /\ IsPair(IteSioBody[2], t, 1)
      /\ IsPair(IteSioBody[4], t, 3)
  BY <1>2, <1>3, SetIsPair, GetIsPair
<1>5. IsPair(IteSioBody[3], t, 2)
  BY <1>2, <1>3 DEF IsPair
<1>6. \A j \in 0 .. 3 : IsPair(IteSioBody[j + 1], t, j)
  BY <1>4, <1>5
<1>7. QED
  BY <1>1, <1>6 DEF IsPairs

LEMMA BodyPairs == \A t \in CommandLine : IsPairs(Body(t), t)
<1> SUFFICES ASSUME NEW t \in CommandLine PROVE IsPairs(Body(t), t)
  OBVIOUS
<1>1. CASE t.name = "superio"
  <2>1. Body(t) = SuperioBody
    BY <1>1, Zenon DEF Body
  <2>2. QED
    BY <1>1, <2>1, SuperioPairs
<1>2. CASE t.name = "superio2"
  <2>1. Body(t) = Superio2Body
    BY <1>2, Zenon DEF Body
  <2>2. QED
    BY <1>2, <2>1, Superio2Pairs
<1>3. CASE t.name = "getreg"
  <2>1. Body(t) = GetBody(t)
    BY <1>3, Zenon DEF Body
  <2>2. QED
    BY <1>3, <2>1, GetPairs
<1>4. CASE t.name = "setreg"
  <2>1. Body(t) = SetBody(t)
    BY <1>4, Zenon DEF Body
  <2>2. QED
    BY <1>4, <2>1, SetPairs
<1>5. CASE t.name = "ite_sio"
  <2>1. Body(t) = IteSioBody
    BY <1>5, Zenon DEF Body
  <2>2. QED
    BY <1>5, <2>1, IteSioPairs
<1>6. QED
  BY <1>1, <1>2, <1>3, <1>4, <1>5 DEF CommandLine, ToolNames

-----------------------------------------------------------------------------
(* The key, and the programs access by access.                             *)
LEMMA KeyBytes ==
  /\ Key \in Seq(Index) /\ Size(Key) \in {2, 4} /\ ExitByte \in Index
  /\ \A k \in 1 .. Size(Key) : Key[k] \in Index /\ Key[k] # ExitByte
<1>1. CASE family = "ite"
  <2>1. Key = <<135, 1, 85, 85>> /\ ExitByte = 2
    BY <1>1 DEF Key, ExitByte
  <2>2. Key \in Seq(Index)
    BY <2>1 DEF Index
  <2>3. Size(Key) = 4
    BY <2>1 DEF Size
  <2>4. \A k \in 1 .. 4 : Key[k] \in Index /\ Key[k] # 2
    BY <2>1 DEF Index
  <2>5. QED
    BY <2>1, <2>2, <2>3, <2>4 DEF Index
<1>2. CASE family # "ite"
  <2>1. Key = <<135, 135>> /\ ExitByte = 170
    BY <1>2 DEF Key, ExitByte
  <2>2. Key \in Seq(Index)
    BY <2>1 DEF Index
  <2>3. Size(Key) = 2
    BY <2>1 DEF Size
  <2>4. \A k \in 1 .. 2 : Key[k] \in Index /\ Key[k] # 170
    BY <2>1 DEF Index
  <2>5. QED
    BY <2>1, <2>2, <2>3, <2>4 DEF Index
<1>3. QED
  BY <1>1, <1>2

(* How far a byte brings the chip in the key: the next byte one further,   *)
(* the first to its beginning at least, the exit byte to nothing.          *)
LEMMA KeyMatching ==
  ASSUME matched \in 0 .. Size(Key) - 1
  PROVE  /\ \A v : Matching(v) \in 0 .. Size(Key)
         /\ Matching(Key[1]) \in {1, Size(Key)}
         /\ Matching(Key[matched + 1]) = matched + 1
         /\ Matching(ExitByte) = 0
<1>1. Size(Key) \in {2, 4} /\ \A k \in 1 .. Size(Key) : Key[k] # ExitByte
  BY KeyBytes
<1>2. \A v : Matching(v) \in 0 .. Size(Key)
  BY <1>1 DEF Matching
<1>3. Matching(Key[matched + 1]) = matched + 1
  BY DEF Matching
<1>4. Matching(ExitByte) = 0
  BY <1>1 DEF Matching
<1>5. Matching(Key[1]) \in {1, Size(Key)}
  <2>1. CASE family = "ite"
    <3>1. Key = <<135, 1, 85, 85>>
      BY <2>1 DEF Key
    <3>2. Size(Key) = 4
      BY <3>1 DEF Size
    <3>3. matched = 0 \/ Key[matched + 1] # Key[1]
      BY <3>1, <3>2
    <3>4. QED
      BY <3>3 DEF Matching
  <2>2. CASE family # "ite"
    <3>1. Key = <<135, 135>>
      BY <2>2 DEF Key
    <3>2. Size(Key) = 2
      BY <3>1 DEF Size
    <3>3. matched = 0 \/ matched = 1
      BY <3>2
    <3>4. QED
      BY <3>2, <3>3 DEF Matching
  <2>3. QED
    BY <2>1, <2>2
<1>6. QED
  BY <1>2, <1>3, <1>4, <1>5

LEMMA OutsOps ==
  ASSUME NEW s \in Seq(Int)
  PROVE  /\ Outs(s) \in Seq(OpSet) /\ Size(Outs(s)) = Size(s)
         /\ \A k \in 1 .. Size(s) : Outs(s)[k] = Idx(s[k])
<1>1. \A k \in 1 .. Len(s) : Idx(s[k]) \in OpSet
  BY DEF Idx, OpSet
<1>2. QED
  BY <1>1 DEF Outs, Size

LEMMA ExitOps ==
  ASSUME NEW t
  PROVE  /\ CfgExit(t) \in Seq(OpSet) /\ Size(CfgExit(t)) \in {1, 2}
         /\ \A k \in 1 .. Size(CfgExit(t)) : CfgExit(t)[k] = Idx(ExitByte)
<1>1. ExitByte \in Int
  BY KeyBytes DEF Index
<1>2. /\ <<ExitByte>> \in Seq(Int) /\ <<ExitByte, ExitByte>> \in Seq(Int)
      /\ Size(<<ExitByte>>) = 1 /\ Size(<<ExitByte, ExitByte>>) = 2
  BY <1>1 DEF Size
<1>3. /\ \A k \in 1 .. 1 : <<ExitByte>>[k] = ExitByte
      /\ \A k \in 1 .. 2 : <<ExitByte, ExitByte>>[k] = ExitByte
  OBVIOUS
<1>4. CASE family = "ite" \/ (family = "nvt" /\ t.name = "getreg")
  <2>1. CfgExit(t) = Outs(<<ExitByte, ExitByte>>)
    BY <1>4 DEF CfgExit
  <2>2. QED
    BY <1>2, <1>3, <2>1, OutsOps
<1>5. CASE ~(family = "ite" \/ (family = "nvt" /\ t.name = "getreg"))
  <2>1. CfgExit(t) = Outs(<<ExitByte>>)
    BY <1>5 DEF CfgExit
  <2>2. QED
    BY <1>2, <1>3, <2>1, OutsOps
<1>6. QED
  BY <1>4, <1>5

(* The registers are ones there are, the bytes are bytes.                  *)
LEMMA PairTypes ==
  ASSUME NEW t \in CommandLine, NEW j \in 0 .. Pairs(t) - 1
  PROVE  /\ Reg(t, j) \in Index /\ Dev(t, j) \in Ldn
         /\ Kind(t, j) \in {"data", "in", "masked"}
         /\ Kind(t, j) = "data" => Arg(t, j) \in Byte
         /\ PairOp(t, j) \in OpSet /\ Pairs(t) \in {2, 4, 9, 10}
<1>1. Pairs(t) \in {2, 4, 9, 10}
  BY DEF Pairs
<1>2. /\ t.name = "superio" => j \in 0 .. 8
      /\ t.name = "superio2" => j \in 0 .. 9
  BY DEF Pairs
<1>3. t.reg \in Index /\ t.dev \in Ldn /\ t.val \in Byte /\ t.name \in ToolNames
  BY DEF CommandLine
<1>4. Reg(t, j) \in Index
  BY <1>2, <1>3 DEF Reg, DevSel, Index
<1>5. Kind(t, j) \in {"data", "in", "masked"}
  BY DEF Kind
<1>6. Kind(t, j) = "data" => Arg(t, j) \in Byte
  BY <1>2, <1>3 DEF Arg, Byte, Ldn
<1>7. Dev(t, j) \in Ldn
  BY <1>3 DEF Dev, Ldn
<1>8. QED
  BY <1>1, <1>4, <1>5, <1>6, <1>7 DEF PairOp, OpSet, Byte

LEMMA FlatOps ==
  ASSUME NEW t \in CommandLine, NEW s, IsPairs(s, t)
  PROVE  /\ Flat(s) \in Seq(OpSet) /\ Size(Flat(s)) = 2 * Pairs(t)
         /\ \A j \in 0 .. Pairs(t) - 1 :
              /\ Flat(s)[2 * j + 1] = Idx(Reg(t, j))
              /\ Flat(s)[2 * j + 2] = PairOp(t, j)
<1> DEFINE m == Pairs(t)
<1>1. Len(s) = m /\ m \in Nat
  BY DEF IsPairs, Size, Pairs
<1>2. Flat(s) = [k \in 1 .. 2 * m |-> s[(k + 1) \div 2][2 - (k % 2)]]
  BY <1>1 DEF Flat
<1>3. \A j \in 0 .. m - 1 :
        /\ 2 * j + 1 \in 1 .. 2 * m /\ 2 * j + 2 \in 1 .. 2 * m
        /\ ((2 * j + 1) + 1) \div 2 = j + 1 /\ ((2 * j + 2) + 1) \div 2 = j + 1
        /\ 2 - ((2 * j + 1) % 2) = 1 /\ 2 - ((2 * j + 2) % 2) = 2
  BY <1>1
<1>4. \A j \in 0 .. m - 1 : /\ Flat(s)[2 * j + 1] = s[j + 1][1]
                            /\ Flat(s)[2 * j + 2] = s[j + 1][2]
  BY <1>2, <1>3
<1>5. \A j \in 0 .. m - 1 : /\ Flat(s)[2 * j + 1] = Idx(Reg(t, j))
                            /\ Flat(s)[2 * j + 2] = PairOp(t, j)
  BY <1>4 DEF IsPairs, IsPair
<1>6. \A k \in 1 .. 2 * m : s[(k + 1) \div 2][2 - (k % 2)] \in OpSet
  <2> SUFFICES ASSUME NEW k \in 1 .. 2 * m
               PROVE  s[(k + 1) \div 2][2 - (k % 2)] \in OpSet
    OBVIOUS
  <2>1. (k + 1) \div 2 \in 1 .. m /\ 2 - (k % 2) \in {1, 2}
    BY <1>1
  <2> DEFINE i == (k + 1) \div 2
  <2>2. i \in 1 .. m /\ IsPair(s[(i - 1) + 1], t, i - 1)
    BY <1>1, <2>1 DEF IsPairs
  <2>3. s[i][1] = Idx(Reg(t, i - 1)) /\ s[i][2] = PairOp(t, i - 1)
    BY <1>1, <2>1, <2>2 DEF IsPair
  <2>4. Reg(t, i - 1) \in Index /\ PairOp(t, i - 1) \in OpSet
    BY <1>1, <2>1, PairTypes
  <2>5. s[i][1] \in OpSet /\ s[i][2] \in OpSet
    BY <2>3, <2>4 DEF Idx, OpSet, Index
  <2> HIDE DEF i, m
  <2>6. QED
    BY <2>1, <2>5 DEF i
<1>7. Flat(s) \in [1 .. 2 * m -> OpSet]
  BY <1>2, <1>6
<1> HIDE DEF m
<1>8. Flat(s) \in Seq(OpSet) /\ Len(Flat(s)) = 2 * m
  BY <1>1, <1>7
<1>9. QED
  BY <1>5, <1>8 DEF Size, m

LEMMA ProgramOps ==
  ASSUME NEW t \in CommandLine
  PROVE  /\ Size(Program(t)) = Size(Key) + 2 * Pairs(t) + Size(CfgExit(t))
         /\ \A k \in 1 .. Size(Key) : Program(t)[k] = Idx(Key[k])
         /\ \A j \in 0 .. Pairs(t) - 1 :
              /\ Program(t)[Size(Key) + 2 * j + 1] = Idx(Reg(t, j))
              /\ Program(t)[Size(Key) + 2 * j + 2] = PairOp(t, j)
         /\ \A k \in Size(Key) + 2 * Pairs(t) + 1 .. Size(Program(t)) :
              Program(t)[k] = Idx(ExitByte)
<1> DEFINE n == Size(Key)  m == Pairs(t)  x == Size(CfgExit(t))
           a == CfgEnter  b == Flat(Body(t))  c == CfgExit(t)
<1>1. /\ a \in Seq(OpSet) /\ Size(a) = n /\ n \in Nat
      /\ \A k \in 1 .. n : a[k] = Idx(Key[k])
  <2>1. Key \in Seq(Int)
    BY KeyBytes DEF Index
  <2>2. QED
    BY <2>1, KeyBytes, OutsOps DEF CfgEnter
<1>2. /\ b \in Seq(OpSet) /\ Size(b) = 2 * m /\ m \in Nat
      /\ \A j \in 0 .. m - 1 : b[2 * j + 1] = Idx(Reg(t, j)) /\ b[2 * j + 2] = PairOp(t, j)
  BY BodyPairs, FlatOps DEF Pairs
<1>3. /\ c \in Seq(OpSet) /\ Size(c) = x /\ x \in Nat
      /\ \A k \in 1 .. x : c[k] = Idx(ExitByte)
  BY ExitOps
<1>4. Program(t) = Cat(Cat(a, b), c)
  BY DEF Program, Cat
<1> HIDE DEF n, m, x, a, b, c
<1> DEFINE ab == Cat(a, b)
<1>5. /\ ab \in Seq(OpSet) /\ Size(ab) = n + 2 * m
      /\ \A k \in 1 .. n : ab[k] = a[k]
      /\ \A k \in n + 1 .. n + 2 * m : ab[k] = b[k - n]
  <2>1. ab \in Seq(OpSet) /\ Size(ab) = n + 2 * m
    BY <1>1, <1>2, CatIsBoth
  <2>2. \A k \in 1 .. Size(a) : ab[k] = a[k]
    BY <1>1, <1>2, CatFirst
  <2>3. \A k \in Size(a) + 1 .. Size(a) + Size(b) : ab[k] = b[k - Size(a)]
    BY <1>1, <1>2, CatSecond
  <2>4. QED
    BY <1>1, <1>2, <2>1, <2>2, <2>3
<1> HIDE DEF ab
<1>6. /\ Size(Program(t)) = n + 2 * m + x
      /\ \A k \in 1 .. n + 2 * m : Program(t)[k] = ab[k]
      /\ \A k \in n + 2 * m + 1 .. n + 2 * m + x : Program(t)[k] = c[k - (n + 2 * m)]
  <2>0. Program(t) = Cat(ab, c)
    BY <1>4 DEF ab
  <2>1. Size(Program(t)) = n + 2 * m + x
    BY <1>3, <1>5, <2>0, CatIsBoth
  <2>2. \A k \in 1 .. Size(ab) : Program(t)[k] = ab[k]
    BY <1>3, <1>5, <2>0, CatFirst
  <2>3. \A k \in Size(ab) + 1 .. Size(ab) + Size(c) : Program(t)[k] = c[k - Size(ab)]
    BY <1>3, <1>5, <2>0, CatSecond
  <2>4. QED
    BY <1>3, <1>5, <2>1, <2>2, <2>3
<1>7. \A k \in 1 .. n : Program(t)[k] = Idx(Key[k])
  BY <1>1, <1>2, <1>5, <1>6
<1>8. ASSUME NEW j \in 0 .. m - 1
      PROVE  /\ Program(t)[n + 2 * j + 1] = Idx(Reg(t, j))
             /\ Program(t)[n + 2 * j + 2] = PairOp(t, j)
  <2>1. /\ n + 2 * j + 1 \in n + 1 .. n + 2 * m /\ n + 2 * j + 2 \in n + 1 .. n + 2 * m
        /\ (n + 2 * j + 1) - n = 2 * j + 1 /\ (n + 2 * j + 2) - n = 2 * j + 2
        /\ n + 2 * j + 1 \in 1 .. n + 2 * m /\ n + 2 * j + 2 \in 1 .. n + 2 * m
    BY <1>1, <1>2
  <2>2. /\ Program(t)[n + 2 * j + 1] = b[2 * j + 1]
        /\ Program(t)[n + 2 * j + 2] = b[2 * j + 2]
    BY <1>5, <1>6, <2>1
  <2>3. QED
    BY <1>2, <2>2
<1>9. \A k \in n + 2 * m + 1 .. n + 2 * m + x : Program(t)[k] = Idx(ExitByte)
  <2> SUFFICES ASSUME NEW k \in n + 2 * m + 1 .. n + 2 * m + x
               PROVE  Program(t)[k] = Idx(ExitByte)
    OBVIOUS
  <2>1. k - (n + 2 * m) \in 1 .. x
    BY <1>1, <1>2, <1>3
  <2>2. QED
    BY <1>3, <1>6, <2>1
<1>10. QED
  BY <1>6, <1>7, <1>8, <1>9 DEF n, m, x

LEMMA ProgramSize ==
  ASSUME NEW t \in CommandLine
  PROVE  Size(Program(t)) \in Nat \ {0}
<1>1. Size(Program(t)) = Size(Key) + 2 * Pairs(t) + Size(CfgExit(t))
  BY ProgramOps
<1>2. Size(CfgExit(t)) \in {1, 2} /\ Pairs(t) \in Nat /\ Size(Key) \in {2, 4}
  BY ExitOps, KeyBytes DEF Pairs
<1>3. QED
  BY <1>1, <1>2

(* The access that comes after k of them.                                  *)
OpAt(t, k) == Program(t)[k + 1]

(* The pairs that are over after k accesses, n of them for the key.        *)
PairsDone(t, n, k) ==
  IF k < n THEN 0
  ELSE IF k > n + 2 * Pairs(t) THEN Pairs(t) ELSE (k - n) \div 2

LEMMA DoneSteps ==
  ASSUME NEW t \in CommandLine, NEW n \in Nat, NEW j \in 0 .. Pairs(t) - 1
  PROVE  /\ PairsDone(t, n, n + 2 * j) = j
         /\ PairsDone(t, n, n + 2 * j + 1) = j
         /\ PairsDone(t, n, n + 2 * j + 2) = j + 1
<1>1. Pairs(t) \in Nat /\ j \in Nat /\ j + 1 <= Pairs(t)
  BY DEF Pairs
<1>2. /\ ((n + 2 * j) - n) \div 2 = j /\ ((n + 2 * j + 1) - n) \div 2 = j
      /\ ((n + 2 * j + 2) - n) \div 2 = j + 1
  BY <1>1
<1>3. QED
  BY <1>1, <1>2 DEF PairsDone

LEMMA DoneEnds ==
  ASSUME NEW t \in CommandLine, NEW n \in Nat, NEW k \in Nat
  PROVE  /\ k <= n => PairsDone(t, n, k) = 0
         /\ k >= n + 2 * Pairs(t) => PairsDone(t, n, k) = Pairs(t)
         /\ PairsDone(t, n, k) \in 0 .. Pairs(t)
<1>1. Pairs(t) \in Nat \ {0}
  BY DEF Pairs
<1>2. (n - n) \div 2 = 0
  OBVIOUS
<1>3. ((n + 2 * Pairs(t)) - n) \div 2 = Pairs(t)
  BY <1>1
<1>4. k \in n .. n + 2 * Pairs(t) => (k - n) \div 2 \in 0 .. Pairs(t)
  BY <1>1
<1>5. QED
  BY <1>1, <1>2, <1>3, <1>4 DEF PairsDone

(* An access is a byte of the key, an index or its data, or an exit.       *)
LEMMA NextOp ==
  ASSUME NEW t \in CommandLine, NEW k \in Nat, k < Size(Program(t))
  PROVE  \/ k < Size(Key) /\ OpAt(t, k) = Idx(Key[k + 1])
         \/ \E j \in 0 .. Pairs(t) - 1 :
              k = Size(Key) + 2 * j /\ OpAt(t, k) = Idx(Reg(t, j))
         \/ \E j \in 0 .. Pairs(t) - 1 :
              k = Size(Key) + 2 * j + 1 /\ OpAt(t, k) = PairOp(t, j)
         \/ k >= Size(Key) + 2 * Pairs(t) /\ OpAt(t, k) = Idx(ExitByte)
<1> DEFINE n == Size(Key)  m == Pairs(t)
<1>1. n \in Nat /\ m \in Nat
  BY KeyBytes DEF Pairs
<1>2. \/ k < n \/ k >= n + 2 * m
      \/ \E j \in 0 .. m - 1 : k = n + 2 * j
      \/ \E j \in 0 .. m - 1 : k = n + 2 * j + 1
  <2>1. ASSUME k >= n, k < n + 2 * m
        PROVE  \E j \in 0 .. m - 1 : k = n + 2 * j \/ k = n + 2 * j + 1
    <3> DEFINE j == (k - n) \div 2
    <3>1. j \in 0 .. m - 1 /\ (k = n + 2 * j \/ k = n + 2 * j + 1)
      <4> HIDE DEF n, m
      <4>1. k - n \in Nat
        BY <1>1, <2>1
      <4>2. QED
        BY <1>1, <2>1, <4>1
    <3>2. QED
      BY <3>1
  <2>2. QED
    BY <1>1, <2>1
<1>3. ASSUME k < n
      PROVE  OpAt(t, k) = Idx(Key[k + 1])
  <2>1. k + 1 \in 1 .. n
    BY <1>1, <1>3
  <2>2. QED
    BY <2>1, ProgramOps DEF OpAt
<1>4. ASSUME k >= n + 2 * m
      PROVE  OpAt(t, k) = Idx(ExitByte)
  <2>1. k + 1 \in n + 2 * m + 1 .. Size(Program(t))
    BY <1>1, <1>4, ProgramOps, ExitOps
  <2>2. QED
    BY <2>1, ProgramOps DEF OpAt
<1>5. ASSUME NEW j \in 0 .. m - 1, k = n + 2 * j
      PROVE  OpAt(t, k) = Idx(Reg(t, j))
  BY <1>1, <1>5, ProgramOps DEF OpAt
<1>6. ASSUME NEW j \in 0 .. m - 1, k = n + 2 * j + 1
      PROVE  OpAt(t, k) = PairOp(t, j)
  <2>1. k + 1 = n + 2 * j + 2
    BY <1>1, <1>6
  <2>2. QED
    BY <2>1, ProgramOps DEF OpAt
<1> HIDE DEF n, m
<1>7. \/ k < n /\ OpAt(t, k) = Idx(Key[k + 1])
      \/ \E j \in 0 .. m - 1 : k = n + 2 * j /\ OpAt(t, k) = Idx(Reg(t, j))
      \/ \E j \in 0 .. m - 1 : k = n + 2 * j + 1 /\ OpAt(t, k) = PairOp(t, j)
      \/ k >= n + 2 * m /\ OpAt(t, k) = Idx(ExitByte)
  BY <1>2, <1>3, <1>4, <1>5, <1>6
<1>8. QED
  BY <1>7 DEF n, m

-----------------------------------------------------------------------------
(* What the pairs do to the registers.  Pair i writes to the cell          *)
(* CellOf(t, i) the value Val(t, b, i), b being the registers before the   *)
(* program; only the first u of them have an effect, which are all unless  *)
(* the second one selects the register that ends the configuration mode.   *)
Reach(t) == IF Within(t) THEN Pairs(t) ELSE 1

CellOf(t, i) == At(Dev(t, i), Reg(t, i))

StoresIn(t, u, i, c) == Kind(t, i) # "in" /\ i < u /\ CellOf(t, i) = c

Val(t, b, i) ==
  IF Kind(t, i) = "masked" THEN ClearBit0(b[At(7, 239)]) ELSE Arg(t, i)

(* After j pairs a register holds what the last of them that stores in it  *)
(* has stored, or what it held before.                                     *)
After(t, u, b, j, R) ==
  \A c \in Cell :
    \/ R[c] = b[c] /\ \A i \in 0 .. j - 1 : ~StoresIn(t, u, i, c)
    \/ \E i \in 0 .. j - 1 :
         /\ StoresIn(t, u, i, c) /\ R[c] = Val(t, b, i)
         /\ \A x \in i + 1 .. j - 1 : ~StoresIn(t, u, x, c)

(* What it has read by then.                                               *)
Read(t, u, b, j) ==
  LET old == IF u = Pairs(t) THEN Old(t, b) ELSE 255
      new == IF u = Pairs(t) THEN t.val ELSE 255
  IN  IF j <= 1 \/ t.name \in {"superio", "superio2"} THEN << >>
      ELSE IF t.name = "ite_sio"
           THEN IF j <= 3 THEN <<b[At(7, 239)]>>
                ELSE <<b[At(7, 239)], ClearBit0(b[At(7, 239)])>>
      ELSE IF j <= 3 THEN <<old>> ELSE <<old, new>>

-----------------------------------------------------------------------------
(* The invariant.                                                          *)
States == {"idle", "running", "done", "dead"}

Shape ==
  /\ family \in Families /\ closes \in Closes[family]
  /\ tool \in [Run -> Tools[family]]
  /\ st \in [Run -> States] /\ pc \in [Run -> Nat]
  /\ got \in [Run -> Seq(Byte)] /\ before \in [Run -> [Cell -> Byte]]
  /\ overlapped \in [Run -> BOOLEAN]
  /\ regs \in [Cell -> Byte] /\ open \in BOOLEAN
  /\ matched \in 0 .. Size(Key) - 1 /\ index \in Index

(* Where a program is, and that the byte it masks has been read.           *)
Place(p) ==
  /\ pc[p] <= Size(Program(tool[p]))
  /\ st[p] = "running" => pc[p] < Size(Program(tool[p]))
  /\ st[p] = "idle" => pc[p] = 0 /\ got[p] = << >>
  /\ tool[p].name = "ite_sio" /\ pc[p] >= Size(Key) + 4 => got[p] # << >>

Alone ==
  \A p, q \in Run :
    p # q /\ st[p] = "running" /\ st[q] = "running" => overlapped[p]

(* The chip after k accesses of t, run on the registers b, when o has been *)
(* read.                                                                   *)
Progress(t, b, k, o) ==
  LET n == Size(Key)
      m == Pairs(t)
      w == Within(t)
      u == Reach(t)
  IN  /\ k \in 1 .. n - 1 => open \/ matched = k
      /\ k \in n .. n + 2 * m /\ (w \/ k <= n + 2) => open
      /\ ~w /\ k >= n + 3 => ~open
      /\ \A j \in 0 .. m - 1 : k = n + 2 * j + 1 /\ open => index = Reg(t, j)
      /\ After(t, u, b, PairsDone(t, n, k), regs)
      /\ o = Read(t, u, b, PairsDone(t, n, k))

InvOf(p) ==
  ~overlapped[p] =>
    /\ st[p] = "running" => Progress(tool[p], before[p], pc[p], got[p])
    /\ st[p] = "done" => Shows(tool[p], before[p], got[p])

IInv ==
  /\ Shape /\ Alone
  /\ \A p \in Run : Place(p) /\ InvOf(p)

(* The half of NeverHalfMoved that the steps preserve.                     *)
Whole(l, f) ==
  f[<<l, DevEn>>] = 1 =>
    Address(l, f) \in {<<2, IF l = 7 THEN 80 ELSE 84>>}
                      \cup {Address(l, c) : c \in Contents}

WholeInv ==
  family = "winbond" /\ (\A p \in Run : ~overlapped[p]) =>
    \A l \in Ldn :
      /\ Whole(l, regs)
      /\ \A p \in Run : st[p] = "running" => Whole(l, before[p])

-----------------------------------------------------------------------------
(* Facts about After.                                                      *)
LEMMA CellOfIsCell ==
  ASSUME NEW t \in CommandLine, NEW j \in 0 .. Pairs(t) - 1
  PROVE  /\ CellOf(t, j) \in Cell
         /\ Reg(t, j) < DevEn => CellOf(t, j) = <<Shared, Reg(t, j)>>
         /\ Reg(t, j) >= DevEn => CellOf(t, j) = <<Dev(t, j), Reg(t, j)>>
<1>1. Reg(t, j) \in Index /\ Dev(t, j) \in Ldn /\ Reg(t, j) \in Int
  BY PairTypes DEF Index
<1>2. QED
  BY <1>1 DEF CellOf, At, Cell, DevEn

LEMMA AfterStart ==
  ASSUME NEW t, NEW u, NEW b
  PROVE  After(t, u, b, 0, b)
  BY DEF After

LEMMA AfterStore ==
  ASSUME NEW t \in CommandLine, NEW u, NEW b \in [Cell -> Byte], NEW R \in [Cell -> Byte],
         NEW j \in 0 .. Pairs(t) - 1,
         After(t, u, b, j, R), StoresIn(t, u, j, CellOf(t, j))
  PROVE  After(t, u, b, j + 1, [R EXCEPT ![CellOf(t, j)] = Val(t, b, j)])
<1> DEFINE R1 == [R EXCEPT ![CellOf(t, j)] = Val(t, b, j)]
<1>1. CellOf(t, j) \in Cell /\ Pairs(t) \in Nat
  BY CellOfIsCell DEF Pairs
<1> SUFFICES ASSUME NEW c \in Cell
             PROVE  \/ R1[c] = b[c] /\ \A i \in 0 .. (j + 1) - 1 : ~StoresIn(t, u, i, c)
                    \/ \E i \in 0 .. (j + 1) - 1 :
                         /\ StoresIn(t, u, i, c) /\ R1[c] = Val(t, b, i)
                         /\ \A x \in i + 1 .. (j + 1) - 1 : ~StoresIn(t, u, x, c)
  BY DEF After
<1>2. CASE c = CellOf(t, j)
  <2>1. R1[c] = Val(t, b, j) /\ StoresIn(t, u, j, c) /\ j \in 0 .. (j + 1) - 1
    BY <1>1, <1>2
  <2>2. \A x \in j + 1 .. (j + 1) - 1 : ~StoresIn(t, u, x, c)
    OBVIOUS
  <2>3. QED
    BY <2>1, <2>2
<1>3. CASE c # CellOf(t, j)
  <2>1. R1[c] = R[c] /\ ~StoresIn(t, u, j, c)
    BY <1>3 DEF StoresIn
  <2>2. CASE R[c] = b[c] /\ \A i \in 0 .. j - 1 : ~StoresIn(t, u, i, c)
    <3>1. \A i \in 0 .. (j + 1) - 1 : i \in 0 .. j - 1 \/ i = j
      OBVIOUS
    <3>2. QED
      BY <2>1, <2>2, <3>1
  <2>3. ASSUME NEW i \in 0 .. j - 1, StoresIn(t, u, i, c), R[c] = Val(t, b, i),
               \A x \in i + 1 .. j - 1 : ~StoresIn(t, u, x, c)
        PROVE  /\ i \in 0 .. (j + 1) - 1 /\ R1[c] = Val(t, b, i)
               /\ \A x \in i + 1 .. (j + 1) - 1 : ~StoresIn(t, u, x, c)
    <3>1. \A x \in i + 1 .. (j + 1) - 1 : x \in i + 1 .. j - 1 \/ x = j
      OBVIOUS
    <3>2. QED
      BY <2>1, <2>3, <3>1
  <2>4. QED
    BY <2>2, <2>3 DEF After
<1>4. QED
  BY <1>2, <1>3

LEMMA AfterNone ==
  ASSUME NEW t \in CommandLine, NEW u, NEW b, NEW R,
         NEW j \in 0 .. Pairs(t) - 1,
         After(t, u, b, j, R), ~StoresIn(t, u, j, CellOf(t, j))
  PROVE  After(t, u, b, j + 1, R)
<1> SUFFICES ASSUME NEW c \in Cell
             PROVE  \/ R[c] = b[c] /\ \A i \in 0 .. (j + 1) - 1 : ~StoresIn(t, u, i, c)
                    \/ \E i \in 0 .. (j + 1) - 1 :
                         /\ StoresIn(t, u, i, c) /\ R[c] = Val(t, b, i)
                         /\ \A x \in i + 1 .. (j + 1) - 1 : ~StoresIn(t, u, x, c)
  BY DEF After
<1>1. ~StoresIn(t, u, j, c) /\ j \in Nat
  BY DEF StoresIn, Pairs
<1>2. CASE R[c] = b[c] /\ \A i \in 0 .. j - 1 : ~StoresIn(t, u, i, c)
  <2>1. \A i \in 0 .. (j + 1) - 1 : i \in 0 .. j - 1 \/ i = j
    BY <1>1
  <2>2. QED
    BY <1>1, <1>2, <2>1
<1>3. ASSUME NEW i \in 0 .. j - 1, StoresIn(t, u, i, c), R[c] = Val(t, b, i),
             \A x \in i + 1 .. j - 1 : ~StoresIn(t, u, x, c)
      PROVE  /\ i \in 0 .. (j + 1) - 1
             /\ \A x \in i + 1 .. (j + 1) - 1 : ~StoresIn(t, u, x, c)
  <2>1. \A x \in i + 1 .. (j + 1) - 1 : x \in i + 1 .. j - 1 \/ x = j
    BY <1>1
  <2>2. QED
    BY <1>1, <1>3, <2>1
<1>4. QED
  BY <1>2, <1>3 DEF After

(* The last of the pairs that store in c is the only one that matters.     *)
LEMMA AfterLast ==
  ASSUME NEW t, NEW u, NEW b, NEW R, NEW j \in Nat, NEW c \in Cell,
         After(t, u, b, j, R),
         NEW i \in 0 .. j - 1, StoresIn(t, u, i, c),
         \A x \in i + 1 .. j - 1 : ~StoresIn(t, u, x, c)
  PROVE  R[c] = Val(t, b, i)
<1>1. PICK y \in 0 .. j - 1 : /\ StoresIn(t, u, y, c) /\ R[c] = Val(t, b, y)
                              /\ \A x \in y + 1 .. j - 1 : ~StoresIn(t, u, x, c)
  BY DEF After
<1>2. y = i
  <2>1. y < i \/ y > i \/ y = i
    OBVIOUS
  <2>2. y < i => i \in y + 1 .. j - 1
    OBVIOUS
  <2>3. y > i => y \in i + 1 .. j - 1
    OBVIOUS
  <2>4. QED
    BY <1>1, <2>1, <2>2, <2>3
<1>3. QED
  BY <1>1, <1>2

LEMMA AfterUntouched ==
  ASSUME NEW t, NEW u, NEW b, NEW R, NEW j \in Nat, NEW c \in Cell,
         After(t, u, b, j, R), \A i \in 0 .. j - 1 : ~StoresIn(t, u, i, c)
  PROVE  R[c] = b[c]
  BY DEF After

LEMMA AtEqual ==
  ASSUME NEW l \in Ldn, NEW k \in Ldn, NEW r \in Int, NEW s \in Int
  PROVE  At(l, r) = At(k, s) <=> r = s /\ (r >= DevEn => l = k)
  BY DEF At, Ldn, Shared, DevEn

LEMMA AtIsCell ==
  ASSUME NEW l \in Ldn, NEW r \in Index
  PROVE  At(l, r) \in Cell
  BY DEF At, Cell, Index, DevEn

LEMMA KindInArms ==
  ASSUME NEW t
  PROVE  /\ t.name = "getreg" => Pairs(t) = 2 /\ Kind(t, 0) = "data" /\ Kind(t, 1) = "in"
         /\ t.name = "setreg" => /\ Pairs(t) = 4 /\ Kind(t, 0) = "data" /\ Kind(t, 1) = "in"
                                 /\ Kind(t, 2) = "data" /\ Kind(t, 3) = "in"
         /\ t.name = "ite_sio" => /\ Pairs(t) = 4 /\ Kind(t, 0) = "data" /\ Kind(t, 1) = "in"
                                  /\ Kind(t, 2) = "masked" /\ Kind(t, 3) = "in"
         /\ t.name = "superio" => Pairs(t) = 9 /\ \A j : Kind(t, j) = "data"
         /\ t.name = "superio2" => Pairs(t) = 10 /\ \A j : Kind(t, j) = "data"
  BY DEF Pairs, Kind

(* From 0x30 on the device that is selected is the one the pair is for.    *)
LEMMA DeviceIsSelected ==
  ASSUME NEW t \in CommandLine, NEW u, NEW b, NEW R, NEW j \in 0 .. Pairs(t) - 1,
         After(t, u, b, j, R), Reg(t, j) >= DevEn,
         u = Pairs(t) \/ (u = 1 /\ t.name \in {"getreg", "setreg"})
  PROVE  R[<<Shared, DevSel>>] = Dev(t, j)
<1> DEFINE c == <<Shared, DevSel>>
<1>1. c \in Cell /\ c = At(7, DevSel)
  BY DEF Cell, Index, DevEn, DevSel, At
<1>2. \A i \in 0 .. Pairs(t) - 1 : CellOf(t, i) = c <=> Reg(t, i) = DevSel
  <2> SUFFICES ASSUME NEW i \in 0 .. Pairs(t) - 1
               PROVE  CellOf(t, i) = c <=> Reg(t, i) = DevSel
    OBVIOUS
  <2>1. Reg(t, i) \in Int /\ Dev(t, i) \in Ldn /\ 7 \in Ldn /\ DevSel \in Int /\ DevSel < DevEn
    BY PairTypes DEF Index, Ldn, DevSel, DevEn
  <2>2. QED
    BY <1>1, <2>1, AtEqual DEF CellOf, DevEn
<1> HIDE DEF c
<1>3. CASE t.name = "superio"
  <2>1. Pairs(t) = 9 /\ u = Pairs(t) /\ \A i : Kind(t, i) = "data"
    BY <1>3, KindInArms
  <2>2. \A i \in 0 .. 8 : StoresIn(t, u, i, c) <=> i = 1 \/ i = 5
    BY <1>2, <1>3, <2>1 DEF StoresIn, Reg, DevSel
  <2>3. j # 0 /\ j # 1 /\ j # 5 /\ j \in 0 .. 8
    BY <1>3, <2>1 DEF Reg, DevEn
  <2>4. CASE j < 5
    <3>1. 1 \in 0 .. j - 1 /\ StoresIn(t, u, 1, c)
          /\ \A x \in 1 + 1 .. j - 1 : ~StoresIn(t, u, x, c)
      BY <2>2, <2>3, <2>4
    <3>2. R[c] = Val(t, b, 1)
      BY <1>1, <2>3, <3>1, AfterLast
    <3>3. QED
      BY <1>3, <2>3, <2>4, <3>2, KindInArms DEF Val, Arg, Dev, c
  <2>5. CASE j > 5
    <3>1. 5 \in 0 .. j - 1 /\ StoresIn(t, u, 5, c)
          /\ \A x \in 5 + 1 .. j - 1 : ~StoresIn(t, u, x, c)
      BY <2>2, <2>3, <2>5
    <3>2. R[c] = Val(t, b, 5)
      BY <1>1, <2>3, <3>1, AfterLast
    <3>3. QED
      BY <1>3, <2>3, <2>5, <3>2, KindInArms DEF Val, Arg, Dev, c
  <2>6. QED
    BY <2>3, <2>4, <2>5
<1>4. CASE t.name = "superio2"
  <2>1. Pairs(t) = 10 /\ u = Pairs(t) /\ \A i : Kind(t, i) = "data"
    BY <1>4, KindInArms
  <2>2. \A i \in 0 .. 9 : StoresIn(t, u, i, c) <=> i = 0 \/ i = 5
    BY <1>2, <1>4, <2>1 DEF StoresIn, Reg, DevSel
  <2>3. j # 0 /\ j # 5 /\ j \in 0 .. 9
    BY <1>4, <2>1 DEF Reg, DevEn
  <2>4. CASE j < 5
    <3>1. 0 \in 0 .. j - 1 /\ StoresIn(t, u, 0, c)
          /\ \A x \in 0 + 1 .. j - 1 : ~StoresIn(t, u, x, c)
      BY <2>2, <2>3, <2>4
    <3>2. R[c] = Val(t, b, 0)
      BY <1>1, <2>3, <3>1, AfterLast
    <3>3. QED
      BY <1>4, <2>3, <2>4, <3>2, KindInArms DEF Val, Arg, Dev, c
  <2>5. CASE j > 5
    <3>1. 5 \in 0 .. j - 1 /\ StoresIn(t, u, 5, c)
          /\ \A x \in 5 + 1 .. j - 1 : ~StoresIn(t, u, x, c)
      BY <2>2, <2>3, <2>5
    <3>2. R[c] = Val(t, b, 5)
      BY <1>1, <2>3, <3>1, AfterLast
    <3>3. QED
      BY <1>4, <2>3, <2>5, <3>2, KindInArms DEF Val, Arg, Dev, c
  <2>6. QED
    BY <2>3, <2>4, <2>5
<1>5. CASE t.name \in {"getreg", "setreg", "ite_sio"}
  <2>1. Pairs(t) \in {2, 4} /\ Kind(t, 0) = "data"
    BY <1>5, KindInArms
  <2>2. j # 0 /\ j \in 0 .. 3
    BY <1>5, <2>1 DEF Reg, DevEn, DevSel
  <2>3. \A i \in 1 .. j - 1 : Reg(t, i) = Reg(t, j)
    BY <1>5, <2>2 DEF Reg
  <2>4. /\ 0 \in 0 .. j - 1 /\ StoresIn(t, u, 0, c)
        /\ \A x \in 0 + 1 .. j - 1 : ~StoresIn(t, u, x, c)
    <3>1. StoresIn(t, u, 0, c)
      BY <1>2, <1>5, <2>1 DEF StoresIn, Reg
    <3>2. \A x \in 1 .. j - 1 : ~StoresIn(t, u, x, c)
      <4>1. Reg(t, j) # DevSel
        BY DEF DevEn, DevSel
      <4>2. \A x \in 1 .. j - 1 : x \in 0 .. Pairs(t) - 1
        BY <2>1
      <4>3. QED
        BY <1>2, <2>3, <4>1, <4>2 DEF StoresIn
    <3>3. QED
      BY <2>2, <3>1, <3>2
  <2>5. R[c] = Val(t, b, 0)
    BY <1>1, <2>2, <2>4, AfterLast
  <2>6. QED
    BY <1>5, <2>1, <2>2, <2>5 DEF Val, Arg, Dev, c
<1>6. QED
  BY <1>3, <1>4, <1>5 DEF CommandLine, ToolNames

(* A read finds what it is to print, if the chip is open.                  *)
LEMMA ReadsRight ==
  ASSUME NEW t \in CommandLine, NEW u, NEW b \in [Cell -> Byte], NEW R,
         NEW j \in 0 .. Pairs(t) - 1,
         After(t, u, b, j, R), Kind(t, j) = "in", u = Pairs(t)
  PROVE  Read(t, u, b, j + 1) = Append(Read(t, u, b, j), R[CellOf(t, j)])
<1> DEFINE c == CellOf(t, j)
<1>1. c \in Cell /\ j \in Nat
  BY CellOfIsCell DEF Pairs
<1>2. t.name \in {"getreg", "setreg", "ite_sio"} /\ (j = 1 \/ j = 3)
  <2>1. t.name \in {"getreg", "setreg", "ite_sio"} /\ j # 0 /\ j # 2
    BY DEF CommandLine, ToolNames, Kind
  <2>2. j \in 0 .. 3
    BY <2>1 DEF Pairs
  <2>3. QED
    BY <2>1, <2>2
<1>3. /\ j = 3 => t.name \in {"setreg", "ite_sio"}
      /\ 0 \in 0 .. Pairs(t) - 1 /\ (j = 3 => 2 \in 0 .. Pairs(t) - 1)
      /\ Kind(t, 0) = "data" /\ u \in {2, 4} /\ (j = 3 => u = 4)
  BY <1>2 DEF Pairs, Kind
<1>4. /\ t.reg \in Index /\ t.dev \in Ldn /\ t.reg \in Int /\ 7 \in Ldn
      /\ DevSel \in Int /\ DevSel < DevEn /\ DevEn \in Int
  BY DEF CommandLine, Index, Ldn, DevSel, DevEn
<1>5. CellOf(t, 0) = <<Shared, DevSel>> /\ CellOf(t, 0) = At(t.dev, DevSel)
  BY <1>2, <1>4 DEF CellOf, At, Reg
<1>6. CASE t.name = "ite_sio"
  <2>1. c = At(7, 239) /\ CellOf(t, 2) = At(7, 239)
    BY <1>2, <1>6 DEF CellOf, Reg, Dev
  <2> HIDE DEF c
  <2>2. CellOf(t, 0) # c
    BY <1>5, <2>1 DEF At, DevEn, Shared
  <2>3. CASE j = 1
    <3>1. \A i \in 0 .. j - 1 : ~StoresIn(t, u, i, c)
      BY <2>2, <2>3 DEF StoresIn
    <3>2. R[c] = b[c]
      BY <1>1, <3>1, AfterUntouched
    <3>3. QED
      BY <1>6, <2>1, <2>3, <3>2 DEF Read, c
  <2>4. CASE j = 3
    <3>1. 2 \in 0 .. j - 1 /\ StoresIn(t, u, 2, c) /\ \A x \in 2 + 1 .. j - 1 : ~StoresIn(t, u, x, c)
      BY <1>3, <1>6, <2>1, <2>4 DEF StoresIn, Kind
    <3>2. R[c] = Val(t, b, 2)
      BY <1>1, <3>1, AfterLast
    <3>3. R[c] = ClearBit0(b[At(7, 239)])
      BY <1>6, <3>2 DEF Val, Kind
    <3>4. QED
      BY <1>6, <2>4, <3>3 DEF Read, c
  <2>5. QED
    BY <1>2, <2>3, <2>4
<1>7. CASE t.name \in {"getreg", "setreg"}
  <2>1. c = At(t.dev, t.reg) /\ CellOf(t, 2) = At(t.dev, t.reg)
    BY <1>2, <1>7 DEF CellOf, Reg, Dev
  <2> HIDE DEF c
  <2>2. CellOf(t, 0) = c <=> t.reg = DevSel
    BY <1>4, <1>5, <2>1, AtEqual
  <2>3. CASE j = 1
    <3>1. CASE t.reg = DevSel
      <4>1. 0 \in 0 .. j - 1 /\ StoresIn(t, u, 0, c) /\ \A x \in 0 + 1 .. j - 1 : ~StoresIn(t, u, x, c)
        BY <1>3, <2>2, <2>3, <3>1 DEF StoresIn
      <4>2. R[c] = Val(t, b, 0)
        BY <1>1, <4>1, AfterLast
      <4>3. R[c] = Old(t, b)
        BY <1>3, <1>7, <3>1, <4>2 DEF Val, Arg, Old
      <4>4. QED
        BY <1>7, <2>3, <4>3 DEF Read, c
    <3>2. CASE t.reg # DevSel
      <4>1. \A i \in 0 .. j - 1 : ~StoresIn(t, u, i, c)
        BY <2>2, <2>3, <3>2 DEF StoresIn
      <4>2. R[c] = b[c]
        BY <1>1, <4>1, AfterUntouched
      <4>3. R[c] = Old(t, b)
        BY <2>1, <3>2, <4>2 DEF Old
      <4>4. QED
        BY <1>7, <2>3, <4>3 DEF Read, c
    <3>3. QED
      BY <3>1, <3>2
  <2>4. CASE j = 3
    <3>1. t.name = "setreg"
      BY <1>3, <1>7, <2>4
    <3>2. 2 \in 0 .. j - 1 /\ StoresIn(t, u, 2, c) /\ \A x \in 2 + 1 .. j - 1 : ~StoresIn(t, u, x, c)
      BY <1>3, <3>1, <2>1, <2>4 DEF StoresIn, Kind
    <3>3. R[c] = Val(t, b, 2)
      BY <1>1, <3>2, AfterLast
    <3>4. R[c] = t.val
      BY <3>1, <3>3 DEF Val, Kind, Arg
    <3>5. QED
      BY <3>1, <2>4, <3>4 DEF Read, c
  <2>5. QED
    BY <1>2, <2>3, <2>4
<1>8. QED
  BY <1>2, <1>6, <1>7

App(s, y) == Append(s, y)

LEMMA AppIsOneMore ==
  ASSUME NEW S, NEW s \in Seq(S), NEW y \in S
  PROVE  App(s, y) \in Seq(S) /\ Size(App(s, y)) = Size(s) + 1
  BY DEF App, Size

LEMMA AppElements ==
  ASSUME NEW S, NEW s \in Seq(S), NEW y \in S
  PROVE  \A k \in 1 .. Size(s) + 1 : App(s, y)[k] = IF k = Size(s) + 1 THEN y ELSE s[k]
  BY DEF App, Size

LEMMA AppendOne ==
  ASSUME NEW x, NEW y
  PROVE  Append(<<x>>, y) = <<x, y>>
<1> DEFINE s == <<x>>
<1>1. Size(s) = 1 /\ s[1] = x
  BY DEF Size
<1>2. s \in Seq({x, y})
  OBVIOUS
<1> HIDE DEF s
<1>3. Size(App(s, y)) = 2 /\ App(s, y) \in Seq({x, y})
  BY <1>1, <1>2, AppIsOneMore
<1>4. App(s, y)[1] = x /\ App(s, y)[2] = y
  <2>1. \A k \in 1 .. Size(s) + 1 : App(s, y)[k] = IF k = Size(s) + 1 THEN y ELSE s[k]
    BY <1>2, AppElements
  <2>2. QED
    BY <1>1, <2>1
<1>5. \A q \in Seq({x, y}) : Size(q) = 2 => q = <<q[1], q[2]>>
  BY DEF Size
<1>6. App(s, y) = <<x, y>>
  BY <1>3, <1>4, <1>5
<1>7. QED
  BY <1>6, Zenon DEF s, App

LEMMA ReadsNothing ==
  ASSUME NEW t \in CommandLine, NEW u, NEW b, NEW j \in 0 .. Pairs(t) - 1
  PROVE  /\ Kind(t, j) # "in" => Read(t, u, b, j + 1) = Read(t, u, b, j)
         /\ Kind(t, j) = "in" /\ u = 1 /\ t.name # "ite_sio"
              => Read(t, u, b, j + 1) = Append(Read(t, u, b, j), 255)
<1>1. CASE t.name \in {"superio", "superio2"}
  BY <1>1 DEF Read, Kind
<1>2. CASE t.name \in {"getreg", "setreg", "ite_sio"}
  <2>1. j \in 0 .. 3
    BY <1>2 DEF Pairs
  <2>2. j = 0 \/ j = 1 \/ j = 2 \/ j = 3
    BY <2>1
  <2>3. Kind(t, j) # "in" <=> j = 0 \/ j = 2
    BY <1>2, <2>2 DEF Kind
  <2>4. j = 0 \/ j = 2 => Read(t, u, b, j + 1) = Read(t, u, b, j)
    BY <1>2 DEF Read
  <2>5. j = 1 /\ u = 1 /\ t.name # "ite_sio" =>
          Read(t, u, b, j + 1) = Append(Read(t, u, b, j), 255)
    BY <1>2 DEF Read, Pairs
  <2>6. j = 3 /\ u = 1 /\ t.name # "ite_sio" =>
          Read(t, u, b, j + 1) = Append(Read(t, u, b, j), 255)
    <3>1. u = 1 /\ t.name # "ite_sio" => Read(t, u, b, 4) = <<255, 255>>
      BY <1>2 DEF Read, Pairs
    <3>2. u = 1 /\ t.name # "ite_sio" => Read(t, u, b, 3) = <<255>>
      BY <1>2 DEF Read, Pairs
    <3>3. Append(<<255>>, 255) = <<255, 255>>
      BY AppendOne, Zenon
    <3>4. j = 3 => j + 1 = 4
      OBVIOUS
    <3>5. QED
      BY <3>1, <3>2, <3>3, <3>4, Zenon
  <2>7. QED
    BY <2>2, <2>3, <2>4, <2>5, <2>6
<1>3. QED
  BY <1>1, <1>2 DEF CommandLine, ToolNames

-----------------------------------------------------------------------------
(* When all the pairs are over.                                            *)

LEMMA ShowsAfter ==
  ASSUME NEW t \in CommandLine, NEW b \in [Cell -> Byte]
  PROVE  Shows(t, b, Read(t, Reach(t), b, Pairs(t)))
<1> DEFINE o == Read(t, Reach(t), b, Pairs(t))
<1>1. CASE t.name \in {"superio", "superio2"}
  <2>1. o = << >>
    BY <1>1 DEF Read
  <2>2. t.name # "getreg" /\ t.name # "setreg" /\ t.name # "ite_sio"
    BY <1>1
  <2>3. QED
    BY <1>1, <2>1, <2>2, Zenon DEF Shows
<1>2. CASE t.name = "ite_sio"
  <2>1. o = <<b[At(7, 239)], ClearBit0(b[At(7, 239)])>>
    BY <1>2 DEF Read, Pairs
  <2>2. o[2] = ClearBit0(b[At(7, 239)])
    BY <2>1
  <2>3. QED
    BY <1>2, <2>2, Zenon DEF Shows
<1>3. CASE t.name = "getreg"
  <2>1. Pairs(t) = 2 /\ (Reach(t) = Pairs(t) <=> Within(t))
    BY <1>3 DEF Pairs, Reach
  <2>2. o = <<Seen(t, Old(t, b))>>
    BY <1>3, <2>1 DEF Read, Seen
  <2>3. QED
    BY <1>3, <2>2, Zenon DEF Shows
<1>4. CASE t.name = "setreg"
  <2>1. Pairs(t) = 4 /\ (Reach(t) = Pairs(t) <=> Within(t))
    BY <1>4 DEF Pairs, Reach
  <2>2. o = <<Seen(t, Old(t, b)), Seen(t, t.val)>>
    BY <1>4, <2>1 DEF Read, Seen
  <2>3. QED
    BY <1>4, <2>2, Zenon DEF Shows
<1>5. QED
  BY <1>1, <1>2, <1>3, <1>4 DEF CommandLine, ToolNames

(* Two pairs store in the same cell if they have the same register, and    *)
(* from 0x30 on the same device.                                           *)
LEMMA SameCell ==
  ASSUME NEW t \in CommandLine, NEW i \in 0 .. Pairs(t) - 1, NEW x \in 0 .. Pairs(t) - 1
  PROVE  CellOf(t, i) = CellOf(t, x) <=>
           Reg(t, i) = Reg(t, x) /\ (Reg(t, i) >= DevEn => Dev(t, i) = Dev(t, x))
<1>1. /\ Reg(t, i) \in Int /\ Reg(t, x) \in Int
      /\ Dev(t, i) \in Ldn /\ Dev(t, x) \in Ldn
  BY PairTypes DEF Index
<1>2. QED
  BY <1>1, AtEqual DEF CellOf

(* Pair i is the last one for its cell, and has effect.                    *)
Last(t, i) ==
  /\ i \in 0 .. Pairs(t) - 1 /\ i < Reach(t) /\ Kind(t, i) # "in"
  /\ \A x \in i + 1 .. Pairs(t) - 1 :
       Kind(t, x) = "in" \/ Reg(t, x) # Reg(t, i)
       \/ (Reg(t, i) >= DevEn /\ Dev(t, x) # Dev(t, i))

LEMMA LastStays ==
  ASSUME NEW t \in CommandLine, NEW b, NEW R, NEW i,
         Last(t, i), After(t, Reach(t), b, Pairs(t), R)
  PROVE  R[CellOf(t, i)] = Val(t, b, i)
<1>1. i \in 0 .. Pairs(t) - 1 /\ Pairs(t) \in Nat /\ CellOf(t, i) \in Cell
  BY CellOfIsCell DEF Last, Pairs
<1>2. StoresIn(t, Reach(t), i, CellOf(t, i))
  BY DEF StoresIn, Last
<1>3. \A x \in i + 1 .. Pairs(t) - 1 : ~StoresIn(t, Reach(t), x, CellOf(t, i))
  <2> SUFFICES ASSUME NEW x \in i + 1 .. Pairs(t) - 1
               PROVE  ~StoresIn(t, Reach(t), x, CellOf(t, i))
    OBVIOUS
  <2>1. x \in 0 .. Pairs(t) - 1
    BY <1>1
  <2>2. CellOf(t, x) = CellOf(t, i) <=>
           Reg(t, x) = Reg(t, i) /\ (Reg(t, x) >= DevEn => Dev(t, x) = Dev(t, i))
    BY <1>1, <2>1, SameCell
  <2>3. QED
    BY <2>2 DEF StoresIn, Last
<1>4. QED
  BY <1>1, <1>2, <1>3, AfterLast

(* The duties, one by one, are the pairs that are the last for their cell. *)
LEMMA DutyIsLast ==
  ASSUME NEW t \in CommandLine, NEW b, NEW d \in Duty(t, b)
  PROVE  \E i : Last(t, i) /\ d = <<CellOf(t, i), Val(t, b, i)>>
<1>1. CASE t.name = "superio"
  <2>1. Pairs(t) = 9 /\ Reach(t) = 9 /\ \A i : Kind(t, i) = "data"
    BY <1>1, KindInArms DEF Reach, Within
  <2>2. \A i \in {0, 2, 3, 4, 6, 7, 8} :
          /\ i \in 0 .. 8
          /\ \A x \in i + 1 .. 8 : Reg(t, x) # Reg(t, i)
    BY <1>1 DEF Reg
  <2>3. \A i \in {0, 2, 3, 4, 6, 7, 8} : Last(t, i)
    BY <2>1, <2>2 DEF Last
  <2>4. /\ CellOf(t, 0) = At(7, 44) /\ CellOf(t, 2) = At(7, 228)
        /\ CellOf(t, 3) = At(7, 227) /\ CellOf(t, 4) = At(7, 231)
        /\ CellOf(t, 6) = At(8, 242) /\ CellOf(t, 7) = At(8, 243)
        /\ CellOf(t, 8) = At(8, 244)
    BY <1>1 DEF CellOf, Reg, Dev
  <2>5. /\ Val(t, b, 0) = 1 /\ Val(t, b, 2) = 2 /\ Val(t, b, 3) = 1
        /\ Val(t, b, 4) = 1 /\ Val(t, b, 6) = 0 /\ Val(t, b, 7) = 249
        /\ Val(t, b, 8) = 192
    BY <1>1, <2>1 DEF Val, Arg
  <2>6. Duty(t, b) =
          {<<At(7, 44), 1>>, <<At(7, 228), 2>>, <<At(7, 227), 1>>, <<At(7, 231), 1>>,
           <<At(8, 242), 0>>, <<At(8, 243), 249>>, <<At(8, 244), 192>>}
    BY <1>1, Zenon DEF Duty
  <2>7. QED
    BY <2>3, <2>4, <2>5, <2>6
<1>2. CASE t.name = "superio2"
  <2>1. Pairs(t) = 10 /\ Reach(t) = 10 /\ \A i : Kind(t, i) = "data"
    BY <1>2, KindInArms DEF Reach, Within
  <2>2. \A i \in {2, 3, 4, 7, 8, 9} :
          /\ i \in 0 .. 9
          /\ \A x \in i + 1 .. 9 : Reg(t, x) # Reg(t, i)
                                   \/ (Reg(t, i) >= DevEn /\ Dev(t, x) # Dev(t, i))
    BY <1>2 DEF Reg, Dev, DevEn
  <2>3. \A i \in {2, 3, 4, 7, 8, 9} : Last(t, i)
    BY <2>1, <2>2 DEF Last
  <2>4. /\ CellOf(t, 2) = At(7, 96) /\ CellOf(t, 3) = At(7, 97)
        /\ CellOf(t, 4) = At(7, DevEn) /\ CellOf(t, 7) = At(8, 96)
        /\ CellOf(t, 8) = At(8, 97) /\ CellOf(t, 9) = At(8, DevEn)
    BY <1>2 DEF CellOf, Reg, Dev, DevEn
  <2>5. /\ Val(t, b, 2) = 2 /\ Val(t, b, 3) = 80 /\ Val(t, b, 4) = 1
        /\ Val(t, b, 7) = 2 /\ Val(t, b, 8) = 84 /\ Val(t, b, 9) = 1
    BY <1>2, <2>1 DEF Val, Arg
  <2>6. Duty(t, b) =
          {<<At(7, 96), 2>>, <<At(7, 97), 80>>, <<At(7, DevEn), 1>>,
           <<At(8, 96), 2>>, <<At(8, 97), 84>>, <<At(8, DevEn), 1>>}
    BY <1>2, Zenon DEF Duty
  <2>7. QED
    BY <2>3, <2>4, <2>5, <2>6
<1>3. CASE t.name = "getreg"
  <2>1. Duty(t, b) = {}
    BY <1>3, Zenon DEF Duty
  <2>2. QED
    BY <2>1
<1>4. CASE t.name = "setreg"
  <2>1. Duty(t, b) = IF Within(t) THEN {<<At(t.dev, t.reg), t.val>>} ELSE {}
    BY <1>4, Zenon DEF Duty
  <2>2. Within(t) /\ d = <<At(t.dev, t.reg), t.val>>
    BY <2>1
  <2>3. Last(t, 2)
    BY <1>4, <2>2 DEF Last, Reach, Pairs, Kind
  <2>4. CellOf(t, 2) = At(t.dev, t.reg) /\ Val(t, b, 2) = t.val
    BY <1>4 DEF CellOf, Val, Reg, Dev, Kind, Arg
  <2>5. QED
    BY <2>2, <2>3, <2>4
<1>5. CASE t.name = "ite_sio"
  <2>1. Duty(t, b) = {<<At(7, 239), ClearBit0(b[At(7, 239)])>>}
    BY <1>5, Zenon DEF Duty
  <2>2. Last(t, 2)
    BY <1>5 DEF Last, Reach, Within, Pairs, Kind
  <2>3. CellOf(t, 2) = At(7, 239) /\ Val(t, b, 2) = ClearBit0(b[At(7, 239)])
    BY <1>5 DEF CellOf, Val, Reg, Dev, Kind
  <2>4. QED
    BY <2>1, <2>2, <2>3
<1>6. QED
  BY <1>1, <1>2, <1>3, <1>4, <1>5 DEF CommandLine, ToolNames

(* And a pair that stores stores where one of the last ones does, or in    *)
(* the device selection.                                                   *)
LEMMA StoresWanted ==
  ASSUME NEW t \in CommandLine, NEW b, NEW i \in 0 .. Pairs(t) - 1,
         NEW c \in Cell, StoresIn(t, Reach(t), i, c)
  PROVE  c \in Wanted(t, b)
<1>1. c = CellOf(t, i) /\ Kind(t, i) # "in" /\ i < Reach(t)
  BY DEF StoresIn
<1>2. \A d \in Duty(t, b) : d[1] \in Wanted(t, b)
  BY DEF Wanted
<1>3. At(7, DevSel) \in Wanted(t, b)
  BY DEF Wanted
<1>4. At(7, DevSel) = At(8, DevSel) /\ At(7, DevSel) = At(t.dev, DevSel)
  BY DEF At, DevSel, DevEn
<1>5. CASE t.name = "superio"
  <2>1. i \in 0 .. 8
    BY <1>5 DEF Pairs
  <2>2. c \in {At(7, 44), At(7, DevSel), At(7, 228), At(7, 227), At(7, 231),
               At(8, 242), At(8, 243), At(8, 244)}
    BY <1>1, <1>5, <2>1 DEF CellOf, Reg, Dev, DevSel
  <2>3. Duty(t, b) =
          {<<At(7, 44), 1>>, <<At(7, 228), 2>>, <<At(7, 227), 1>>, <<At(7, 231), 1>>,
           <<At(8, 242), 0>>, <<At(8, 243), 249>>, <<At(8, 244), 192>>}
    BY <1>5, Zenon DEF Duty
  <2>4. /\ At(7, 44) \in Wanted(t, b) /\ At(7, 228) \in Wanted(t, b)
        /\ At(7, 227) \in Wanted(t, b) /\ At(7, 231) \in Wanted(t, b)
        /\ At(8, 242) \in Wanted(t, b) /\ At(8, 243) \in Wanted(t, b)
        /\ At(8, 244) \in Wanted(t, b)
    BY <1>2, <2>3
  <2>5. QED
    BY <1>3, <2>2, <2>4
<1>6. CASE t.name = "superio2"
  <2>1. i \in 0 .. 9
    BY <1>6 DEF Pairs
  <2>2. c \in {At(7, DevSel), At(7, DevEn), At(7, 96), At(7, 97),
               At(8, DevEn), At(8, 96), At(8, 97)}
    BY <1>1, <1>6, <2>1 DEF CellOf, Reg, Dev, DevSel, DevEn
  <2>3. Duty(t, b) =
          {<<At(7, 96), 2>>, <<At(7, 97), 80>>, <<At(7, DevEn), 1>>,
           <<At(8, 96), 2>>, <<At(8, 97), 84>>, <<At(8, DevEn), 1>>}
    BY <1>6, Zenon DEF Duty
  <2>4. /\ At(7, 96) \in Wanted(t, b) /\ At(7, 97) \in Wanted(t, b)
        /\ At(7, DevEn) \in Wanted(t, b) /\ At(8, 96) \in Wanted(t, b)
        /\ At(8, 97) \in Wanted(t, b) /\ At(8, DevEn) \in Wanted(t, b)
    BY <1>2, <2>3
  <2>5. QED
    BY <1>3, <2>2, <2>4
<1>7. CASE t.name = "getreg"
  <2>1. i = 0
    BY <1>1, <1>7, KindInArms
  <2>2. c = At(t.dev, DevSel)
    BY <1>1, <1>7, <2>1 DEF CellOf, Reg, Dev
  <2>3. QED
    BY <1>3, <1>4, <2>2
<1>8. CASE t.name = "setreg"
  <2>1. i = 0 \/ (i = 2 /\ Within(t))
    BY <1>1, <1>8, KindInArms DEF Reach
  <2>2. i = 0 => c = At(t.dev, DevSel)
    BY <1>1, <1>8 DEF CellOf, Reg, Dev
  <2>3. i = 2 => c = At(t.dev, t.reg)
    BY <1>1, <1>8 DEF CellOf, Reg, Dev
  <2>4. Within(t) => Duty(t, b) = {<<At(t.dev, t.reg), t.val>>}
    <3>1. Duty(t, b) = IF Within(t) THEN {<<At(t.dev, t.reg), t.val>>} ELSE {}
      BY <1>8, Zenon DEF Duty
    <3>2. QED
      BY <3>1
  <2>5. ASSUME Within(t) PROVE At(t.dev, t.reg) \in Wanted(t, b)
    <3> DEFINE d == <<At(t.dev, t.reg), t.val>>
    <3>1. d \in Duty(t, b) /\ d[1] = At(t.dev, t.reg)
      BY <2>4, <2>5
    <3>2. QED
      BY <1>2, <3>1
  <2>6. QED
    BY <1>3, <1>4, <2>1, <2>2, <2>3, <2>5
<1>9. CASE t.name = "ite_sio"
  <2>1. i = 0 \/ i = 2
    BY <1>1, <1>9, KindInArms
  <2>2. i = 0 => c = At(7, DevSel)
    BY <1>1, <1>9 DEF CellOf, Reg, Dev
  <2>3. i = 2 => c = At(7, 239)
    BY <1>1, <1>9 DEF CellOf, Reg, Dev
  <2>4. Duty(t, b) = {<<At(7, 239), ClearBit0(b[At(7, 239)])>>}
    BY <1>9, Zenon DEF Duty
  <2>5. At(7, 239) \in Wanted(t, b)
    BY <1>2, <2>4
  <2>6. QED
    BY <1>3, <2>1, <2>2, <2>3, <2>5
<1>10. QED
  BY <1>5, <1>6, <1>7, <1>8, <1>9 DEF CommandLine, ToolNames

(* All that the tool is for is done, and nothing else is changed.          *)
LEMMA AllDone ==
  ASSUME NEW t \in CommandLine, NEW b, NEW R, After(t, Reach(t), b, Pairs(t), R)
  PROVE  /\ \A d \in Duty(t, b) : R[d[1]] = d[2]
         /\ \A c \in Cell \ Wanted(t, b) : R[c] = b[c]
<1>1. ASSUME NEW d \in Duty(t, b) PROVE R[d[1]] = d[2]
  <2>1. PICK i : Last(t, i) /\ d = <<CellOf(t, i), Val(t, b, i)>>
    BY DutyIsLast
  <2>2. QED
    BY <2>1, LastStays
<1>2. ASSUME NEW c \in Cell \ Wanted(t, b) PROVE R[c] = b[c]
  <2>1. \A i \in 0 .. Pairs(t) - 1 : ~StoresIn(t, Reach(t), i, c)
    BY StoresWanted
  <2>2. Pairs(t) \in Nat /\ c \in Cell
    BY DEF Pairs
  <2>3. QED
    BY <2>1, <2>2, AfterUntouched
<1>3. QED
  BY <1>1, <1>2

(* Winbond's tools never leave a device enabled at half an address, after  *)
(* any number of their pairs.                                              *)
LEMMA WholeAfter ==
  ASSUME NEW t \in CommandLine, t.name \in {"superio", "superio2"},
         NEW b, NEW R, NEW j \in 0 .. Pairs(t), NEW l \in Ldn,
         After(t, Reach(t), b, j, R), Whole(l, b)
  PROVE  Whole(l, R)
<1>1. /\ <<l, DevEn>> = At(l, DevEn) /\ <<l, 96>> = At(l, 96) /\ <<l, 97>> = At(l, 97)
      /\ <<l, DevEn>> \in Cell /\ <<l, 96>> \in Cell /\ <<l, 97>> \in Cell
  BY DEF At, DevEn, Cell, Index
<1>2. j \in Nat /\ Pairs(t) \in Nat
  BY DEF Pairs
<1>3. ASSUME NEW r \in {DevEn, 96, 97}, NEW i \in 0 .. j - 1
      PROVE  StoresIn(t, Reach(t), i, At(l, r)) <=> Reg(t, i) = r /\ Dev(t, i) = l
  <2>1. i \in 0 .. Pairs(t) - 1
    BY <1>2
  <2>2. Reg(t, i) \in Int /\ Dev(t, i) \in Ldn /\ r \in Int /\ r >= DevEn
    BY <2>1, PairTypes DEF Index, DevEn
  <2>3. CellOf(t, i) = At(l, r) <=> Reg(t, i) = r /\ Dev(t, i) = l
    BY <2>2, AtEqual DEF CellOf
  <2>4. Kind(t, i) = "data" /\ i < Reach(t)
    BY <1>2, <2>1 DEF Kind, Reach, Within
  <2>5. QED
    BY <2>3, <2>4 DEF StoresIn
<1>4. ASSUME \A i \in 0 .. j - 1 : Dev(t, i) = l => Reg(t, i) \notin {DevEn, 96, 97}
      PROVE  Whole(l, R)
  <2>1. \A r \in {DevEn, 96, 97} : \A i \in 0 .. j - 1 : ~StoresIn(t, Reach(t), i, At(l, r))
    BY <1>3, <1>4
  <2>2. R[At(l, DevEn)] = b[At(l, DevEn)] /\ R[At(l, 96)] = b[At(l, 96)]
        /\ R[At(l, 97)] = b[At(l, 97)]
    BY <1>1, <1>2, <2>1, AfterUntouched
  <2>3. QED
    BY <1>1, <2>2 DEF Whole, Address
<1>5. CASE t.name = "superio"
  <2>1. \A i \in 0 .. 8 : Reg(t, i) \notin {DevEn, 96, 97}
    BY <1>5 DEF Reg, DevEn
  <2>2. Pairs(t) = 9
    BY <1>5 DEF Pairs
  <2>3. QED
    BY <1>2, <1>4, <2>1, <2>2
<1>6. CASE t.name = "superio2"
  <2> DEFINE z == IF l = 7 THEN 0 ELSE 5
  <2>1. Pairs(t) = 10 /\ j \in 0 .. 10 /\ \A i : Kind(t, i) = "data"
    BY <1>6, KindInArms
  <2>2. \A i \in 0 .. 9 :
          /\ Dev(t, i) = l /\ Reg(t, i) = DevEn <=> i = z + 1 \/ i = z + 4
          /\ Dev(t, i) = l /\ Reg(t, i) = 96 <=> i = z + 2
          /\ Dev(t, i) = l /\ Reg(t, i) = 97 <=> i = z + 3
    BY <1>6 DEF Reg, Dev, DevEn, Ldn
  <2>3. /\ Val(t, b, z + 1) = 0 /\ Val(t, b, z + 2) = 2
        /\ Val(t, b, z + 3) = IF l = 7 THEN 80 ELSE 84
    BY <1>6, <2>1 DEF Val, Arg
  <2>4. z \in {0, 5}
    OBVIOUS
  <2> HIDE DEF z
  <2>5. CASE j <= z + 1
    BY <1>4, <2>1, <2>2, <2>4, <2>5
  <2>6. CASE j \in z + 2 .. z + 4
    <3> DEFINE c == At(l, DevEn)
    <3>1. /\ z + 1 \in 0 .. j - 1 /\ StoresIn(t, Reach(t), z + 1, c)
          /\ \A x \in (z + 1) + 1 .. j - 1 : ~StoresIn(t, Reach(t), x, c)
      BY <1>3, <2>1, <2>2, <2>4, <2>6
    <3> HIDE DEF c
    <3>2. R[c] = Val(t, b, z + 1)
      BY <1>1, <1>2, <3>1, AfterLast DEF c
    <3>3. QED
      BY <1>1, <2>3, <3>2 DEF Whole, c
  <2>7. CASE j >= z + 5
    <3>1. R[At(l, 96)] = Val(t, b, z + 2)
      <4>1. /\ z + 2 \in 0 .. j - 1 /\ StoresIn(t, Reach(t), z + 2, At(l, 96))
            /\ \A x \in (z + 2) + 1 .. j - 1 : ~StoresIn(t, Reach(t), x, At(l, 96))
        BY <1>3, <2>1, <2>2, <2>4, <2>7
      <4>2. QED
        BY <1>1, <1>2, <4>1, AfterLast
    <3>2. R[At(l, 97)] = Val(t, b, z + 3)
      <4>1. /\ z + 3 \in 0 .. j - 1 /\ StoresIn(t, Reach(t), z + 3, At(l, 97))
            /\ \A x \in (z + 3) + 1 .. j - 1 : ~StoresIn(t, Reach(t), x, At(l, 97))
        BY <1>3, <2>1, <2>2, <2>4, <2>7
      <4>2. QED
        BY <1>1, <1>2, <4>1, AfterLast
    <3>3. QED
      BY <1>1, <2>3, <3>1, <3>2 DEF Whole, Address
  <2>8. QED
    BY <2>1, <2>4, <2>5, <2>6, <2>7
<1>7. QED
  BY <1>5, <1>6

-----------------------------------------------------------------------------
(* The steps.                                                              *)

LEMMA ToolTypes ==
  ASSUME Shape, NEW p \in Run
  PROVE  /\ tool[p] \in CommandLine /\ tool[p].name \in ToolsFor[family]
         /\ family \in {"winbond", "nvt", "ite"}
  BY FamiliesAssumption, ToolsAssumption DEF Shape, ToolsFor

(* To select one of a tool's registers ends the configuration mode for one *)
(* register of getreg and setreg only.                                     *)
LEMMA ReachesAll ==
  ASSUME Shape, NEW p \in Run, NEW j \in 0 .. Pairs(tool[p]) - 1
  PROVE  (closes /\ Reg(tool[p], j) = ExitByte) <=> (~Within(tool[p]) /\ j # 0)
<1> DEFINE t == tool[p]
<1>1. /\ t \in CommandLine /\ t.name \in ToolsFor[family]
      /\ family \in {"winbond", "nvt", "ite"} /\ j \in Int
  BY ToolTypes DEF Pairs
<1> HIDE DEF t
<1>2. CASE family = "winbond"
  <2>1. ExitByte = 170 /\ t.name \in {"superio", "superio2"} /\ Within(t)
    BY <1>1, <1>2 DEF ExitByte, ToolsFor, Within
  <2>2. t.name = "superio" => j \in 0 .. 8 /\ Reg(t, j) # 170
    BY <1>1 DEF Reg, Pairs, t
  <2>3. t.name = "superio2" => j \in 0 .. 9 /\ Reg(t, j) # 170
    BY <1>1 DEF Reg, Pairs, t
  <2>4. QED
    BY <2>1, <2>2, <2>3 DEF t
<1>3. CASE family # "winbond"
  <2>1. t.name \in {"getreg", "setreg", "ite_sio"} /\ ExitByte \in {2, 170}
    BY <1>1, <1>3 DEF ToolsFor, ExitByte
  <2>2. Reg(t, 0) # ExitByte
    BY <2>1 DEF Reg, DevSel
  <2>3. t.name = "ite_sio" => Within(t) /\ Reg(t, j) # ExitByte
    BY <2>1 DEF Within, Reg, DevSel
  <2>4. t.name # "ite_sio" /\ j # 0 =>
          Reg(t, j) = t.reg /\ (Within(t) <=> (closes => t.reg # ExitByte))
    BY <2>1 DEF Within, Reg
  <2>5. QED
    BY <2>1, <2>2, <2>3, <2>4 DEF t
<1>4. QED
  BY <1>2, <1>3

(* An access, by its place in the program.                                 *)
LEMMA AccessEffect ==
  ASSUME Shape, NEW p \in Run, Place(p), Access(p)
  PROVE  /\ st[p] = "running" /\ pc' = [pc EXCEPT ![p] = pc[p] + 1]
         /\ st' = IF pc[p] + 1 = Size(Program(tool[p])) THEN [st EXCEPT ![p] = "done"] ELSE st
         /\ UNCHANGED <<family, closes, tool, before, overlapped>>
         /\ \/ /\ pc[p] < Size(Key)
               /\ IndexPort(Key[pc[p] + 1]) /\ UNCHANGED got
            \/ \E j \in 0 .. Pairs(tool[p]) - 1 :
                 /\ pc[p] = Size(Key) + 2 * j
                 /\ IndexPort(Reg(tool[p], j)) /\ UNCHANGED got
            \/ \E j \in 0 .. Pairs(tool[p]) - 1 :
                 /\ pc[p] = Size(Key) + 2 * j + 1
                 /\ \/ /\ Kind(tool[p], j) = "data"
                       /\ DataPort(Arg(tool[p], j)) /\ UNCHANGED got
                    \/ /\ Kind(tool[p], j) = "masked"
                       /\ LET val == got[p][Len(got[p])] IN DataPort(val - (val % 2))
                       /\ UNCHANGED got
                    \/ /\ Kind(tool[p], j) = "in"
                       /\ got' = [got EXCEPT ![p] = Append(got[p], Input)]
                       /\ UNCHANGED chip
            \/ /\ pc[p] >= Size(Key) + 2 * Pairs(tool[p])
               /\ IndexPort(ExitByte) /\ UNCHANGED got
<1> DEFINE t == tool[p]  k == pc[p]  op == OpAt(t, k)
<1>1. /\ st[p] = "running" /\ pc' = [pc EXCEPT ![p] = pc[p] + 1]
      /\ st' = IF pc[p] + 1 = Size(Program(t)) THEN [st EXCEPT ![p] = "done"] ELSE st
      /\ UNCHANGED <<family, closes, tool, before, overlapped>>
  BY DEF Access, machine, Size
<1>2. \/ op.op = "index" /\ IndexPort(op.v) /\ UNCHANGED got
      \/ op.op = "data" /\ DataPort(op.v) /\ UNCHANGED got
      \/ /\ op.op = "masked"
         /\ LET val == got[p][Len(got[p])] IN DataPort(val - (val % 2))
         /\ UNCHANGED got
      \/ /\ op.op = "in"
         /\ got' = [got EXCEPT ![p] = Append(@, Input)]
         /\ UNCHANGED chip
  BY Zenon DEF Access, OpAt
<1>3. t \in CommandLine /\ k \in Nat /\ k < Size(Program(t))
  BY <1>1, ToolTypes DEF Shape, Place
<1>4. \/ k < Size(Key) /\ op = Idx(Key[k + 1])
      \/ \E j \in 0 .. Pairs(t) - 1 : k = Size(Key) + 2 * j /\ op = Idx(Reg(t, j))
      \/ \E j \in 0 .. Pairs(t) - 1 : k = Size(Key) + 2 * j + 1 /\ op = PairOp(t, j)
      \/ k >= Size(Key) + 2 * Pairs(t) /\ op = Idx(ExitByte)
  BY <1>3, NextOp
<1> HIDE DEF t, k, op
<1>5. ASSUME NEW v, op = Idx(v)
      PROVE  IndexPort(v) /\ UNCHANGED got
  <2>1. op.op = "index" /\ op.v = v
    BY <1>5 DEF Idx
  <2>2. op.op # "data" /\ op.op # "masked" /\ op.op # "in"
    BY <2>1
  <2>3. QED
    BY <1>2, <2>1, <2>2, Zenon
<1>6. ASSUME NEW j \in 0 .. Pairs(t) - 1, op = PairOp(t, j)
      PROVE  \/ /\ Kind(t, j) = "data" /\ DataPort(Arg(t, j)) /\ UNCHANGED got
             \/ /\ Kind(t, j) = "masked"
                /\ LET val == got[p][Len(got[p])] IN DataPort(val - (val % 2))
                /\ UNCHANGED got
             \/ /\ Kind(t, j) = "in"
                /\ got' = [got EXCEPT ![p] = Append(got[p], Input)]
                /\ UNCHANGED chip
  <2>1. op.op = Kind(t, j) /\ (Kind(t, j) = "data" => op.v = Arg(t, j))
    BY <1>6 DEF PairOp
  <2>2. Kind(t, j) # "index"
    BY DEF Kind
  <2>3. QED
    BY <1>2, <2>1, <2>2, Zenon
<1>7. \/ k < Size(Key) /\ IndexPort(Key[k + 1]) /\ UNCHANGED got
      \/ \E j \in 0 .. Pairs(t) - 1 :
           k = Size(Key) + 2 * j /\ IndexPort(Reg(t, j)) /\ UNCHANGED got
      \/ \E j \in 0 .. Pairs(t) - 1 :
           /\ k = Size(Key) + 2 * j + 1
           /\ \/ /\ Kind(t, j) = "data" /\ DataPort(Arg(t, j)) /\ UNCHANGED got
              \/ /\ Kind(t, j) = "masked"
                 /\ LET val == got[p][Len(got[p])] IN DataPort(val - (val % 2))
                 /\ UNCHANGED got
              \/ /\ Kind(t, j) = "in"
                 /\ got' = [got EXCEPT ![p] = Append(got[p], Input)]
                 /\ UNCHANGED chip
      \/ k >= Size(Key) + 2 * Pairs(t) /\ IndexPort(ExitByte) /\ UNCHANGED got
  BY <1>4, <1>5, <1>6, Zenon
<1>8. QED
  BY <1>1, <1>7, Zenon DEF t, k

LEMMA MachineStays ==
  ASSUME family' = family, closes' = closes
  PROVE  /\ Key' = Key /\ ExitByte' = ExitByte
         /\ \A t : /\ Program(t)' = Program(t) /\ Reach(t)' = Reach(t)
                   /\ Within(t)' <=> Within(t)
<1>1. Key' = Key /\ ExitByte' = ExitByte
  BY DEF Key, ExitByte
<1>2. \A t : Program(t)' = Program(t)
  BY <1>1 DEF Program, CfgEnter, CfgExit
<1>3. \A t : Within(t)' <=> Within(t)
  BY <1>1 DEF Within
<1>4. \A t : Reach(t)' = Reach(t)
  BY <1>3 DEF Reach
<1>5. QED
  BY <1>1, <1>2, <1>3, <1>4

(* The chip.                                                               *)
LEMMA IndexPortChip ==
  ASSUME Shape, NEW v \in Index, IndexPort(v)
  PROVE  /\ regs' = regs /\ open' \in BOOLEAN
         /\ matched' \in 0 .. Size(Key) - 1 /\ index' \in Index
         /\ open' => index' \in {index, v}
<1>1. Matching(v) \in 0 .. Size(Key) /\ Size(Key) \in {2, 4}
  BY KeyMatching, KeyBytes DEF Shape
<1>2. CASE open
  BY <1>2 DEF IndexPort, Shape
<1>3. CASE ~open
  <2>1. /\ open' <=> Matching(v) = Size(Key)
        /\ open' => matched' = 0
        /\ ~open' => matched' = Matching(v)
        /\ regs' = regs /\ index' = index
    BY <1>3 DEF IndexPort, Size
  <2>2. open' \in BOOLEAN
    BY <1>3 DEF IndexPort
  <2>3. QED
    BY <1>1, <2>1, <2>2 DEF Shape
<1>4. QED
  BY <1>2, <1>3 DEF Shape

LEMMA DataPortChip ==
  ASSUME Shape, NEW v \in Byte, DataPort(v)
  PROVE  /\ regs' \in [Cell -> Byte] /\ open' = open /\ matched' = matched /\ index' = index
         /\ ~open => regs' = regs
         /\ open /\ Selected \in Cell => regs' = [regs EXCEPT ![Selected] = v]
  BY DEF DataPort, Shape

LEMMA InputIsByte ==
  ASSUME Shape
  PROVE  Input \in Byte
  BY DEF Input, Shape, Byte

LEMMA ByteEven ==
  ASSUME NEW v \in Byte
  PROVE  v - (v % 2) \in Byte /\ v - (v % 2) = ClearBit0(v)
  BY DEF Byte, ClearBit0

(* The byte that is masked has been read.                                  *)
LEMMA MaskedByte ==
  ASSUME Shape, NEW p \in Run, Place(p), NEW j \in 0 .. Pairs(tool[p]) - 1,
         pc[p] = Size(Key) + 2 * j + 1, Kind(tool[p], j) = "masked"
  PROVE  tool[p].name = "ite_sio" /\ j = 2 /\ got[p][Len(got[p])] \in Byte
<1>1. tool[p].name = "ite_sio" /\ j = 2
  BY ToolTypes DEF Kind, CommandLine, ToolNames
<1>2. pc[p] >= Size(Key) + 4
  BY <1>1, KeyBytes
<1>3. got[p] # << >> /\ got[p] \in Seq(Byte)
  BY <1>1, <1>2 DEF Place, Shape
<1>4. QED
  BY <1>1, <1>3

LEMMA AccessShape ==
  ASSUME Shape, NEW p \in Run, Place(p), Access(p)
  PROVE  /\ Shape' /\ Place(p)'
         /\ \A q \in Run : got'[q] = got[q] \/ q = p
<1> DEFINE t == tool[p]  k == pc[p]  n == Size(Key)
<1>1. /\ st[p] = "running" /\ pc' = [pc EXCEPT ![p] = k + 1]
      /\ st' = IF k + 1 = Size(Program(t)) THEN [st EXCEPT ![p] = "done"] ELSE st
      /\ family' = family /\ closes' = closes /\ tool' = tool /\ before' = before
      /\ overlapped' = overlapped
  BY AccessEffect
<1>2. t \in CommandLine /\ k \in Nat /\ k < Size(Program(t)) /\ n \in Nat
  BY <1>1, ToolTypes, KeyBytes DEF Shape, Place
<1>3. /\ Size(Key)' = n /\ Size(Program(t))' = Size(Program(t)) /\ (tool[p])' = t
  BY <1>1, MachineStays DEF Size
<1>4. Size(Program(t)) \in Nat
  BY <1>2, ProgramSize
<1>5. st' \in [Run -> States] /\ pc' \in [Run -> Nat] /\ pc'[p] = k + 1
  BY <1>1, <1>2 DEF Shape, States
<1>6. ASSUME regs' \in [Cell -> Byte], open' \in BOOLEAN, matched' \in 0 .. n - 1,
             index' \in Index, got' \in [Run -> Seq(Byte)]
      PROVE  Shape'
  BY <1>1, <1>3, <1>5, <1>6 DEF Shape
<1>7. ASSUME t.name = "ite_sio" /\ k + 1 >= n + 4 => got'[p] # << >>
      PROVE  Place(p)'
  <2>1. /\ (pc[p])' = k + 1 /\ k + 1 <= Size(Program(t))
        /\ st'[p] = "running" => k + 1 # Size(Program(t))
        /\ st'[p] # "idle"
    BY <1>1, <1>2, <1>4, <1>5 DEF Shape
  <2>2. QED
    BY <1>2, <1>3, <1>4, <1>7, <2>1 DEF Place
<1>8. t.name = "ite_sio" /\ k >= n + 4 => got[p] # << >>
  BY DEF Place
<1>9. ASSUME NEW v \in Index, IndexPort(v), UNCHANGED got, k # n + 3
      PROVE  Shape' /\ Place(p)'
  <2>1. Shape'
    BY <1>6, <1>9, IndexPortChip DEF Shape
  <2>2. k + 1 >= n + 4 => k >= n + 4
    BY <1>2, <1>9
  <2>3. QED
    BY <1>7, <1>8, <1>9, <2>1, <2>2
<1>10. ASSUME NEW v \in Byte, DataPort(v), UNCHANGED got,
              t.name # "ite_sio" \/ k # n + 3
       PROVE  Shape' /\ Place(p)'
  <2>1. Shape'
    BY <1>6, <1>10, DataPortChip DEF Shape
  <2>2. k # n + 3 /\ k + 1 >= n + 4 => k >= n + 4
    BY <1>2
  <2>3. QED
    BY <1>7, <1>8, <1>10, <2>1, <2>2
<1>11. ASSUME got' = [got EXCEPT ![p] = Append(got[p], Input)], UNCHANGED chip
       PROVE  Shape' /\ Place(p)'
  <2>1. Append(got[p], Input) \in Seq(Byte) /\ Append(got[p], Input) # << >>
    <3>1. got[p] \in Seq(Byte) /\ Input \in Byte
      BY InputIsByte DEF Shape
    <3>2. App(got[p], Input) \in Seq(Byte) /\ Size(App(got[p], Input)) = Size(got[p]) + 1
      BY <3>1, AppIsOneMore
    <3>3. Size(got[p]) \in Nat /\ Size(<< >>) = 0
      BY <3>1 DEF Size
    <3>4. App(got[p], Input) # << >>
      BY <3>2, <3>3
    <3>5. QED
      BY <3>2, <3>4 DEF App
  <2>2. got' \in [Run -> Seq(Byte)] /\ got'[p] # << >>
    BY <1>11, <2>1 DEF Shape
  <2>3. QED
    BY <1>6, <1>7, <1>11, <2>2 DEF Shape, chip
<1>12. CASE k < n /\ IndexPort(Key[k + 1]) /\ UNCHANGED got
  <2>1. Key[k + 1] \in Index
    BY <1>2, <1>12, KeyBytes
  <2>2. QED
    BY <1>2, <1>9, <1>12, <2>1
<1>13. ASSUME NEW j \in 0 .. Pairs(t) - 1, k = n + 2 * j,
              IndexPort(Reg(t, j)), UNCHANGED got
       PROVE  Shape' /\ Place(p)'
  <2>1. Reg(t, j) \in Index /\ k # n + 3
    BY <1>2, <1>13, PairTypes DEF Pairs
  <2>2. QED
    BY <1>9, <1>13, <2>1
<1>14. ASSUME NEW j \in 0 .. Pairs(t) - 1, k = n + 2 * j + 1,
              \/ /\ Kind(t, j) = "data" /\ DataPort(Arg(t, j)) /\ UNCHANGED got
              \/ /\ Kind(t, j) = "masked"
                 /\ LET val == got[p][Len(got[p])] IN DataPort(val - (val % 2))
                 /\ UNCHANGED got
              \/ /\ Kind(t, j) = "in"
                 /\ got' = [got EXCEPT ![p] = Append(got[p], Input)]
                 /\ UNCHANGED chip
       PROVE  Shape' /\ Place(p)'
  <2>1. CASE Kind(t, j) = "data" /\ DataPort(Arg(t, j)) /\ UNCHANGED got
    <3>1. Arg(t, j) \in Byte
      BY <1>2, <2>1, PairTypes
    <3>2. t.name = "ite_sio" => j # 1
      BY <2>1 DEF Kind
    <3>3. k = n + 3 => j = 1
      BY <1>2, <1>14 DEF Pairs
    <3>4. QED
      BY <1>10, <2>1, <3>1, <3>2, <3>3
  <2>2. CASE /\ Kind(t, j) = "masked"
             /\ LET val == got[p][Len(got[p])] IN DataPort(val - (val % 2))
             /\ UNCHANGED got
    <3> DEFINE val == got[p][Len(got[p])]
    <3>1. j = 2 /\ val \in Byte
      BY <1>14, <2>2, MaskedByte
    <3> HIDE DEF val
    <3>2. val - (val % 2) \in Byte
      BY <3>1, ByteEven
    <3>3. DataPort(val - (val % 2)) /\ UNCHANGED got
      BY <2>2 DEF val
    <3>4. k # n + 3
      BY <1>2, <1>14, <3>1
    <3>5. QED
      BY <1>10, <3>2, <3>3, <3>4
  <2>3. CASE /\ Kind(t, j) = "in"
             /\ got' = [got EXCEPT ![p] = Append(got[p], Input)]
             /\ UNCHANGED chip
    BY <1>11, <2>3
  <2>4. QED
    BY <1>14, <2>1, <2>2, <2>3
<1>15. CASE k >= n + 2 * Pairs(t) /\ IndexPort(ExitByte) /\ UNCHANGED got
  <2>1. ExitByte \in Index
    BY KeyBytes
  <2>2. k # n + 3
    BY <1>2, <1>15 DEF Pairs
  <2>3. QED
    BY <1>9, <1>15, <2>1, <2>2
<1>16. Shape' /\ Place(p)'
  BY <1>12, <1>13, <1>14, <1>15, AccessEffect
<1>17. \A q \in Run : got'[q] = got[q] \/ q = p
  BY AccessEffect DEF Shape
<1>18. QED
  BY <1>16, <1>17

(* The key opens the chip, and keeps it open.                              *)
LEMMA KeyStep ==
  ASSUME Shape, NEW k \in 0 .. Size(Key) - 1,
         k \in 1 .. Size(Key) - 1 => open \/ matched = k,
         IndexPort(Key[k + 1])
  PROVE  /\ k + 1 \in 1 .. Size(Key) - 1 => open' \/ matched' = k + 1
         /\ k + 1 = Size(Key) => open'
         /\ regs' = regs
<1> DEFINE n == Size(Key)
<1>1. n \in {2, 4} /\ matched \in 0 .. n - 1 /\ Key[k + 1] # ExitByte
  BY KeyBytes DEF Shape
<1>2. CASE open
  <2>1. open' /\ regs' = regs
    BY <1>1, <1>2 DEF IndexPort
  <2>2. QED
    BY <2>1
<1>3. CASE ~open
  <2>1. /\ open' <=> Matching(Key[k + 1]) = n
        /\ ~open' => matched' = Matching(Key[k + 1])
        /\ regs' = regs
    BY <1>3 DEF IndexPort, Size
  <2>2. CASE k = 0
    <3>1. Matching(Key[k + 1]) \in {1, n}
      BY <1>1, <2>2, KeyMatching
    <3>2. QED
      BY <1>1, <2>1, <2>2, <3>1
  <2>3. CASE k # 0
    <3>1. matched = k
      BY <1>3, <2>3
    <3>2. Matching(Key[k + 1]) = k + 1
      BY <1>1, <3>1, KeyMatching
    <3>3. QED
      BY <1>1, <2>1, <3>2
  <2>4. QED
    BY <2>2, <2>3
<1>4. QED
  BY <1>2, <1>3

\* Two accesses with the same place in a body are the accesses of one pair.
LEMMA SameAccess ==
  ASSUME NEW i \in Int, NEW j \in Int, NEW n \in Int,
         n + 2 * i + 1 = n + 2 * j + 1
  PROVE  i = j
OBVIOUS

(* The invariant of a tool that nobody disturbs, access by access.         *)
LEMMA AccessProgress ==
  ASSUME Shape, NEW p \in Run, Place(p), Access(p),
         Progress(tool[p], before[p], pc[p], got[p])
  PROVE  Progress(tool[p], before[p], pc[p], got[p])'
<1> DEFINE t == tool[p]  b == before[p]  k == pc[p]  n == Size(Key)  m == Pairs(t)
           w == Within(t)  u == Reach(t)
<1>1. /\ pc' = [pc EXCEPT ![p] = k + 1]
      /\ family' = family /\ closes' = closes /\ tool' = tool /\ before' = before
  BY AccessEffect
<1>2. /\ t \in CommandLine /\ k \in Nat /\ b \in [Cell -> Byte]
      /\ n \in {2, 4} /\ m \in {2, 4, 9, 10}
  BY ToolTypes, KeyBytes DEF Shape, Pairs
<1>3. /\ (tool[p])' = t /\ (before[p])' = b /\ (pc[p])' = k + 1
      /\ Size(Key)' = n /\ Reach(t)' = u /\ (Within(t)' <=> w)
  BY <1>1, <1>2, MachineStays DEF Size, Shape
<1>4. /\ k \in 1 .. n - 1 => open \/ matched = k
      /\ k \in n .. n + 2 * m /\ (w \/ k <= n + 2) => open
      /\ ~w /\ k >= n + 3 => ~open
      /\ \A j \in 0 .. m - 1 : k = n + 2 * j + 1 /\ open => index = Reg(t, j)
      /\ After(t, u, b, PairsDone(t, n, k), regs)
      /\ got[p] = Read(t, u, b, PairsDone(t, n, k))
  BY DEF Progress
<1>5. ASSUME /\ k + 1 \in 1 .. n - 1 => open' \/ matched' = k + 1
             /\ k + 1 \in n .. n + 2 * m /\ (w \/ k + 1 <= n + 2) => open'
             /\ ~w /\ k + 1 >= n + 3 => ~open'
             /\ \A j \in 0 .. m - 1 : k + 1 = n + 2 * j + 1 /\ open' => index' = Reg(t, j)
             /\ After(t, u, b, PairsDone(t, n, k + 1), regs')
             /\ got'[p] = Read(t, u, b, PairsDone(t, n, k + 1))
      PROVE  Progress(tool[p], before[p], pc[p], got[p])'
  BY <1>3, <1>5 DEF Progress
<1>6. ~w => u = 1
  BY DEF Reach
<1>7. w => u = m
  BY DEF Reach
<1>8. CASE k < n /\ IndexPort(Key[k + 1]) /\ UNCHANGED got
  <2>1. /\ k + 1 \in 1 .. n - 1 => open' \/ matched' = k + 1
        /\ k + 1 = n => open'
        /\ regs' = regs
    BY <1>2, <1>4, <1>8, KeyStep
  <2>2. PairsDone(t, n, k) = 0 /\ PairsDone(t, n, k + 1) = 0
    <3>1. n \in Nat /\ k <= n /\ k + 1 \in Nat /\ k + 1 <= n
      BY <1>2, <1>8
    <3> HIDE DEF t, k, n
    <3>2. QED
      BY <1>2, <3>1, DoneEnds
  <2>3. After(t, u, b, PairsDone(t, n, k + 1), regs')
        /\ got'[p] = Read(t, u, b, PairsDone(t, n, k + 1))
    BY <1>4, <1>8, <2>1, <2>2
  <2> HIDE DEF t, k, n, m, b, u, w
  <2>4. \A j \in 0 .. m - 1 : k + 1 # n + 2 * j + 1
    BY <1>2, <1>8
  <2>5. QED
    BY <1>2, <1>5, <1>8, <2>1, <2>3, <2>4
<1>9. ASSUME NEW j \in 0 .. m - 1, k = n + 2 * j, IndexPort(Reg(t, j)), UNCHANGED got
      PROVE  Progress(tool[p], before[p], pc[p], got[p])'
  <2>1. regs' = regs /\ (open => index' = Reg(t, j)) /\ (open' => open)
    <3>1. Reg(t, j) \in Index
      BY <1>2, PairTypes
    <3>2. CASE open
      BY <1>9, <3>2 DEF IndexPort
    <3>3. CASE ~open
      <4>1. ~w /\ j # 0
        BY <1>2, <1>4, <1>9, <3>3
      <4>2. Reg(t, j) = ExitByte
        BY <4>1, ReachesAll
      <4>3. Matching(Reg(t, j)) = 0 /\ n # 0
        BY <1>2, <4>2, KeyMatching DEF Shape
      <4>4. regs' = regs /\ ~open'
        BY <1>9, <3>3, <4>3 DEF IndexPort, Size
      <4>5. QED
        BY <3>3, <4>4
    <3>4. QED
      BY <3>2, <3>3
  <2>2. open => (open' <=> w \/ j = 0)
    <3>1. (closes /\ Reg(t, j) = ExitByte) <=> (~w /\ j # 0)
      BY ReachesAll
    <3>2. open => (open' <=> ~(closes /\ Reg(t, j) = ExitByte))
      BY <1>9 DEF IndexPort
    <3>3. QED
      BY <3>1, <3>2
  <2>3. PairsDone(t, n, k) = j /\ PairsDone(t, n, k + 1) = j
    BY <1>2, <1>9, DoneSteps
  <2>4. After(t, u, b, PairsDone(t, n, k + 1), regs')
        /\ got'[p] = Read(t, u, b, PairsDone(t, n, k + 1))
    BY <1>4, <1>9, <2>1, <2>3
  <2> HIDE DEF t, k, n, m, b, u, w
  <2>5. /\ ~(k + 1 \in 1 .. n - 1)
        /\ k + 1 \in n .. n + 2 * m /\ (w \/ k + 1 <= n + 2) => open'
        /\ ~w /\ k + 1 >= n + 3 => ~open'
    BY <1>2, <1>4, <1>9, <2>1, <2>2
  <2>6. ASSUME NEW i \in 0 .. m - 1, k + 1 = n + 2 * i + 1
        PROVE  i = j
    <3>1. i \in Int /\ j \in Int /\ n \in Int
      BY <1>2
    <3>2. n + 2 * i + 1 = n + 2 * j + 1
      BY <1>9, <2>6
    <3>3. QED
      BY <3>1, <3>2, SameAccess
  <2>7. \A i \in 0 .. m - 1 : k + 1 = n + 2 * i + 1 /\ open' => index' = Reg(t, i)
    BY <2>1, <2>6
  <2>8. QED
    BY <1>5, <2>4, <2>5, <2>7
<1>10. ASSUME NEW j \in 0 .. m - 1, k = n + 2 * j + 1,
              \/ /\ Kind(t, j) = "data" /\ DataPort(Arg(t, j)) /\ UNCHANGED got
              \/ /\ Kind(t, j) = "masked"
                 /\ LET val == got[p][Len(got[p])] IN DataPort(val - (val % 2))
                 /\ UNCHANGED got
              \/ /\ Kind(t, j) = "in"
                 /\ got' = [got EXCEPT ![p] = Append(got[p], Input)]
                 /\ UNCHANGED chip
       PROVE  Progress(tool[p], before[p], pc[p], got[p])'
  <2>1. PairsDone(t, n, k) = j /\ PairsDone(t, n, k + 1) = j + 1
    <3>1. k + 1 = n + 2 * j + 2 /\ n \in Nat
      BY <1>2, <1>10
    <3> HIDE DEF t, n
    <3>2. PairsDone(t, n, n + 2 * j + 1) = j /\ PairsDone(t, n, n + 2 * j + 2) = j + 1
      BY <1>2, <3>1, DoneSteps DEF m
    <3>3. QED
      BY <1>10, <3>1, <3>2
  <2>2. After(t, u, b, j, regs) /\ got[p] = Read(t, u, b, j)
    BY <1>4, <2>1
  <2>3. open <=> w \/ j = 0
    BY <1>2, <1>4, <1>10
  <2>4. u = m \/ (u = 1 /\ t.name \in {"getreg", "setreg"})
    BY DEF Reach, Within
  <2>5. ASSUME open
        PROVE  Selected = CellOf(t, j) /\ Selected \in Cell
    <3>1. index = Reg(t, j) /\ Reg(t, j) \in Index /\ Reg(t, j) \in Int
      <4>1. Reg(t, j) \in Index
        BY <1>2, PairTypes
      <4>2. index = Reg(t, j)
        BY <1>4, <1>10, <2>5
      <4>3. QED
        BY <4>1, <4>2 DEF Index
    <3>2. CASE Reg(t, j) < DevEn
      BY <1>2, <3>1, <3>2, CellOfIsCell DEF Selected
    <3>3. CASE Reg(t, j) >= DevEn
      <4>1. regs[<<Shared, DevSel>>] = Dev(t, j)
        BY <1>2, <2>2, <2>4, <3>3, DeviceIsSelected
      <4>2. QED
        BY <1>2, <3>1, <3>3, <4>1, CellOfIsCell DEF Selected, DevEn
    <3>4. QED
      BY <3>1, <3>2, <3>3 DEF DevEn
  <2>6. open' = open /\ index' = index
        /\ After(t, u, b, j + 1, regs') /\ got'[p] = Read(t, u, b, j + 1)
    <3>1. ASSUME NEW v \in Byte, DataPort(v), UNCHANGED got,
                 Kind(t, j) # "in", v = Val(t, b, j)
          PROVE  open' = open /\ index' = index
                 /\ After(t, u, b, j + 1, regs') /\ got'[p] = Read(t, u, b, j + 1)
      <4>1. open' = open /\ index' = index
        BY <3>1, DataPortChip
      <4>2. CASE open
        <5>1. regs' = [regs EXCEPT ![CellOf(t, j)] = Val(t, b, j)]
          BY <2>5, <3>1, <4>2, DataPortChip
        <5>2. StoresIn(t, u, j, CellOf(t, j))
          BY <1>2, <1>6, <1>7, <2>3, <3>1, <4>2 DEF StoresIn
        <5>3. regs \in [Cell -> Byte]
          BY DEF Shape
        <5>4. After(t, u, b, j + 1, regs')
          BY <1>2, <2>2, <5>1, <5>2, <5>3, AfterStore
        <5>5. Read(t, u, b, j + 1) = Read(t, u, b, j)
          BY <1>2, <3>1, ReadsNothing
        <5>6. QED
          BY <2>2, <3>1, <4>1, <5>4, <5>5
      <4>3. CASE ~open
        <5>1. regs' = regs
          BY <3>1, <4>3, DataPortChip
        <5>2. ~StoresIn(t, u, j, CellOf(t, j))
          BY <1>2, <1>6, <2>3, <4>3 DEF StoresIn
        <5>3. QED
          BY <1>2, <2>2, <3>1, <4>1, <5>1, <5>2, AfterNone, ReadsNothing
      <4>4. QED
        BY <4>2, <4>3
    <3>2. CASE Kind(t, j) = "data" /\ DataPort(Arg(t, j)) /\ UNCHANGED got
      <4>1. Arg(t, j) \in Byte /\ Val(t, b, j) = Arg(t, j)
        BY <1>2, <3>2, PairTypes DEF Val
      <4>2. QED
        BY <3>1, <3>2, <4>1
    <3>3. CASE /\ Kind(t, j) = "masked"
               /\ LET val == got[p][Len(got[p])] IN DataPort(val - (val % 2))
               /\ UNCHANGED got
      <4> DEFINE val == got[p][Len(got[p])]
      <4>1. t.name = "ite_sio" /\ j = 2 /\ val \in Byte
        BY <1>10, <3>3, MaskedByte
      <4>2. got[p] = <<b[At(7, 239)]>>
        BY <2>2, <4>1 DEF Read
      <4>3. val = b[At(7, 239)]
        BY <4>2
      <4> HIDE DEF val
      <4>4. val - (val % 2) \in Byte /\ val - (val % 2) = Val(t, b, j)
        BY <3>3, <4>1, <4>3, ByteEven DEF Val
      <4>5. DataPort(val - (val % 2)) /\ UNCHANGED got
        BY <3>3 DEF val
      <4>6. QED
        BY <3>1, <3>3, <4>4, <4>5
    <3>4. CASE /\ Kind(t, j) = "in"
               /\ got' = [got EXCEPT ![p] = Append(got[p], Input)]
               /\ UNCHANGED chip
      <4>1. open' = open /\ index' = index /\ regs' = regs
        BY <3>4 DEF chip
      <4>2. After(t, u, b, j + 1, regs')
        <5>1. ~StoresIn(t, u, j, CellOf(t, j))
          BY <3>4 DEF StoresIn
        <5>2. QED
          BY <1>2, <2>2, <4>1, <5>1, AfterNone
      <4>3. got'[p] = Append(Read(t, u, b, j), Input)
        BY <2>2, <3>4 DEF Shape
      <4>4. Kind(t, 0) # "in"
        BY DEF Kind
      <4>5. CASE w
        <5>1. Input = regs[CellOf(t, j)]
          BY <2>3, <2>5, <4>5 DEF Input
        <5>2. Read(t, u, b, j + 1) = Append(Read(t, u, b, j), regs[CellOf(t, j)])
          <6>1. u = Pairs(t) /\ Kind(t, j) = "in"
            BY <1>7, <3>4, <4>5
          <6> HIDE DEF t, b, u
          <6>2. QED
            BY <1>2, <2>2, <6>1, ReadsRight DEF m
        <5>3. QED
          BY <4>1, <4>2, <4>3, <5>1, <5>2
      <4>6. CASE ~w
        <5>1. Input = 255 /\ u = 1 /\ t.name # "ite_sio"
          BY <1>6, <2>3, <3>4, <4>4, <4>6 DEF Input, Within
        <5>2. Read(t, u, b, j + 1) = Append(Read(t, u, b, j), 255)
          BY <1>2, <3>4, <5>1, ReadsNothing
        <5>3. QED
          BY <4>1, <4>2, <4>3, <5>1, <5>2
      <4>7. QED
        BY <4>5, <4>6
    <3>5. QED
      BY <1>10, <3>2, <3>3, <3>4
  <2> HIDE DEF t, k, n, m, b, u, w
  <2>7. /\ ~(k + 1 \in 1 .. n - 1)
        /\ k + 1 \in n .. n + 2 * m /\ (w \/ k + 1 <= n + 2) => open'
        /\ ~w /\ k + 1 >= n + 3 => ~open'
    BY <1>2, <1>4, <1>10, <2>3, <2>6
  <2>8. \A i \in 0 .. m - 1 : k + 1 # n + 2 * i + 1
    BY <1>2, <1>10
  <2>9. QED
    BY <1>5, <2>1, <2>6, <2>7, <2>8
<1>11. CASE k >= n + 2 * m /\ IndexPort(ExitByte) /\ UNCHANGED got
  <2>1. PairsDone(t, n, k) = m /\ PairsDone(t, n, k + 1) = m
    BY <1>2, <1>11, DoneEnds
  <2>2. regs' = regs /\ (~open => ~open')
    <3>1. Matching(ExitByte) = 0 /\ n # 0
      BY <1>2, KeyMatching DEF Shape
    <3>2. QED
      BY <1>11, <3>1 DEF IndexPort, Size
  <2>3. After(t, u, b, PairsDone(t, n, k + 1), regs')
        /\ got'[p] = Read(t, u, b, PairsDone(t, n, k + 1))
    BY <1>4, <1>11, <2>1, <2>2
  <2> HIDE DEF t, k, n, m, b, u, w
  <2>4. /\ ~(k + 1 \in 1 .. n - 1) /\ ~(k + 1 \in n .. n + 2 * m)
        /\ ~w /\ k + 1 >= n + 3 => ~open'
    BY <1>2, <1>4, <1>11, <2>2
  <2>5. \A i \in 0 .. m - 1 : k + 1 # n + 2 * i + 1
    BY <1>2, <1>11
  <2>6. QED
    BY <1>5, <2>3, <2>4, <2>5
<1>12. QED
  BY <1>8, <1>9, <1>10, <1>11, AccessEffect

LEMMA InitInv == Init => IInv
<1> SUFFICES ASSUME Init PROVE IInv
  OBVIOUS
<1>1. Size(Key) \in {2, 4}
  BY KeyBytes
<1>2. Shape
  <2>1. closes \in Closes[family] /\ family \in Families
    BY DEF Init
  <2>2. regs \in [Cell -> Byte]
    BY ContentsAssumption DEF Init
  <2>3. index \in Index /\ matched \in 0 .. Size(Key) - 1
    BY <1>1 DEF Init, Index, DevSel
  <2>4. << >> \in Seq(Byte)
    OBVIOUS
  <2>5. QED
    BY <2>1, <2>2, <2>3, <2>4 DEF Init, Shape, States
<1>3. Alone
  BY DEF Init, Alone
<1>4. \A p \in Run : Place(p)
  <2> SUFFICES ASSUME NEW p \in Run PROVE Place(p)
    OBVIOUS
  <2>1. pc[p] = 0 /\ got[p] = << >> /\ st[p] = "idle"
    BY DEF Init
  <2>2. Size(Program(tool[p])) \in Nat
    BY <1>2, ToolTypes, ProgramSize
  <2>3. QED
    BY <1>1, <2>1, <2>2 DEF Place
<1>5. \A p \in Run : InvOf(p)
  BY DEF Init, InvOf
<1>6. QED
  BY <1>2, <1>3, <1>4, <1>5 DEF IInv

(* Nothing of the chip or of the machine changes.                          *)
LEMMA StillProgress ==
  ASSUME UNCHANGED <<machine, pc, got, chip>>, NEW p \in Run, before'[p] = before[p]
  PROVE  Progress(tool[p], before[p], pc[p], got[p])'
           <=> Progress(tool[p], before[p], pc[p], got[p])
<1>1. /\ family' = family /\ closes' = closes /\ tool' = tool /\ pc' = pc /\ got' = got
      /\ regs' = regs /\ open' = open /\ matched' = matched /\ index' = index
  BY DEF machine, chip
<1>2. /\ Size(Key)' = Size(Key) /\ Reach(tool[p])' = Reach(tool[p])
      /\ Within(tool[p])' <=> Within(tool[p])
  BY <1>1, MachineStays DEF Size
<1>3. QED
  BY <1>1, <1>2 DEF Progress

LEMMA StillPlace ==
  ASSUME UNCHANGED <<machine, pc, got, chip>>, NEW p \in Run, Place(p),
         st'[p] = st[p] \/ (st[p] = "running" /\ st'[p] = "dead")
  PROVE  Place(p)'
<1>1. /\ family' = family /\ closes' = closes /\ tool' = tool /\ pc' = pc /\ got' = got
  BY DEF machine
<1>2. Size(Key)' = Size(Key) /\ Size(Program(tool[p]))' = Size(Program(tool[p]))
  BY <1>1, MachineStays DEF Size
<1>3. QED
  BY <1>1, <1>2 DEF Place

LEMMA StillShape ==
  ASSUME Shape, UNCHANGED <<machine, pc, got, chip>>,
         st' \in [Run -> States], before' \in [Run -> [Cell -> Byte]],
         overlapped' \in [Run -> BOOLEAN]
  PROVE  Shape'
<1>1. /\ family' = family /\ closes' = closes /\ tool' = tool /\ pc' = pc /\ got' = got
      /\ regs' = regs /\ open' = open /\ matched' = matched /\ index' = index
  BY DEF machine, chip
<1>2. Size(Key)' = Size(Key)
  BY <1>1, MachineStays DEF Size
<1>3. QED
  BY <1>1, <1>2 DEF Shape

LEMMA ShowsStays ==
  ASSUME closes' = closes, family' = family
  PROVE  \A t, b, o : Shows(t, b, o)' <=> Shows(t, b, o)
<1>1. \A t : Within(t)' <=> Within(t)
  BY MachineStays
<1>2. \A t, v : Seen(t, v)' = Seen(t, v)
  BY <1>1 DEF Seen
<1>3. QED
  BY <1>2, Zenon DEF Shows

LEMMA BeginInv ==
  ASSUME IInv, NEW p \in Run, Begin(p)
  PROVE  IInv'
<1>1. Shape /\ Alone /\ \A q \in Run : Place(q) /\ InvOf(q)
  BY DEF IInv
<1>2. /\ st[p] = "idle" /\ before' = [before EXCEPT ![p] = regs]
      /\ UNCHANGED <<machine, pc, got, chip>>
      /\ family' = family /\ closes' = closes /\ tool' = tool /\ pc' = pc /\ got' = got
      /\ regs' = regs
  BY DEF Begin, machine, chip
<1>3. \/ st' = [st EXCEPT ![p] = "running"] /\ Overlap(p)
      \/ st' = [st EXCEPT ![p] = "dead"] /\ overlapped' = overlapped
  BY DEF Begin
<1>4. /\ st' \in [Run -> States] /\ overlapped' \in [Run -> BOOLEAN]
      /\ \A q \in Run : q # p => st'[q] = st[q]
      /\ \A q \in Run : overlapped[q] => overlapped'[q]
      /\ st'[p] = "running" =>
           \A q \in Run : q # p /\ st[q] = "running" => overlapped'[q] /\ overlapped'[p]
  BY <1>1, <1>3 DEF Shape, States, Overlap
<1>5. before' \in [Run -> [Cell -> Byte]]
  BY <1>1, <1>2 DEF Shape
<1>6. Shape'
  BY <1>1, <1>2, <1>4, <1>5, StillShape
<1>7. Alone'
  BY <1>1, <1>4 DEF Alone
<1>8. ASSUME NEW q \in Run PROVE Place(q)'
  <2>1. CASE q # p
    BY <1>1, <1>2, <1>4, <2>1, StillPlace
  <2>2. CASE q = p
    <3>1. pc[p] = 0 /\ got[p] = << >>
      BY <1>1, <1>2 DEF Place
    <3>2. (pc[p])' = 0 /\ (got[p])' = << >> /\ tool'[p] = tool[p]
      BY <1>2, <3>1
    <3>3. Size(Program(tool[p]))' \in Nat \ {0} /\ Size(Key)' \in Nat
      BY <1>1, <1>2, <1>6, ToolTypes, ProgramSize, MachineStays, KeyBytes DEF Size
    <3>4. st'[p] # "idle"
      BY <1>1, <1>3 DEF Shape
    <3>5. QED
      BY <2>2, <3>2, <3>3, <3>4 DEF Place
  <2>3. QED
    BY <2>1, <2>2
<1>9. ASSUME NEW q \in Run PROVE InvOf(q)'
  <2>1. CASE q # p
    <3>1. before'[q] = before[q] /\ st'[q] = st[q] /\ (overlapped[q] => overlapped'[q])
          /\ tool'[q] = tool[q] /\ got'[q] = got[q]
      BY <1>1, <1>2, <1>4, <2>1 DEF Shape
    <3>2. Progress(tool[q], before[q], pc[q], got[q])'
            <=> Progress(tool[q], before[q], pc[q], got[q])
      BY <1>2, <3>1, StillProgress
    <3>3. Shows(tool[q], before[q], got[q])' <=> Shows(tool[q], before[q], got[q])
      BY <1>2, <3>1, ShowsStays
    <3>4. QED
      BY <1>1, <3>1, <3>2, <3>3 DEF InvOf
  <2>2. CASE q = p
    <3>1. pc[p] = 0 /\ got[p] = << >>
      BY <1>1, <1>2 DEF Place
    <3>2. before'[p] = regs /\ regs' = regs /\ (pc[p])' = 0 /\ (got[p])' = << >>
      BY <1>1, <1>2, <3>1 DEF Shape
    <3>3. Progress(tool[p], before[p], pc[p], got[p])'
      <4> DEFINE t == tool[p]  u == Reach(tool[p])'  n == Size(Key)'
      <4>1. t \in CommandLine /\ n \in {2, 4} /\ (tool[p])' = t
        BY <1>1, <1>2, ToolTypes, KeyBytes, MachineStays DEF Size
      <4>2. PairsDone(t, n, 0) = 0
        BY <4>1, DoneEnds
      <4>3. After(t, u, regs, PairsDone(t, n, 0), regs) /\ << >> = Read(t, u, regs, PairsDone(t, n, 0))
        BY <4>2, AfterStart DEF Read
      <4> HIDE DEF t, u, n
      <4>4. QED
        BY <3>2, <4>1, <4>3 DEF Progress, t, u, n
    <3>4. st'[p] # "done"
      BY <1>1, <1>3 DEF Shape
    <3>5. QED
      BY <2>2, <3>3, <3>4 DEF InvOf
  <2>3. QED
    BY <2>1, <2>2
<1>10. QED
  BY <1>6, <1>7, <1>8, <1>9 DEF IInv

LEMMA KillInv ==
  ASSUME IInv, NEW p \in Run, Kill(p)
  PROVE  IInv'
<1>1. Shape /\ Alone /\ \A q \in Run : Place(q) /\ InvOf(q)
  BY DEF IInv
<1>2. /\ st[p] = "running" /\ st' = [st EXCEPT ![p] = "dead"]
      /\ UNCHANGED <<machine, pc, got, chip>>
      /\ family' = family /\ closes' = closes /\ tool' = tool /\ got' = got
      /\ before' = before /\ overlapped' = overlapped
  BY DEF Kill, machine
<1>3. /\ st' \in [Run -> States] /\ st'[p] = "dead"
      /\ \A q \in Run : q # p => st'[q] = st[q]
  BY <1>1, <1>2 DEF Shape, States
<1>4. Shape'
  BY <1>1, <1>2, <1>3, StillShape DEF Shape
<1>5. Alone'
  BY <1>1, <1>2, <1>3 DEF Alone
<1>6. ASSUME NEW q \in Run PROVE Place(q)'
  BY <1>1, <1>2, <1>3, StillPlace
<1>7. ASSUME NEW q \in Run PROVE InvOf(q)'
  <2>1. Progress(tool[q], before[q], pc[q], got[q])'
          <=> Progress(tool[q], before[q], pc[q], got[q])
    BY <1>2, StillProgress
  <2>2. Shows(tool[q], before[q], got[q])' <=> Shows(tool[q], before[q], got[q])
    BY <1>2, ShowsStays
  <2>3. QED
    BY <1>1, <1>2, <1>3, <2>1, <2>2 DEF InvOf
<1>8. QED
  BY <1>4, <1>5, <1>6, <1>7 DEF IInv

LEMMA AccessInv ==
  ASSUME IInv, NEW p \in Run, Access(p)
  PROVE  IInv'
<1>1. Shape /\ Alone /\ \A q \in Run : Place(q) /\ InvOf(q)
  BY DEF IInv
<1>2. /\ st[p] = "running" /\ pc' = [pc EXCEPT ![p] = pc[p] + 1]
      /\ st' = IF pc[p] + 1 = Size(Program(tool[p])) THEN [st EXCEPT ![p] = "done"] ELSE st
      /\ family' = family /\ closes' = closes /\ tool' = tool /\ before' = before
      /\ overlapped' = overlapped
  BY <1>1, AccessEffect
<1>3. /\ Shape' /\ Place(p)'
      /\ \A q \in Run : got'[q] = got[q] \/ q = p
  BY <1>1, AccessShape
<1>4. /\ st'[p] \in {"running", "done"}
      /\ \A q \in Run : q # p => st'[q] = st[q] /\ pc'[q] = pc[q]
  BY <1>1, <1>2 DEF Shape
<1>5. Alone'
  BY <1>1, <1>2, <1>4 DEF Alone
<1>6. ASSUME NEW q \in Run PROVE Place(q)'
  <2>1. CASE q = p
    BY <1>3, <2>1
  <2>2. CASE q # p
    <3>1. /\ Size(Key)' = Size(Key) /\ Size(Program(tool[q]))' = Size(Program(tool[q]))
          /\ got'[q] = got[q]
      BY <1>2, <1>3, <2>2, MachineStays DEF Size
    <3>2. QED
      BY <1>1, <1>2, <1>4, <2>2, <3>1 DEF Place
  <2>3. QED
    BY <2>1, <2>2
<1>7. ASSUME NEW q \in Run PROVE InvOf(q)'
  <2>1. CASE q = p
    <3> SUFFICES ASSUME ~overlapped[p] PROVE InvOf(p)'
      BY <1>2, <2>1 DEF InvOf
    <3>1. Progress(tool[p], before[p], pc[p], got[p])'
      BY <1>1, <1>2, AccessProgress DEF InvOf
    <3>2. ASSUME st'[p] = "done"
          PROVE  Shows(tool[p], before[p], got[p])'
      <4> DEFINE t == tool[p]  k == pc[p] + 1  n == Size(Key)
      <4>1. k = Size(Program(t)) /\ t \in CommandLine /\ n \in Nat /\ k \in Nat
        BY <1>1, <1>2, <3>2, ToolTypes, KeyBytes DEF Shape
      <4>2. k >= n + 2 * Pairs(t)
        <5>1. Size(Program(t)) = n + 2 * Pairs(t) + Size(CfgExit(t))
          BY <4>1, ProgramOps
        <5>2. Size(CfgExit(t)) \in {1, 2} /\ Pairs(t) \in Nat
          BY ExitOps DEF Pairs
        <5> HIDE DEF k, n, t
        <5>3. QED
          BY <4>1, <5>1, <5>2
      <4>3. PairsDone(t, n, k) = Pairs(t)
        <5> HIDE DEF k, n, t
        <5>1. QED
          BY <4>1, <4>2, DoneEnds
      <4>4. /\ (tool[p])' = t /\ (pc[p])' = k /\ (before[p])' = before[p]
            /\ Size(Key)' = n /\ Reach(t)' = Reach(t)
        BY <1>1, <1>2, MachineStays DEF Size, Shape
      <4>5. got'[p] = Read(t, Reach(t), before[p], Pairs(t))
        BY <3>1, <4>3, <4>4 DEF Progress
      <4>6. Shows(t, before[p], got'[p])
        BY <1>1, <4>1, <4>5, ShowsAfter DEF Shape
      <4>7. QED
        BY <1>2, <4>4, <4>6, ShowsStays
    <3>3. QED
      BY <1>2, <3>1, <3>2 DEF InvOf
  <2>2. CASE q # p
    <3>1. overlapped[q] \/ st[q] # "running"
      BY <1>1, <1>2, <2>2 DEF Alone
    <3>2. st'[q] = st[q] /\ got'[q] = got[q]
      BY <1>3, <1>4, <2>2
    <3>3. Shows(tool[q], before[q], got[q])' <=> Shows(tool[q], before[q], got[q])
      BY <1>2, <3>2, ShowsStays
    <3>4. QED
      BY <1>1, <1>2, <3>1, <3>2, <3>3 DEF InvOf
  <2>3. QED
    BY <2>1, <2>2
<1>8. QED
  BY <1>3, <1>5, <1>6, <1>7 DEF IInv

LEMMA StutterInv ==
  ASSUME IInv, UNCHANGED vars
  PROVE  IInv'
<1>1. /\ UNCHANGED <<machine, pc, got, chip>> /\ st' = st /\ before' = before
      /\ overlapped' = overlapped /\ family' = family /\ closes' = closes /\ tool' = tool
      /\ got' = got
  BY DEF vars, machine
<1>2. Shape' /\ Alone'
  BY <1>1, StillShape DEF IInv, Shape, Alone
<1>3. \A q \in Run : Place(q)'
  BY <1>1, StillPlace DEF IInv
<1>4. ASSUME NEW q \in Run PROVE InvOf(q)'
  <2>1. Progress(tool[q], before[q], pc[q], got[q])'
          <=> Progress(tool[q], before[q], pc[q], got[q])
    BY <1>1, StillProgress
  <2>2. Shows(tool[q], before[q], got[q])' <=> Shows(tool[q], before[q], got[q])
    BY <1>1, ShowsStays
  <2>3. QED
    BY <1>1, <2>1, <2>2 DEF IInv, InvOf
<1>5. QED
  BY <1>2, <1>3, <1>4 DEF IInv

LEMMA StepInv == IInv /\ [Next]_vars => IInv'
  BY AccessInv, BeginInv, KillInv, StutterInv DEF Next

LEMMA Always == Spec => []IInv
  BY InitInv, StepInv, PTL DEF Spec

-----------------------------------------------------------------------------
(* The last step of a tool.                                                *)
LEMMA LastAccess ==
  ASSUME IInv, [Next]_vars, NEW p \in Run, st[p] = "running", st'[p] = "done"
  PROVE  Access(p) /\ pc[p] + 1 = Size(Program(tool[p]))
<1>1. Shape /\ st \in [Run -> States]
  BY DEF IInv, Shape
<1>2. \A q \in Run : ~Begin(q) /\ ~Kill(q)
  <2> SUFFICES ASSUME NEW q \in Run, Begin(q) \/ Kill(q) PROVE FALSE
    OBVIOUS
  <2>1. \/ st[q] = "idle" /\ st' = [st EXCEPT ![q] = "running"]
        \/ st' = [st EXCEPT ![q] = "dead"]
    BY DEF Begin, Kill
  <2>2. QED
    BY <1>1, <2>1
<1>3. PICK q \in Run : Access(q)
  BY <1>2 DEF Next, vars
<1>4. st' = IF pc[q] + 1 = Size(Program(tool[q])) THEN [st EXCEPT ![q] = "done"] ELSE st
  BY <1>3 DEF Access, Size
<1>5. QED
  BY <1>1, <1>3, <1>4

LEMMA LastIsExit ==
  ASSUME Shape, NEW p \in Run, Place(p), Access(p), pc[p] + 1 = Size(Program(tool[p]))
  PROVE  pc[p] >= Size(Key) + 2 * Pairs(tool[p]) /\ IndexPort(ExitByte)
<1> DEFINE t == tool[p]  k == pc[p]  n == Size(Key)  m == Pairs(t)  x == Size(CfgExit(t))
<1>1. t \in CommandLine /\ k \in Nat /\ n \in {2, 4} /\ m \in {2, 4, 9, 10} /\ x \in {1, 2}
  BY ToolTypes, KeyBytes, ExitOps DEF Shape, Pairs
<1>2. k + 1 = n + 2 * m + x
  BY <1>1, ProgramOps
<1>3. k >= n + 2 * m
  <2> HIDE DEF t, k, n, m, x
  <2>1. QED
    BY <1>1, <1>2
<1>4. /\ ~(k < n)
      /\ \A j \in 0 .. m - 1 : k # n + 2 * j
      /\ \A j \in 0 .. m - 1 : k # n + 2 * j + 1
  <2> HIDE DEF t, k, n, m, x
  <2>1. QED
    BY <1>1, <1>3
<1>5. IndexPort(ExitByte)
  BY <1>4, AccessEffect
<1>6. QED
  BY <1>3, <1>5

-----------------------------------------------------------------------------
(* Whatever tools are run, in whatever order, ended anywhere: every        *)
(* variable keeps its type, and a program stays within its accesses.       *)
THEOREM TypeAlways == Spec => []TypeOK
<1>1. IInv => TypeOK
  <2> SUFFICES ASSUME IInv PROVE TypeOK
    OBVIOUS
  <2>1. Shape /\ \A p \in Run : Place(p)
    BY DEF IInv
  <2>2. \A p \in Run : pc[p] \in 0 .. Len(Program(tool[p]))
    <3> SUFFICES ASSUME NEW p \in Run PROVE pc[p] \in 0 .. Len(Program(tool[p]))
      OBVIOUS
    <3>1. Size(Program(tool[p])) \in Nat
      BY <2>1, ToolTypes, ProgramSize
    <3>2. QED
      BY <2>1, <3>1 DEF Shape, Place, Size
  <2>3. QED
    BY <2>1, <2>2 DEF Shape, States, TypeOK, Size
<1>2. QED
  BY <1>1, Always, PTL

(* A tool that nobody disturbs prints what it is to print, of the register *)
(* and the device of its command line.                                     *)
THEOREM PrintsRightAlways == Spec => []PrintsRight
<1>1. IInv => PrintsRight
  BY DEF IInv, InvOf, PrintsRight
<1>2. QED
  BY <1>1, Always, PTL

(* It touches only the registers that it is for, also when the chip was    *)
(* left in the middle of something by the one before it.                   *)
THEOREM OnlyWantedAlways == Spec => OnlyWanted
<1> DEFINE By(c) == \E p \in Run : /\ st[p] = "running"
                                   /\ overlapped[p] \/ c \in Wanted(tool[p], before[p])
<1>1. IInv /\ [Next]_vars => \A c \in Cell : regs'[c] # regs[c] => By(c)
  <2> SUFFICES ASSUME IInv, [Next]_vars, NEW c \in Cell, regs'[c] # regs[c] PROVE By(c)
    OBVIOUS
  <2>1. PICK p \in Run : Access(p)
    BY DEF Next, Begin, Kill, vars, chip
  <2>2. Shape /\ Place(p) /\ InvOf(p) /\ st[p] = "running"
    BY <2>1 DEF IInv, Access
  <2>3. CASE overlapped[p]
    BY <2>2, <2>3
  <2>4. CASE ~overlapped[p]
    <3> DEFINE t == tool[p]  b == before[p]  u == Reach(t)
               j == PairsDone(t, Size(Key), pc[p])  i == PairsDone(t, Size(Key), pc[p] + 1)
    <3>1. Progress(t, b, pc[p], got[p]) /\ Progress(tool[p], before[p], pc[p], got[p])'
      BY <2>1, <2>2, <2>4, AccessProgress DEF InvOf
    <3>2. /\ family' = family /\ closes' = closes /\ (tool[p])' = t /\ (before[p])' = b
          /\ (pc[p])' = pc[p] + 1
      BY <2>1, <2>2, AccessEffect DEF Shape
    <3>3. Reach(t)' = u /\ Size(Key)' = Size(Key)
      BY <3>2, MachineStays DEF Size
    <3>4. After(t, u, b, j, regs) /\ After(t, u, b, i, regs')
      BY <3>1, <3>2, <3>3 DEF Progress
    <3>5. t \in CommandLine /\ pc[p] \in Nat /\ pc[p] + 1 \in Nat /\ Size(Key) \in Nat
      BY <2>2, ToolTypes, KeyBytes DEF Shape
    <3>6. j \in 0 .. Pairs(t) /\ i \in 0 .. Pairs(t)
      BY <3>5, DoneEnds
    <3> HIDE DEF t, b, u, j, i
    <3>7. ASSUME c \notin Wanted(t, b) PROVE FALSE
      <4>1. \A x \in 0 .. Pairs(t) - 1 : ~StoresIn(t, u, x, c)
        BY <3>5, <3>7, StoresWanted DEF u
      <4>2. /\ j \in Nat /\ i \in Nat
            /\ \A x \in 0 .. j - 1 : ~StoresIn(t, u, x, c)
            /\ \A x \in 0 .. i - 1 : ~StoresIn(t, u, x, c)
        BY <3>6, <4>1 DEF Pairs
      <4>3. regs[c] = b[c] /\ regs'[c] = b[c]
        BY <3>4, <4>2, AfterUntouched
      <4>4. QED
        BY <4>3
    <3>8. QED
      BY <2>2, <3>7 DEF t, b
  <2>5. QED
    BY <2>3, <2>4
<1>2. QED
  BY <1>1, Always, PTL DEF Spec, OnlyWanted

(* When it comes to its end it has done all it is for, and has changed     *)
(* nothing else.                                                           *)
THEOREM AccomplishedAlways == Spec => Accomplished
<1> DEFINE A(p) == /\ \A d \in Duty(tool[p], before[p]) : regs'[d[1]] = d[2]
                   /\ \A c \in Cell \ Wanted(tool[p], before[p]) : regs'[c] = before[p][c]
<1>1. IInv /\ [Next]_vars => \A p \in Run : EndsAlone(p) => A(p)
  <2> SUFFICES ASSUME IInv, [Next]_vars, NEW p \in Run, EndsAlone(p) PROVE A(p)
    OBVIOUS
  <2> DEFINE t == tool[p]  b == before[p]  k == pc[p]  n == Size(Key)
  <2>1. Shape /\ Place(p) /\ InvOf(p) /\ st[p] = "running" /\ ~overlapped[p]
    BY DEF IInv, EndsAlone
  <2>2. Access(p) /\ k + 1 = Size(Program(t))
    BY LastAccess DEF EndsAlone
  <2>3. Progress(tool[p], before[p], pc[p], got[p])'
    BY <2>1, <2>2, AccessProgress DEF InvOf
  <2>4. /\ family' = family /\ closes' = closes /\ (tool[p])' = t /\ (before[p])' = b
        /\ (pc[p])' = k + 1
    BY <2>1, <2>2, AccessEffect DEF Shape
  <2>5. Reach(t)' = Reach(t) /\ Size(Key)' = n
    BY <2>4, MachineStays DEF Size
  <2>6. After(t, Reach(t), b, PairsDone(t, n, k + 1), regs')
    BY <2>3, <2>4, <2>5 DEF Progress
  <2>7. k >= n + 2 * Pairs(t)
    BY <2>1, <2>2, LastIsExit
  <2>8. PairsDone(t, n, k + 1) = Pairs(t)
    <3>1. t \in CommandLine /\ n \in Nat /\ k + 1 \in Nat /\ Pairs(t) \in Nat /\ k \in Nat
      BY <2>1, ToolTypes, KeyBytes DEF Shape, Pairs
    <3> HIDE DEF t, n, k
    <3>2. k + 1 >= n + 2 * Pairs(t)
      BY <2>7, <3>1
    <3>3. QED
      BY <3>1, <3>2, DoneEnds
  <2>9. t \in CommandLine /\ After(t, Reach(t), b, Pairs(t), regs')
    BY <2>1, <2>6, <2>8, ToolTypes
  <2>10. QED
    BY <2>9, AllDone
<1>2. QED
  BY <1>1, Always, PTL DEF Spec, Accomplished

(* It leaves the chip out of configuration mode, if the exit sequence is   *)
(* one that the chip knows.                                                *)
THEOREM RelockedAlways == Spec => Relocked
<1>1. IInv /\ [Next]_vars => \A p \in Run : closes /\ EndsAlone(p) => ~open'
  <2> SUFFICES ASSUME IInv, [Next]_vars, NEW p \in Run, closes, EndsAlone(p) PROVE ~open'
    OBVIOUS
  <2>1. Shape /\ Place(p)
    BY DEF IInv
  <2>2. IndexPort(ExitByte)
    BY <2>1, LastAccess, LastIsExit DEF EndsAlone
  <2>3. Matching(ExitByte) = 0 /\ Size(Key) # 0
    BY <2>1, KeyMatching, KeyBytes DEF Shape
  <2>4. QED
    BY <2>2, <2>3 DEF IndexPort, Size
<1>2. QED
  BY <1>1, Always, PTL DEF Spec, Relocked

-----------------------------------------------------------------------------
LEMMA InitWhole == Init => WholeInv
  BY DEF Init, WholeInv, Whole

LEMMA StepWhole ==
  ASSUME IInv, WholeInv, [Next]_vars
  PROVE  WholeInv'
<1> SUFFICES ASSUME family' = "winbond", \A p \in Run : ~overlapped'[p], NEW l \in Ldn
             PROVE  /\ Whole(l, regs')
                    /\ \A p \in Run : st'[p] = "running" => Whole(l, before'[p])
  BY DEF WholeInv
<1>1. Shape /\ family' = family
  BY DEF IInv, Next, Begin, Access, Kill, machine, vars
<1>2. CASE UNCHANGED vars
  <2>1. UNCHANGED <<overlapped, regs, st, before>>
    BY <1>2 DEF vars, chip
  <2>2. QED
    BY <1>1, <2>1 DEF WholeInv
<1>3. ASSUME NEW p \in Run, Begin(p)
      PROVE  /\ Whole(l, regs')
             /\ \A q \in Run : st'[q] = "running" => Whole(l, before'[q])
  <2>1. /\ before' = [before EXCEPT ![p] = regs] /\ regs' = regs
        /\ \A q \in Run : overlapped[q] => overlapped'[q]
        /\ \A q \in Run : q # p => st'[q] = st[q]
    BY <1>1, <1>3 DEF Begin, chip, Overlap, Shape
  <2>2. Whole(l, regs) /\ \A q \in Run : st[q] = "running" => Whole(l, before[q])
    BY <1>1, <2>1 DEF WholeInv
  <2>3. QED
    BY <1>1, <2>1, <2>2 DEF Shape
<1>4. ASSUME NEW p \in Run, Kill(p)
      PROVE  /\ Whole(l, regs')
             /\ \A q \in Run : st'[q] = "running" => Whole(l, before'[q])
  <2>1. /\ before' = before /\ regs' = regs /\ overlapped' = overlapped
        /\ \A q \in Run : st'[q] = "running" => st[q] = "running"
    BY <1>1, <1>4 DEF Kill, chip, Shape
  <2>2. QED
    BY <1>1, <2>1 DEF WholeInv
<1>5. ASSUME NEW p \in Run, Access(p)
      PROVE  /\ Whole(l, regs')
             /\ \A q \in Run : st'[q] = "running" => Whole(l, before'[q])
  <2> DEFINE t == tool[p]  b == before[p]  k == pc[p]  n == Size(Key)
             j == PairsDone(t, n, k + 1)
  <2>1. Place(p) /\ InvOf(p)
    BY DEF IInv
  <2>2. /\ st[p] = "running" /\ pc' = [pc EXCEPT ![p] = k + 1]
        /\ st' = IF k + 1 = Size(Program(t)) THEN [st EXCEPT ![p] = "done"] ELSE st
        /\ family' = family /\ closes' = closes /\ tool' = tool /\ before' = before
        /\ overlapped' = overlapped
    BY <1>1, <1>5, <2>1, AccessEffect
  <2>3. Progress(tool[p], before[p], pc[p], got[p])'
    BY <1>1, <1>5, <2>1, <2>2, AccessProgress DEF InvOf
  <2>4. /\ (tool[p])' = t /\ (before[p])' = b /\ (pc[p])' = k + 1
        /\ Reach(t)' = Reach(t) /\ Size(Key)' = n
    BY <1>1, <2>2, MachineStays DEF Size, Shape
  <2>5. After(t, Reach(t), b, j, regs')
    BY <2>3, <2>4 DEF Progress
  <2>6. /\ t \in CommandLine /\ t.name \in {"superio", "superio2"}
        /\ k + 1 \in Nat /\ n \in Nat
    BY <1>1, ToolTypes, KeyBytes DEF ToolsFor, Shape
  <2>7. j \in 0 .. Pairs(t)
    BY <2>6, DoneEnds
  <2>8. \A q \in Run : st[q] = "running" => Whole(l, before[q])
    BY <1>1, <2>2 DEF WholeInv
  <2>9. Whole(l, b)
    BY <2>2, <2>8
  <2> HIDE DEF t, b, k, n, j
  <2>10. Whole(l, regs')
    BY <2>5, <2>6, <2>7, <2>9, WholeAfter
  <2>11. \A q \in Run : st'[q] = "running" => st[q] = "running"
    BY <1>1, <2>2 DEF Shape
  <2>12. QED
    BY <2>2, <2>8, <2>10, <2>11
<1>6. QED
  BY <1>2, <1>3, <1>4, <1>5 DEF Next

(* As long as no two tools overlap, no device of Winbond's chip is enabled *)
(* at an address of which one byte is old and one is new, wherever         *)
(* superio2 is ended, and however often it is run again.                   *)
THEOREM NeverHalfMovedAlways == Spec => []NeverHalfMoved
<1>1. WholeInv => NeverHalfMoved
  BY DEF WholeInv, Whole, NeverHalfMoved
<1>2. Spec => []WholeInv
  BY InitWhole, StepWhole, Always, PTL DEF Spec
<1>3. QED
  BY <1>1, <1>2, PTL
=============================================================================
