-------------------------- MODULE HTU21AnswerProofs --------------------------
(***************************************************************************)
(* Proofs about HTU21Answer and its parts, for any words the sensor may    *)
(* send, any small errors of the bus, and any width of a long.             *)
(***************************************************************************)
EXTENDS HTU21Answer, FiniteSetTheorems, WellFoundedInduction, TLAPS

-----------------------------------------------------------------------------
(* The recursive function XPow: that there is a function with its defining *)
(* equation is shown by a table of one, by the doubling that is its step.  *)

Reduced(a) ==
  LET up == Shift(a, 1)
  IN  IF 8 \in up THEN Xor(up \ {8}, {0, 4, 5}) ELSE up

Table(k) ==
  CASE k = 0 -> {0} [] k = 1 -> {1}
    [] k = 2 -> {2} [] k = 3 -> {3}
    [] k = 4 -> {4} [] k = 5 -> {5}
    [] k = 6 -> {6} [] k = 7 -> {7}
    [] k = 8 -> {0, 4, 5} [] k = 9 -> {1, 5, 6}
    [] k = 10 -> {2, 6, 7} [] k = 11 -> {0, 3, 4, 5, 7}
    [] k = 12 -> {0, 1, 6} [] k = 13 -> {1, 2, 7}
    [] k = 14 -> {0, 2, 3, 4, 5} [] k = 15 -> {1, 3, 4, 5, 6}
    [] k = 16 -> {2, 4, 5, 6, 7} [] k = 17 -> {0, 3, 4, 6, 7}
    [] k = 18 -> {0, 1, 7} [] k = 19 -> {0, 1, 2, 4, 5}
    [] k = 20 -> {1, 2, 3, 5, 6} [] k = 21 -> {2, 3, 4, 6, 7}
    [] k = 22 -> {0, 3, 7} [] k = 23 -> {0, 1, 5}
    [] k = 24 -> {1, 2, 6} [] k = 25 -> {2, 3, 7}
    [] k = 26 -> {0, 3, 5} [] k = 27 -> {1, 4, 6}
    [] k = 28 -> {2, 5, 7} [] k = 29 -> {0, 3, 4, 5, 6}
    [] k = 30 -> {1, 4, 5, 6, 7} [] k = 31 -> {0, 2, 4, 6, 7}

LEMMA TableReduced == \A k \in 8 .. 31 : Table(k) = Reduced(Table(k - 1))
<1>8. Reduced(Table(7)) = Table(8)
  BY DEF Table, Reduced, Shift, Xor
<1>9. Reduced(Table(8)) = Table(9)
  BY DEF Table, Reduced, Shift, Xor
<1>10. Reduced(Table(9)) = Table(10)
  BY DEF Table, Reduced, Shift, Xor
<1>11. Reduced(Table(10)) = Table(11)
  BY DEF Table, Reduced, Shift, Xor
<1>12. Reduced(Table(11)) = Table(12)
  BY DEF Table, Reduced, Shift, Xor
<1>13. Reduced(Table(12)) = Table(13)
  BY DEF Table, Reduced, Shift, Xor
<1>14. Reduced(Table(13)) = Table(14)
  BY DEF Table, Reduced, Shift, Xor
<1>15. Reduced(Table(14)) = Table(15)
  BY DEF Table, Reduced, Shift, Xor
<1>16. Reduced(Table(15)) = Table(16)
  BY DEF Table, Reduced, Shift, Xor
<1>17. Reduced(Table(16)) = Table(17)
  BY DEF Table, Reduced, Shift, Xor
<1>18. Reduced(Table(17)) = Table(18)
  BY DEF Table, Reduced, Shift, Xor
<1>19. Reduced(Table(18)) = Table(19)
  BY DEF Table, Reduced, Shift, Xor
<1>20. Reduced(Table(19)) = Table(20)
  BY DEF Table, Reduced, Shift, Xor
<1>21. Reduced(Table(20)) = Table(21)
  BY DEF Table, Reduced, Shift, Xor
<1>22. Reduced(Table(21)) = Table(22)
  BY DEF Table, Reduced, Shift, Xor
<1>23. Reduced(Table(22)) = Table(23)
  BY DEF Table, Reduced, Shift, Xor
<1>24. Reduced(Table(23)) = Table(24)
  BY DEF Table, Reduced, Shift, Xor
<1>25. Reduced(Table(24)) = Table(25)
  BY DEF Table, Reduced, Shift, Xor
<1>26. Reduced(Table(25)) = Table(26)
  BY DEF Table, Reduced, Shift, Xor
<1>27. Reduced(Table(26)) = Table(27)
  BY DEF Table, Reduced, Shift, Xor
<1>28. Reduced(Table(27)) = Table(28)
  BY DEF Table, Reduced, Shift, Xor
<1>29. Reduced(Table(28)) = Table(29)
  BY DEF Table, Reduced, Shift, Xor
<1>30. Reduced(Table(29)) = Table(30)
  BY DEF Table, Reduced, Shift, Xor
<1>31. Reduced(Table(30)) = Table(31)
  BY DEF Table, Reduced, Shift, Xor
<1>32. QED
  BY <1>8, <1>9, <1>10, <1>11, <1>12, <1>13, <1>14, <1>15,
     <1>16, <1>17, <1>18, <1>19, <1>20, <1>21, <1>22, <1>23,
     <1>24, <1>25, <1>26, <1>27, <1>28, <1>29, <1>30, <1>31

LEMMA TableLow == \A k \in 0 .. 7 : Table(k) = {k}
BY DEF Table

LEMMA PowersRecursive ==
  /\ \A k \in 0 .. 7 : Powers[k] = {k}
  /\ \A k \in 8 .. 31 : Powers[k] = Reduced(Powers[k - 1])
<1> DEFINE Body(f, k) == IF k < 8 THEN {k} ELSE Reduced(f[k - 1])
           t == [k \in 0 .. 31 |-> Table(k)]
<1>1. t = [k \in 0 .. 31 |-> Body(t, k)]
  <2>1. \A k \in 0 .. 31 : Table(k) = Body(t, k)
    BY TableReduced, TableLow
  <2>2. QED
    BY <2>1
<1>2. XPow = CHOOSE f : f = [k \in 0 .. 31 |-> Body(f, k)]
  BY DEF XPow, Reduced
<1> HIDE DEF t, Body
<1>3. XPow = [k \in 0 .. 31 |-> Body(XPow, k)]
  BY <1>1, <1>2
<1>4. \A k \in 0 .. 31 : Powers[k] = Body(XPow, k) /\ Powers[k] = XPow[k]
  BY <1>3 DEF Powers
<1>5. QED
  BY <1>4 DEF Body

(* Induction over an interval, for a set: what is proved holds of 0 and,   *)
(* with a number below m, of the next one.                                 *)
LEMMA Climb ==
  ASSUME NEW m \in Nat, NEW S, 0 \in S, \A n \in 0 .. m - 1 : n \in S => n + 1 \in S
  PROVE  \A n \in 0 .. m : n \in S
<1> DEFINE T == {n \in 0 .. m : n \notin S}
           R == {ss \in Nat \X Nat : ss[1] < ss[2]}
<1> SUFFICES ASSUME T # {} PROVE FALSE
  OBVIOUS
<1>1. IsWellFoundedOn(R, Nat)
  BY NatLessThanWellFounded DEF OpToRel
<1>2. PICK x \in T : \A y \in T : ~(<<y, x>> \in R)
  <2>1. T \subseteq Nat
    OBVIOUS
  <2> HIDE DEF T, R
  <2>2. QED
    BY <1>1, <2>1, WFMin
<1>3. x # 0 /\ x \in Nat /\ x - 1 \in 0 .. m - 1
  OBVIOUS
<1>4. x - 1 \in S
  <2> SUFFICES ASSUME x - 1 \notin S PROVE FALSE
    OBVIOUS
  <2>1. x - 1 \in T /\ x \in Nat /\ x - 1 \in Nat /\ x - 1 < x
    BY <1>3
  <2>2. <<x - 1, x>> \in R
    BY <2>1
  <2>3. QED
    BY <1>2, <2>1, <2>2
<1>5. QED
  BY <1>3, <1>4
-----------------------------------------------------------------------------
(* Residues as a linear function of words.                                 *)

Bytes == SUBSET (0 .. 7)
Upto(n) == SUBSET (0 .. n)

LEMMA ShiftBits ==
  ASSUME NEW a \in SUBSET Int, NEW n \in Int
  PROVE  \A x : x \in Shift(a, n) <=> x \in Int /\ x - n \in a
BY DEF Shift

LEMMA ShiftTwice ==
  ASSUME NEW a \in SUBSET Int, NEW n \in Int, NEW p \in Int
  PROVE  Shift(Shift(a, n), p) = Shift(a, n + p)
<1>1. Shift(a, n) \in SUBSET Int
  BY ShiftBits
<1>2. \A x : x \in Shift(Shift(a, n), p) <=> x \in Int /\ x - p \in Int /\ (x - p) - n \in a
  BY <1>1, ShiftBits
<1>3. \A x : x \in Shift(a, n + p) <=> x \in Int /\ x - (n + p) \in a
  BY ShiftBits
<1>4. \A x \in Int : (x - p) - n = x - (n + p) /\ x - p \in Int
  OBVIOUS
<1>5. QED
  BY <1>2, <1>3, <1>4

LEMMA ReducedBits ==
  ASSUME NEW r \in Bytes
  PROVE  /\ Reduced(r) \in Bytes
         /\ \A k \in 0 .. 7 :
              k \in Reduced(r) <=> ~((k - 1 \in r) <=> (7 \in r /\ k \in {0, 4, 5}))
<1>1. \A x : x \in Shift(r, 1) <=> x \in Int /\ x - 1 \in r
  BY ShiftBits DEF Bytes
<1>2. \A x \in r : x \in Int /\ 0 <= x /\ x <= 7
  BY DEF Bytes
<1>3. 8 \in Shift(r, 1) <=> 7 \in r
  BY <1>1
<1>4. CASE 7 \in r
  <2>1. Reduced(r) = Xor(Shift(r, 1) \ {8}, {0, 4, 5})
    BY <1>3, <1>4 DEF Reduced
  <2>2. QED
    BY <1>1, <1>2, <1>4, <2>1 DEF Xor, Bytes
<1>5. CASE 7 \notin r
  <2>1. Reduced(r) = Shift(r, 1)
    BY <1>3, <1>5 DEF Reduced
  <2>2. QED
    BY <1>1, <1>2, <1>5, <2>1 DEF Bytes
<1>6. QED
  BY <1>4, <1>5

LEMMA ReducedInjective ==
  ASSUME NEW r \in Bytes, NEW s \in Bytes, Reduced(r) = Reduced(s)
  PROVE  r = s
<1>1. \A k \in 0 .. 7 :
        ~((k - 1 \in r) <=> (7 \in r /\ k \in {0, 4, 5}))
          <=> ~((k - 1 \in s) <=> (7 \in s /\ k \in {0, 4, 5}))
  BY ReducedBits
<1>2. -1 \notin r /\ -1 \notin s
  BY DEF Bytes
<1>3. 7 \in r <=> 7 \in s
  BY <1>1, <1>2
<1>4. \A k \in 0 .. 6 : k \in r <=> k \in s
  <2> TAKE k \in 0 .. 6
  <2>1. k + 1 \in 0 .. 7 /\ (k + 1) - 1 = k
    OBVIOUS
  <2>2. QED
    BY <1>1, <1>3, <2>1
<1>5. \A k \in 0 .. 7 : k \in r <=> k \in s
  BY <1>3, <1>4
<1>6. QED
  BY <1>5 DEF Bytes

LEMMA PowersStep ==
  /\ Powers[0] = {0}
  /\ \A k \in 0 .. 30 : Powers[k + 1] = Reduced(Powers[k])
<1>1. Powers[0] = {0}
  BY PowersRecursive
<1>2. ASSUME NEW k \in 0 .. 30 PROVE Powers[k + 1] = Reduced(Powers[k])
  <2>1. CASE k >= 7
    <3>1. k + 1 \in 8 .. 31 /\ (k + 1) - 1 = k
      BY <2>1
    <3>2. QED
      BY <3>1, PowersRecursive
  <2>2. CASE k < 7
    <3>1. k \in 0 .. 7 /\ k + 1 \in 0 .. 7
      BY <2>2
    <3>2. Powers[k] = {k} /\ Powers[k + 1] = {k + 1}
      BY <3>1, PowersRecursive
    <3>3. Reduced({k}) = {k + 1}
      BY <2>2, <3>1 DEF Reduced, Shift
    <3>4. QED
      BY <3>2, <3>3
  <2>3. QED
    BY <2>1, <2>2
<1>3. QED
  BY <1>1, <1>2

LEMMA PowersType == \A k \in 0 .. 31 : Powers[k] \in Bytes
<1> DEFINE S == {k \in 0 .. 31 : Powers[k] \in Bytes}
<1>1. 0 \in S
  BY PowersStep DEF Bytes
<1>2. ASSUME NEW k \in 0 .. 31 - 1, k \in S PROVE k + 1 \in S
  <2>1. Powers[k + 1] = Reduced(Powers[k])
    BY PowersStep
  <2>2. Powers[k + 1] \in Bytes
    BY <1>2, <2>1, ReducedBits
  <2>3. QED
    BY <2>2
<1>3. \A k \in 0 .. 31 : k \in S
  <2> HIDE DEF S
  <2> QED
    BY <1>1, <1>2, Climb
<1>4. QED
  BY <1>3

Odd(a) == Cardinality(a) % 2 = 1

LEMMA OddXor ==
  ASSUME NEW a, NEW b, IsFiniteSet(a), IsFiniteSet(b)
  PROVE  IsFiniteSet(Xor(a, b)) /\ (Odd(Xor(a, b)) <=> ~(Odd(a) <=> Odd(b)))
<1> DEFINE c == Cardinality(a \cap b)
<1>1. /\ IsFiniteSet(a \ b) /\ Cardinality(a \ b) = Cardinality(a) - c
      /\ IsFiniteSet(b \ a) /\ Cardinality(b \ a) = Cardinality(b) - c
  <2>1. b \cap a = a \cap b
    OBVIOUS
  <2>2. QED
    BY <2>1, FS_Difference
<1>2. (a \ b) \cap (b \ a) = {}
  OBVIOUS
<1>3. IsFiniteSet(Xor(a, b))
      /\ Cardinality(Xor(a, b)) = Cardinality(a \ b) + Cardinality(b \ a) - Cardinality({})
  BY <1>1, <1>2, FS_Union DEF Xor
<1>4. Cardinality({}) = 0
  BY FS_EmptySet
<1>5. Cardinality(a) \in Nat /\ Cardinality(b) \in Nat /\ c \in Nat
  BY FS_CardinalityType, FS_Intersection
<1> HIDE DEF c
<1>6. Cardinality(Xor(a, b)) = Cardinality(a) + Cardinality(b) - 2 * c
  BY <1>1, <1>3, <1>4, <1>5
<1>7. QED
  BY <1>3, <1>5, <1>6, SMT DEF Odd

LEMMA FiniteWord ==
  ASSUME NEW n \in Nat, NEW a \in Upto(n)
  PROVE  IsFiniteSet(a)
<1>1. IsFiniteSet(0 .. n)
  BY FS_Interval
<1>2. QED
  BY <1>1, FS_Subset DEF Upto

LEMMA SameCardinality ==
  ASSUME NEW a \in SUBSET Int, IsFiniteSet(a), NEW n \in Int
  PROVE  IsFiniteSet(Shift(a, n)) /\ Cardinality(Shift(a, n)) = Cardinality(a)
<1> DEFINE f == [b \in a |-> b + n]
<1>1. f \in [a -> Shift(a, n)]
  BY ShiftBits
<1>2. \A x, y \in a : f[x] = f[y] => x = y
  OBVIOUS
<1>3. \A y \in Shift(a, n) : \E x \in a : f[x] = y
  BY DEF Shift
<1> HIDE DEF f
<1>4. f \in Bijection(a, Shift(a, n))
  BY <1>1, <1>2, <1>3 DEF Bijection, Injection, Surjection, IsInjective
<1>5. ExistsBijection(a, Shift(a, n))
  BY <1>4 DEF ExistsBijection
<1>6. QED
  BY <1>5, FS_Bijection

(* The bits of a word in whose power the residue k has a part.             *)
With(a, k) == {b \in a : k \in Powers[b]}

LEMMA ResidueBits ==
  ASSUME NEW a
  PROVE  /\ Residue(a) \in Bytes
         /\ \A k \in 0 .. 7 : k \in Residue(a) <=> Odd(With(a, k))
BY DEF Residue, Odd, With, Bytes

LEMMA SameByte ==
  ASSUME NEW r \in Bytes, NEW s \in Bytes, \A k \in 0 .. 7 : k \in r <=> k \in s
  PROVE  r = s
BY DEF Bytes

LEMMA XorBits == \A a, b, x : x \in Xor(a, b) <=> ~(x \in a <=> x \in b)
BY DEF Xor

LEMMA ResidueXor ==
  ASSUME NEW n \in Nat, NEW a \in Upto(n), NEW b \in Upto(n)
  PROVE  Residue(Xor(a, b)) = Xor(Residue(a), Residue(b))
<1>1. ASSUME NEW k \in 0 .. 7
      PROVE  k \in Residue(Xor(a, b)) <=> k \in Xor(Residue(a), Residue(b))
  <2>1. With(Xor(a, b), k) = Xor(With(a, k), With(b, k))
    BY DEF With, Xor
  <2>2. With(a, k) \in Upto(n) /\ With(b, k) \in Upto(n)
    BY DEF With, Upto
  <2>3. IsFiniteSet(With(a, k)) /\ IsFiniteSet(With(b, k))
    BY <2>2, FiniteWord
  <2>4. Odd(With(Xor(a, b), k)) <=> ~(Odd(With(a, k)) <=> Odd(With(b, k)))
    BY <2>1, <2>3, OddXor
  <2>5. QED
    BY <2>4, ResidueBits, XorBits
<1>2. Residue(Xor(a, b)) \in Bytes /\ Residue(a) \in Bytes /\ Residue(b) \in Bytes
  BY ResidueBits
<1>3. Xor(Residue(a), Residue(b)) \in Bytes
  BY <1>2 DEF Xor, Bytes
<1>4. QED
  BY <1>1, <1>2, <1>3, SameByte

LEMMA ResidueByte ==
  ASSUME NEW r \in Bytes
  PROVE  Residue(r) = r
<1>1. ASSUME NEW k \in 0 .. 7 PROVE k \in Residue(r) <=> k \in r
  <2>1. With(r, k) = r \cap {k}
    <3>1. \A b \in r : Powers[b] = {b}
      BY PowersRecursive DEF Bytes
    <3>2. QED
      BY <3>1 DEF With
  <2>2. CASE k \in r
    <3>1. With(r, k) = {k}
      BY <2>1, <2>2
    <3>2. Cardinality({k}) = 1
      BY FS_Singleton
    <3>3. QED
      BY <2>2, <3>1, <3>2, ResidueBits DEF Odd
  <2>3. CASE k \notin r
    <3>1. With(r, k) = {}
      BY <2>1, <2>3
    <3>2. Cardinality({}) = 0
      BY FS_EmptySet
    <3>3. QED
      BY <2>3, <3>1, <3>2, ResidueBits DEF Odd
  <2>4. QED
    BY <2>2, <2>3
<1>2. QED
  BY <1>1, ResidueBits, SameByte

(* The residue of a word moved up by one.                                  *)
LEMMA ResidueUp ==
  ASSUME NEW a \in Upto(30)
  PROVE  Residue(Shift(a, 1)) = Reduced(Residue(a))
<1>1. a \in SUBSET Int /\ \A b \in a : b \in 0 .. 30
  BY DEF Upto
<1>2. ASSUME NEW k \in 0 .. 7
      PROVE  k \in Residue(Shift(a, 1)) <=> k \in Reduced(Residue(a))
  <2> DEFINE next == {b \in a : k \in Powers[b + 1]}
             low  == {b \in a : k - 1 \in Powers[b]}
             back == {b \in a : 7 \in Powers[b] /\ k \in {0, 4, 5}}
  <2>1. With(Shift(a, 1), k) = Shift(next, 1)
    BY <1>1 DEF With, Shift
  <2>2. next \in Upto(30) /\ low \in Upto(30) /\ back \in Upto(30) /\ next \in SUBSET Int
    BY <1>1 DEF Upto
  <2>3. IsFiniteSet(next) /\ IsFiniteSet(low) /\ IsFiniteSet(back)
    <3> HIDE DEF next, low, back
    <3> QED
      BY <2>2, FiniteWord
  <2>4. Odd(With(Shift(a, 1), k)) <=> Odd(next)
    <3> HIDE DEF next
    <3> QED
      BY <2>1, <2>2, <2>3, SameCardinality DEF Odd
  <2>5. next = Xor(low, back)
    <3>1. \A b \in a : Powers[b] \in Bytes /\ Powers[b + 1] = Reduced(Powers[b])
      BY <1>1, PowersStep, PowersType
    <3>2. \A b \in a : k \in Powers[b + 1]
                         <=> ~((k - 1 \in Powers[b]) <=> (7 \in Powers[b] /\ k \in {0, 4, 5}))
      BY <3>1, ReducedBits
    <3>3. QED
      BY <3>2 DEF Xor
  <2>6. Odd(next) <=> ~(Odd(low) <=> Odd(back))
    <3> HIDE DEF next, low, back
    <3> QED
      BY <2>3, <2>5, OddXor
  <2>7. Odd(low) <=> k - 1 \in Residue(a)
    <3>1. CASE k = 0
      <4>1. low = {}
        <5>1. \A b \in a : Powers[b] \in Bytes
          BY <1>1, PowersType
        <5>2. QED
          BY <3>1, <5>1 DEF Bytes
      <4>2. -1 \notin Residue(a)
        BY ResidueBits DEF Bytes
      <4>3. QED
        BY <3>1, <4>1, <4>2, FS_EmptySet DEF Odd
    <3>2. CASE k # 0
      <4>1. k - 1 \in 0 .. 7 /\ low = With(a, k - 1)
        BY <3>2 DEF With
      <4>2. QED
        BY <4>1, ResidueBits
    <3>3. QED
      BY <3>1, <3>2
  <2>8. Odd(back) <=> 7 \in Residue(a) /\ k \in {0, 4, 5}
    <3>1. CASE k \in {0, 4, 5}
      <4>1. back = With(a, 7)
        BY <3>1 DEF With
      <4>2. QED
        BY <3>1, <4>1, ResidueBits
    <3>2. CASE k \notin {0, 4, 5}
      <4>1. back = {}
        BY <3>2
      <4>2. QED
        BY <3>2, <4>1, FS_EmptySet DEF Odd
    <3>3. QED
      BY <3>1, <3>2
  <2>9. k \in Residue(Shift(a, 1)) <=> Odd(With(Shift(a, 1), k))
    BY ResidueBits
  <2>10. k \in Reduced(Residue(a))
           <=> ~((k - 1 \in Residue(a)) <=> (7 \in Residue(a) /\ k \in {0, 4, 5}))
    BY ResidueBits, ReducedBits
  <2> HIDE DEF next, low, back
  <2>11. QED
    BY <2>4, <2>6, <2>7, <2>8, <2>9, <2>10
<1>3. QED
  BY <1>2, ResidueBits, ReducedBits, SameByte

(* Moving two words up by the same number of bits neither makes nor hides  *)
(* a difference of their residues.                                         *)
LEMMA ResidueShift ==
  ASSUME NEW n \in 0 .. 31, NEW a \in Upto(31 - n), NEW b \in Upto(31 - n)
  PROVE  Residue(Shift(a, n)) = Residue(Shift(b, n)) <=> Residue(a) = Residue(b)
<1> DEFINE Same(p) == \A c, d \in Upto(31 - p) :
             Residue(Shift(c, p)) = Residue(Shift(d, p)) <=> Residue(c) = Residue(d)
           S == {p \in 0 .. 31 : Same(p)}
<1>1. 0 \in S
  <2>1. ASSUME NEW c \in Upto(31) PROVE Shift(c, 0) = c
    <3>1. c \in SUBSET Int
      BY DEF Upto
    <3>2. \A x : x \in Shift(c, 0) <=> x \in Int /\ x - 0 \in c
      BY <3>1, ShiftBits
    <3>3. \A x \in Int : x - 0 = x
      OBVIOUS
    <3>4. QED
      BY <3>1, <3>2, <3>3
  <2>2. QED
    BY <2>1
<1>2. ASSUME NEW p \in 0 .. 31 - 1, p \in S PROVE p + 1 \in S
  <2> SUFFICES ASSUME NEW c \in Upto(31 - (p + 1)), NEW d \in Upto(31 - (p + 1))
               PROVE  Residue(Shift(c, p + 1)) = Residue(Shift(d, p + 1))
                        <=> Residue(c) = Residue(d)
    OBVIOUS
  <2>1. /\ c \in SUBSET Int /\ d \in SUBSET Int
        /\ c \in Upto(31 - p) /\ d \in Upto(31 - p)
        /\ Shift(c, p) \in Upto(30) /\ Shift(d, p) \in Upto(30)
    BY DEF Upto, Shift
  <2>2. /\ Shift(c, p + 1) = Shift(Shift(c, p), 1)
        /\ Shift(d, p + 1) = Shift(Shift(d, p), 1)
    <3>1. p \in Int /\ 1 \in Int
      OBVIOUS
    <3>2. QED
      BY <2>1, <3>1, ShiftTwice
  <2>3. /\ Residue(Shift(c, p + 1)) = Reduced(Residue(Shift(c, p)))
        /\ Residue(Shift(d, p + 1)) = Reduced(Residue(Shift(d, p)))
    BY <2>1, <2>2, ResidueUp
  <2>4. Residue(Shift(c, p + 1)) = Residue(Shift(d, p + 1))
          <=> Residue(Shift(c, p)) = Residue(Shift(d, p))
    BY <2>3, ResidueBits, ReducedInjective
  <2>5. Same(p)
    BY <1>2
  <2>6. QED
    BY <2>1, <2>4, <2>5
<1>3. \A p \in 0 .. 31 : p \in S
  <2> HIDE DEF S
  <2> QED
    BY <1>1, <1>2, Climb
<1>4. Same(n)
  BY <1>3
<1>5. QED
  BY <1>4

-----------------------------------------------------------------------------
(* calc_crc.                                                               *)

CrcInv ==
  /\ sent \in Upto(15)
  /\ noise = {} \/ Typical(noise)
  /\ data \in Upto(15) /\ i \in 0 .. 16
  /\ \A b \in data : b >= 8 \/ b >= i
  /\ verdict \in {"none", "accept", "reject"}
  /\ verdict # "none" => i = 16
  /\ verdict # "none" =>
       (verdict = "accept" <=> Shift(data \cap (8 .. 15), -8) = CrcByte)
  /\ Congruent

LEMMA NoResidue == Residue({}) = {}
BY ResidueByte DEF Bytes

(* The polynomial is the generator, moved up by eight, without its first.  *)
LEMMA PolynomialResidue == Residue({16}) = Residue(polynomial)
<1>1. Residue({8}) = Residue({0, 4, 5})
  <2>1. Shift({7}, 1) = {8}
    BY DEF Shift
  <2>2. {7} \in Upto(30) /\ {7} \in Bytes /\ {0, 4, 5} \in Bytes
    BY DEF Upto, Bytes
  <2>3. Residue({8}) = Reduced({7})
    BY <2>1, <2>2, ResidueUp, ResidueByte
  <2>4. Reduced({7}) = {0, 4, 5}
    BY DEF Reduced, Shift, Xor
  <2>5. QED
    BY <2>2, <2>3, <2>4, ResidueByte
<1>2. Shift({8}, 8) = {16} /\ Shift({0, 4, 5}, 8) = polynomial
  BY DEF Shift, polynomial
<1>3. 8 \in 0 .. 31 /\ {8} \in Upto(31 - 8) /\ {0, 4, 5} \in Upto(31 - 8)
  BY DEF Upto
<1> DEFINE n == 8
<1>4. n \in 0 .. 31 /\ {8} \in Upto(31 - n) /\ {0, 4, 5} \in Upto(31 - n)
  BY <1>3
<1>5. Shift({8}, n) = {16} /\ Shift({0, 4, 5}, n) = polynomial
  BY <1>2
<1> HIDE DEF n
<1>6. Residue(Shift({8}, n)) = Residue(Shift({0, 4, 5}, n))
  BY <1>1, <1>4, ResidueShift
<1>7. QED
  BY <1>5, <1>6

(* A turn of the loop leaves the residue as the shift alone would.         *)
LEMMA RoundResidue ==
  ASSUME data \in Upto(15), Round
  PROVE  /\ data' \in Upto(15)
         /\ \A b \in data' : b >= 8 \/ b - 1 \in data
         /\ Residue(data') = Residue(Shift(data, 1))
<1> DEFINE shifted == Shift(data, 1) \cap (0 .. 15)
<1>1. data \in SUBSET Int /\ \A b \in data : b \in 0 .. 15
  BY DEF Upto
<1>2. \A x : x \in Shift(data, 1) <=> x \in Int /\ x - 1 \in data
  BY <1>1, ShiftBits
<1>3. data' = IF 15 \in data THEN Xor(shifted, polynomial) ELSE shifted
  BY DEF Round
<1>4. shifted \in Upto(16) /\ shifted \in Upto(15)
  BY DEF Upto
<1>5. CASE 15 \in data
  <2>1. data' = Xor(shifted, polynomial)
    BY <1>3, <1>5
  <2>2. polynomial \in Upto(16) /\ {16} \in Upto(16) /\ polynomial \in Upto(15)
    BY DEF polynomial, Upto
  <2>3. Residue(data') = Xor(Residue(shifted), Residue(polynomial))
    <3>1. 16 \in Nat
      OBVIOUS
    <3>2. QED
      BY <1>4, <2>1, <2>2, <3>1, ResidueXor
  <2>4. Shift(data, 1) = Xor(shifted, {16})
    BY <1>1, <1>2, <1>5 DEF Xor
  <2>5. Residue(Shift(data, 1)) = Xor(Residue(shifted), Residue({16}))
    <3>1. 16 \in Nat
      OBVIOUS
    <3>2. QED
      BY <1>4, <2>2, <2>4, <3>1, ResidueXor
  <2>6. data' \in Upto(15)
    BY <1>4, <2>1, <2>2 DEF Xor, Upto
  <2>7. \A b \in data' : b >= 8 \/ b - 1 \in data
    BY <1>2, <2>1 DEF Xor, polynomial
  <2>8. QED
    BY <2>3, <2>5, <2>6, <2>7, PolynomialResidue
<1>6. CASE 15 \notin data
  <2>1. data' = shifted
    BY <1>3, <1>6
  <2>2. Shift(data, 1) = shifted
    BY <1>1, <1>2, <1>6
  <2>3. QED
    BY <1>2, <1>4, <2>1, <2>2
<1>7. QED
  BY <1>5, <1>6

LEMMA InitCrc == CrcInit => CrcInv
<1> SUFFICES ASSUME CrcInit PROVE CrcInv
  OBVIOUS
<1>1. sent \in Upto(15)
  BY MeasuredAssumption DEF CrcInit, Upto
<1>2. noise = {} \/ Typical(noise)
  <2>1. noise \in {{}} \cup Errors
    BY DEF CrcInit
  <2>2. QED
    BY <2>1, ErrorsAssumption
<1>3. data \in Upto(15) /\ data = DataBytes
  BY DEF CrcInit, DataBytes, Shift, Upto
<1>4. i = 0 /\ verdict = "none" /\ 16 - i = 16
  BY DEF CrcInit
<1>5. \A b \in data : b >= i
  BY <1>3, <1>4 DEF Upto
<1>6. QED
  BY <1>1, <1>2, <1>3, <1>4, <1>5 DEF CrcInv, Congruent

LEMMA RoundInv == CrcInv /\ Round => CrcInv'
<1> SUFFICES ASSUME CrcInv, Round PROVE CrcInv'
  OBVIOUS
<1>1. /\ i \in 0 .. 15 /\ i' = i + 1 /\ i' \in 0 .. 16
      /\ UNCHANGED <<sent, noise, verdict>> /\ verdict = "none"
  BY DEF CrcInv, Round, Rounds
<1>2. DataBytes' = DataBytes
  BY <1>1 DEF DataBytes, Received, Sent
<1>3. /\ data \in Upto(15) /\ data \in SUBSET Int /\ data' \in Upto(15)
      /\ \A b \in data' : b >= 8 \/ b - 1 \in data
      /\ Residue(data') = Residue(Shift(data, 1))
  BY RoundResidue DEF CrcInv, Upto
<1>4. Congruent'
  <2> DEFINE n == 15 - i
  <2>1. n \in 0 .. 31 /\ n \in Int /\ 16 - i' = n /\ 1 + n = 16 - i /\ 1 \in Int
    BY <1>1
  <2>2. data' \in Upto(31 - n) /\ Shift(data, 1) \in Upto(31 - n)
    <3>1. \A b \in data : b \in 0 .. 15
      BY <1>3 DEF Upto
    <3>2. Shift(data, 1) \in Upto(16)
      BY <3>1 DEF Upto, Shift
    <3>3. 16 <= 31 - n
      BY <1>1
    <3>4. QED
      BY <1>1, <1>3, <3>2, <3>3 DEF Upto
  <2> HIDE DEF n
  <2>3. Residue(Shift(data', n)) = Residue(Shift(Shift(data, 1), n))
    BY <1>3, <2>1, <2>2, ResidueShift
  <2>4. Shift(Shift(data, 1), n) = Shift(data, 16 - i)
    BY <1>3, <2>1, ShiftTwice
  <2>5. Residue(Shift(data, 16 - i)) = Residue(Shift(DataBytes, 16))
    BY DEF CrcInv, Congruent
  <2>6. QED
    BY <1>2, <2>1, <2>3, <2>4, <2>5 DEF Congruent
<1>5. \A b \in data' : b >= 8 \/ b >= i'
  <2> SUFFICES ASSUME NEW b \in data', ~(b >= 8) PROVE b >= i'
    OBVIOUS
  <2>1. b - 1 \in data /\ b \in Int
    BY <1>3 DEF Upto
  <2>2. b - 1 >= 8 \/ b - 1 >= i
    BY <2>1 DEF CrcInv
  <2>3. QED
    BY <1>1, <2>1, <2>2
<1>6. QED
  BY <1>1, <1>3, <1>4, <1>5 DEF CrcInv

LEMMA CompareInv == CrcInv /\ Compare => CrcInv'
<1> SUFFICES ASSUME CrcInv, Compare PROVE CrcInv'
  OBVIOUS
<1>1. /\ i = 16 /\ UNCHANGED <<sent, noise, data, i>>
      /\ verdict' = IF Shift(data \cap (8 .. 15), -8) = CrcByte THEN "accept" ELSE "reject"
  BY DEF Compare, Rounds
<1>2. CrcByte' = CrcByte /\ DataBytes' = DataBytes
  BY <1>1 DEF CrcByte, DataBytes, Received, Sent
<1>3. Congruent'
  BY <1>1, <1>2 DEF CrcInv, Congruent
<1>4. QED
  BY <1>1, <1>2, <1>3 DEF CrcInv

LEMMA CrcUnchanged == CrcInv /\ UNCHANGED crcVars => CrcInv'
<1> SUFFICES ASSUME CrcInv, UNCHANGED crcVars PROVE CrcInv'
  OBVIOUS
<1>1. UNCHANGED <<sent, noise, data, i, verdict>>
  BY DEF crcVars
<1>2. CrcByte' = CrcByte /\ DataBytes' = DataBytes
  BY <1>1 DEF CrcByte, DataBytes, Received, Sent
<1>3. Congruent'
  BY <1>1, <1>2 DEF CrcInv, Congruent
<1>4. QED
  BY <1>1, <1>2, <1>3 DEF CrcInv

LEMMA CrcStep == CrcInv /\ (CrcNext \/ UNCHANGED crcVars) => CrcInv'
BY RoundInv, CompareInv, CrcUnchanged DEF CrcNext

-----------------------------------------------------------------------------
(* valid_crc: what it accepts is a multiple of the generator, and a word   *)
(* with its checksum is one, so that the noise is a multiple as well.      *)

LEMMA FrameBits ==
  ASSUME sent \in Upto(15), noise \in Upto(23)
  PROVE  /\ Shift(sent, 8) \in Upto(23) /\ Sent \in Upto(23)
         /\ Received \in Upto(23) /\ CrcByte \in Bytes
         /\ DataBytes \in Upto(15) /\ Shift(DataBytes, 8) = Received \cap (8 .. 23)
<1>1. Residue(Shift(sent, 8)) \in Bytes
  BY ResidueBits
<1>2. Shift(sent, 8) \in Upto(23)
  BY DEF Upto, Shift
<1>3. Sent \in Upto(23)
  BY <1>1, <1>2 DEF Sent, Upto, Bytes
<1>4. Received \in Upto(23)
  BY <1>3 DEF Received, Xor, Upto
<1>5. CrcByte \in Bytes
  BY DEF CrcByte, Bytes
<1>6. DataBytes \in Upto(15)
  BY DEF DataBytes, Shift, Upto
<1>7. Shift(DataBytes, 8) = Received \cap (8 .. 23)
  <2> DEFINE high == Received \cap (8 .. 23)
  <2>1. high \in SUBSET Int /\ -8 \in Int /\ 8 \in Int
    OBVIOUS
  <2>2. Shift(Shift(high, -8), 8) = Shift(high, -8 + 8)
    BY <2>1, ShiftTwice
  <2>3. -8 + 8 = 0
    OBVIOUS
  <2>4. \A x : x \in Shift(high, 0) <=> x \in Int /\ x - 0 \in high
    BY <2>1, ShiftBits
  <2>5. \A x \in Int : x - 0 = x
    OBVIOUS
  <2>6. Shift(high, 0) = high
    BY <2>1, <2>4, <2>5
  <2>7. QED
    BY <2>2, <2>3, <2>6 DEF DataBytes
<1>8. QED
  BY <1>2, <1>3, <1>4, <1>5, <1>6, <1>7

LEMMA SentResidue ==
  ASSUME sent \in Upto(15)
  PROVE  Residue(Sent) = {}
<1> DEFINE up == Shift(sent, 8)
<1>1. up \in Upto(23) /\ \A b \in up : b >= 8
  BY DEF Upto, Shift
<1>2. Residue(up) \in Bytes /\ Residue(up) \in Upto(23)
  BY ResidueBits DEF Bytes, Upto
<1> HIDE DEF up
<1>3. up \cup Residue(up) = Xor(up, Residue(up))
  BY <1>1, <1>2 DEF Bytes, Xor
<1>4. 23 \in Nat
  OBVIOUS
<1>5. Residue(Xor(up, Residue(up))) = Xor(Residue(up), Residue(Residue(up)))
  BY <1>1, <1>2, <1>4, ResidueXor
<1>6. Residue(Residue(up)) = Residue(up)
  BY <1>2, ResidueByte
<1>7. QED
  BY <1>3, <1>5, <1>6 DEF Sent, Xor, up

LEMMA ReceivedResidue ==
  ASSUME sent \in Upto(15), noise \in Upto(23)
  PROVE  Residue(Received) = Residue(noise)
<1>1. 23 \in Nat /\ Sent \in Upto(23)
  BY FrameBits
<1>2. Residue(Received) = Xor(Residue(Sent), Residue(noise))
  BY <1>1, ResidueXor DEF Received
<1>3. QED
  BY <1>2, SentResidue DEF Xor

(* A word that the noise left a multiple is accepted, and no other.        *)
LEMMA AcceptsMultiples ==
  ASSUME CrcInv, i = 16, noise \in Upto(23)
  PROVE  Shift(data \cap (8 .. 15), -8) = CrcByte <=> Residue(noise) = {}
<1> DEFINE crc == Shift(data \cap (8 .. 15), -8)
           high == Received \cap (8 .. 23)
<1>1. data \in Upto(15) /\ sent \in Upto(15)
  BY DEF CrcInv
<1>2. crc \in Bytes /\ crc \in SUBSET Int
  BY DEF Shift, Bytes
<1>3. data = Shift(crc, 8)
  <2>1. data \cap (8 .. 15) = data
    <3>1. \A b \in data : b \in 0 .. 15 /\ (b >= 8 \/ b >= 16)
      BY <1>1 DEF CrcInv, Upto
    <3>2. QED
      BY <3>1
  <2>2. data \in SUBSET Int /\ -8 \in Int /\ 8 \in Int /\ -8 + 8 = 0
    BY <1>1 DEF Upto
  <2>3. Shift(Shift(data, -8), 8) = Shift(data, -8 + 8)
    BY <2>2, ShiftTwice
  <2>4. \A x : x \in Shift(data, 0) <=> x \in Int /\ x - 0 \in data
    BY <2>2, ShiftBits
  <2>5. \A x \in Int : x - 0 = x
    OBVIOUS
  <2>6. Shift(data, 0) = data
    BY <2>2, <2>4, <2>5
  <2>7. QED
    BY <2>1, <2>2, <2>3, <2>6
<1>4. /\ Received \in Upto(23) /\ CrcByte \in Bytes
      /\ DataBytes \in Upto(15) /\ Shift(DataBytes, 8) = high
  BY <1>1, FrameBits
<1>5. Residue(data) = Residue(Shift(DataBytes, 16))
  <2>1. 16 - i = 0
    OBVIOUS
  <2>2. data \in SUBSET Int
    BY <1>1 DEF Upto
  <2>3. \A x : x \in Shift(data, 0) <=> x \in Int /\ x - 0 \in data
    BY <2>2, ShiftBits
  <2>4. \A x \in Int : x - 0 = x
    OBVIOUS
  <2>5. Shift(data, 0) = data
    BY <2>2, <2>3, <2>4
  <2>6. QED
    BY <2>1, <2>5 DEF CrcInv, Congruent
<1>6. Shift(DataBytes, 16) = Shift(high, 8)
  <2>1. DataBytes \in SUBSET Int /\ 8 \in Int /\ 8 + 8 = 16
    BY <1>4 DEF Upto
  <2>2. Shift(Shift(DataBytes, 8), 8) = Shift(DataBytes, 8 + 8)
    BY <2>1, ShiftTwice
  <2>3. QED
    BY <1>4, <2>1, <2>2
<1> DEFINE n == 8
<1>7. n \in 0 .. 31 /\ crc \in Upto(31 - n) /\ high \in Upto(31 - n)
  BY <1>2, <1>4 DEF Upto, Bytes
<1>8. Residue(Shift(crc, n)) = Residue(Shift(high, n))
  BY <1>3, <1>5, <1>6
<1> HIDE DEF n, crc, high
<1>9. Residue(crc) = Residue(high)
  BY <1>7, <1>8, ResidueShift
<1>10. Residue(high) = crc
  BY <1>2, <1>9, ResidueByte
<1>11. Received = Xor(high, CrcByte)
  <2>1. \A b \in Received : b \in 0 .. 23
    BY <1>4 DEF Upto
  <2>2. \A b : b \in high <=> b \in Received /\ b \in 8 .. 23
    BY DEF high
  <2>3. \A b : b \in CrcByte <=> b \in Received /\ b \in 0 .. 7
    BY DEF CrcByte
  <2>4. \A b : b \in Received <=> ~(b \in high <=> b \in CrcByte)
    BY <2>1, <2>2, <2>3
  <2>5. QED
    BY <2>4, XorBits
<1>12. Residue(Received) = Xor(crc, CrcByte)
  <2>1. 23 \in Nat /\ high \in Upto(23) /\ CrcByte \in Upto(23)
    BY <1>4 DEF Upto, Bytes, high
  <2>2. Residue(Received) = Xor(Residue(high), Residue(CrcByte))
    BY <1>11, <2>1, ResidueXor
  <2>3. QED
    BY <1>4, <1>10, <2>2, ResidueByte
<1>13. Residue(noise) = Xor(crc, CrcByte)
  BY <1>1, <1>12, ReceivedResidue
<1>14. Xor(crc, CrcByte) = {} <=> crc = CrcByte
  BY DEF Xor
<1>15. QED
  BY <1>13, <1>14 DEF crc

-----------------------------------------------------------------------------
(* The noise that is not noticed: the generator divides no error of an odd *)
(* number of bits, of two bits, or of at most eight in a row.              *)

LEMMA OddReduced ==
  ASSUME NEW r \in Bytes
  PROVE  Odd(Reduced(r)) <=> Odd(r)
<1>1. r \in SUBSET Int /\ r \in Upto(7) /\ 7 \in Nat
  BY DEF Bytes, Upto
<1>2. IsFiniteSet(r) /\ Cardinality(r) \in Nat
  BY <1>1, FiniteWord, FS_CardinalityType
<1>3. IsFiniteSet(Shift(r, 1)) /\ Cardinality(Shift(r, 1)) = Cardinality(r)
  BY <1>1, <1>2, SameCardinality
<1>4. 8 \in Shift(r, 1) <=> 7 \in r
  BY <1>1, ShiftBits
<1>5. CASE 7 \notin r
  BY <1>3, <1>4, <1>5 DEF Reduced, Odd
<1>6. CASE 7 \in r
  <2> DEFINE low == Shift(r, 1) \ {8}
  <2>1. Reduced(r) = Xor(low, {0, 4, 5})
    BY <1>4, <1>6 DEF Reduced
  <2>2. IsFiniteSet(low) /\ Cardinality(low) = Cardinality(r) - 1
    BY <1>3, <1>4, <1>6, FS_RemoveElement
  <2>3. IsFiniteSet({0, 4, 5}) /\ Cardinality({0, 4, 5}) = 3
    <3>1. IsFiniteSet({0}) /\ Cardinality({0}) = 1
      BY FS_Singleton
    <3>2. {0, 4} = {0} \cup {4} /\ {0, 4, 5} = {0, 4} \cup {5} /\ 4 \notin {0} /\ 5 \notin {0, 4}
      OBVIOUS
    <3>3. IsFiniteSet({0, 4}) /\ Cardinality({0, 4}) = 2
      BY <3>1, <3>2, FS_AddElement
    <3>4. QED
      BY <3>2, <3>3, FS_AddElement
  <2> HIDE DEF low
  <2>4. Odd({0, 4, 5})
    BY <2>3 DEF Odd
  <2>5. Odd(low) <=> ~Odd(r)
    BY <1>2, <2>2 DEF Odd
  <2>6. Odd(Xor(low, {0, 4, 5})) <=> ~(Odd(low) <=> Odd({0, 4, 5}))
    BY <2>2, <2>3, OddXor
  <2>7. QED
    BY <2>1, <2>4, <2>5, <2>6
<1>7. QED
  BY <1>5, <1>6

LEMMA OddPowers == \A k \in 0 .. 31 : Odd(Powers[k])
<1> DEFINE S == {k \in 0 .. 31 : Odd(Powers[k])}
<1>1. 0 \in S
  <2>1. Cardinality({0}) = 1 /\ 1 % 2 = 1
    BY FS_Singleton
  <2>2. Odd({0})
    BY <2>1 DEF Odd
  <2>3. QED
    BY <2>2, PowersStep
<1>2. ASSUME NEW k \in 0 .. 31 - 1, k \in S PROVE k + 1 \in S
  BY <1>2, PowersStep, PowersType, OddReduced
<1>3. \A k \in 0 .. 31 : k \in S
  <2> HIDE DEF S
  <2> QED
    BY <1>1, <1>2, Climb
<1>4. QED
  BY <1>3

LEMMA PowerResidue == \A k \in 0 .. 31 : Residue({k}) = Powers[k]
<1> TAKE k \in 0 .. 31
<1>1. ASSUME NEW j \in 0 .. 7 PROVE j \in Residue({k}) <=> j \in Powers[k]
  <2>1. With({k}, j) = IF j \in Powers[k] THEN {k} ELSE {}
    BY DEF With
  <2>2. Odd({k}) /\ ~Odd({})
    <3>1. Cardinality({k}) = 1 /\ Cardinality({}) = 0
      BY FS_Singleton, FS_EmptySet
    <3>2. 1 % 2 = 1 /\ 0 % 2 = 0
      OBVIOUS
    <3>3. QED
      BY <3>1, <3>2 DEF Odd
  <2>3. QED
    BY <2>1, <2>2, ResidueBits
<1>2. QED
  BY <1>1, ResidueBits, PowersType, SameByte

LEMMA OddResidue ==
  ASSUME NEW a \in Upto(31)
  PROVE  Odd(Residue(a)) <=> Odd(a)
<1> DEFINE Kept(n) == \A b \in Upto(n) : Odd(Residue(b)) <=> Odd(b)
           S == {n \in 0 .. 31 : Kept(n)}
<1>0. \A r \in Bytes : IsFiniteSet(r)
  BY FiniteWord DEF Bytes, Upto
<1>1. 0 \in S
  <2> SUFFICES ASSUME NEW b \in Upto(0) PROVE Odd(Residue(b)) <=> Odd(b)
    OBVIOUS
  <2>1. b \in Bytes
    BY DEF Upto, Bytes
  <2>2. QED
    BY <2>1, ResidueByte
<1>2. ASSUME NEW n \in 0 .. 31 - 1, n \in S PROVE n + 1 \in S
  <2> SUFFICES ASSUME NEW b \in Upto(n + 1) PROVE Odd(Residue(b)) <=> Odd(b)
    OBVIOUS
  <2> DEFINE low == b \ {n + 1}
  <2>1. low \in Upto(n) /\ low \in Upto(31) /\ {n + 1} \in Upto(31) /\ 31 \in Nat
    BY DEF Upto
  <2>2. Odd(Residue(low)) <=> Odd(low)
    BY <1>2, <2>1
  <2>3. CASE n + 1 \notin b
    <3>1. low = b
      BY <2>3
    <3>2. QED
      BY <2>2, <3>1
  <2>4. CASE n + 1 \in b
    <3>1. b = Xor(low, {n + 1})
      BY <2>4 DEF Xor
    <3> HIDE DEF low
    <3>2. Residue(b) = Xor(Residue(low), Powers[n + 1])
      <4>1. Residue(b) = Xor(Residue(low), Residue({n + 1}))
        BY <2>1, <3>1, ResidueXor
      <4>2. n + 1 \in 0 .. 31
        OBVIOUS
      <4>3. QED
        BY <4>1, <4>2, PowerResidue
    <3>3. IsFiniteSet(low) /\ IsFiniteSet({n + 1}) /\ Odd({n + 1})
      BY <2>1, FiniteWord, FS_Singleton DEF Odd
    <3>4. Residue(low) \in Bytes /\ Powers[n + 1] \in Bytes /\ Odd(Powers[n + 1])
      BY ResidueBits, PowersType, OddPowers
    <3>5. Odd(Residue(b)) <=> ~(Odd(Residue(low)) <=> Odd(Powers[n + 1]))
      BY <1>0, <3>2, <3>4, OddXor
    <3>6. Odd(b) <=> ~(Odd(low) <=> Odd({n + 1}))
      BY <3>1, <3>3, OddXor
    <3>7. QED
      BY <2>2, <3>3, <3>4, <3>5, <3>6
  <2>5. QED
    BY <2>3, <2>4
<1>3. \A n \in 0 .. 31 : n \in S
  <2> HIDE DEF S
  <2> QED
    BY <1>1, <1>2, Climb
<1>4. Kept(31)
  BY <1>3
<1>5. QED
  BY <1>4

(* x has a greater order than the frame has bits.                          *)
LEMMA TableNotOne == \A k \in 1 .. 31 : Table(k) # {0}
<1>8. Table(8) # {0}
  BY DEF Table
<1>9. Table(9) # {0}
  BY DEF Table
<1>10. Table(10) # {0}
  BY DEF Table
<1>11. Table(11) # {0}
  BY DEF Table
<1>12. Table(12) # {0}
  BY DEF Table
<1>13. Table(13) # {0}
  BY DEF Table
<1>14. Table(14) # {0}
  BY DEF Table
<1>15. Table(15) # {0}
  BY DEF Table
<1>16. Table(16) # {0}
  BY DEF Table
<1>17. Table(17) # {0}
  BY DEF Table
<1>18. Table(18) # {0}
  BY DEF Table
<1>19. Table(19) # {0}
  BY DEF Table
<1>20. Table(20) # {0}
  BY DEF Table
<1>21. Table(21) # {0}
  BY DEF Table
<1>22. Table(22) # {0}
  BY DEF Table
<1>23. Table(23) # {0}
  BY DEF Table
<1>24. Table(24) # {0}
  BY DEF Table
<1>25. Table(25) # {0}
  BY DEF Table
<1>26. Table(26) # {0}
  BY DEF Table
<1>27. Table(27) # {0}
  BY DEF Table
<1>28. Table(28) # {0}
  BY DEF Table
<1>29. Table(29) # {0}
  BY DEF Table
<1>30. Table(30) # {0}
  BY DEF Table
<1>31. Table(31) # {0}
  BY DEF Table
<1>32. \A k \in 1 .. 7 : Table(k) # {0}
  BY TableLow
<1>33. QED
  BY <1>8, <1>9, <1>10, <1>11, <1>12, <1>13, <1>14, <1>15,
     <1>16, <1>17, <1>18, <1>19, <1>20, <1>21, <1>22, <1>23,
     <1>24, <1>25, <1>26, <1>27, <1>28, <1>29, <1>30, <1>31,
     <1>32

LEMMA PowersTable == \A k \in 0 .. 31 : Powers[k] = Table(k)
<1> DEFINE S == {k \in 0 .. 31 : Powers[k] = Table(k)}
<1>1. 0 \in S
  <2>1. 0 \in 0 .. 7 /\ 0 \in 0 .. 31
    OBVIOUS
  <2>2. Powers[0] = {0} /\ Table(0) = {0}
    BY <2>1, PowersRecursive, TableLow
  <2>3. QED
    BY <2>1, <2>2
<1>2. ASSUME NEW k \in 0 .. 31 - 1, k \in S PROVE k + 1 \in S
  <2>1. k + 1 \in 0 .. 31 /\ (k + 1) - 1 = k /\ (k + 1 \in 0 .. 7 \/ k + 1 \in 8 .. 31)
    OBVIOUS
  <2>2. Powers[k] = Table(k)
    BY <1>2
  <2>3. Powers[k + 1] = Table(k + 1)
    BY <2>1, <2>2, PowersRecursive, TableLow, TableReduced
  <2>4. QED
    BY <2>1, <2>3
<1>3. \A k \in 0 .. 31 : k \in S
  <2> HIDE DEF S
  <2> QED
    BY <1>1, <1>2, Climb
<1>4. QED
  BY <1>3

(* Two bits, d apart, at the bottom of the frame.                          *)
LEMMA PairNoticed ==
  ASSUME NEW d \in 1 .. 23
  PROVE  Residue({0, d}) # {}
<1>1. {0} \in Upto(31) /\ {d} \in Upto(31) /\ 31 \in Nat
  BY DEF Upto
<1>2. {0, d} = Xor({0}, {d})
  BY DEF Xor
<1>3. Residue({0, d}) = Xor(Powers[0], Powers[d])
  <2>1. Residue({0, d}) = Xor(Residue({0}), Residue({d}))
    BY <1>1, <1>2, ResidueXor
  <2>2. 0 \in 0 .. 31 /\ d \in 0 .. 31
    OBVIOUS
  <2>3. QED
    BY <2>1, <2>2, PowerResidue
<1>4. Powers[0] = {0} /\ Powers[d] # {0}
  BY PowersStep, PowersTable, TableNotOne
<1>5. QED
  BY <1>3, <1>4 DEF Xor

(* What is moved up from the bottom is noticed if it is noticed there.     *)
LEMMA MovedNoticed ==
  ASSUME NEW f \in 0 .. 23, NEW a \in Upto(31 - f), Residue(Shift(a, f)) = {}
  PROVE  Residue(a) = {}
<1>1. {} \in Upto(31 - f) /\ Shift({}, f) = {}
  BY DEF Upto, Shift
<1>2. Residue(Shift(a, f)) = Residue(Shift({}, f))
  BY <1>1, NoResidue
<1>3. QED
  BY <1>1, <1>2, NoResidue, ResidueShift

LEMMA Noticed ==
  ASSUME NEW e, Typical(e), Residue(e) = {}
  PROVE  e = {}
<1>1. /\ e \in Upto(23) /\ e \in Upto(31) /\ e \in SUBSET Int
      /\ \A b \in e : b \in 0 .. 23
  BY DEF Typical, Upto
<1>2. IsFiniteSet(e) /\ Cardinality(e) \in Nat
  <2>1. 23 \in Nat
    OBVIOUS
  <2>2. QED
    BY <1>1, <2>1, FiniteWord, FS_CardinalityType
<1>3. ~Odd(e)
  <2>1. Cardinality({}) = 0 /\ 0 % 2 = 0
    BY FS_EmptySet
  <2>2. ~Odd({})
    BY <2>1 DEF Odd
  <2>3. QED
    BY <1>1, <2>2, OddResidue
<1>4. CASE \E f \in 0 .. 16 : e \subseteq f .. f + 7
  <2>1. PICK f \in 0 .. 16 : e \subseteq f .. f + 7
    BY <1>4
  <2> DEFINE low == Shift(e, -f)
  <2>2. \A x : x \in low <=> x \in Int /\ x - (-f) \in e
    BY <1>1, ShiftBits
  <2>3. low \in Bytes /\ low \in Upto(31 - f) /\ low \in SUBSET Int
    BY <2>1, <2>2 DEF Bytes, Upto
  <2>4. e = Shift(low, f)
    <3>1. \A x : x \in Shift(low, f) <=> x \in Int /\ x - f \in low
      BY <2>3, ShiftBits
    <3>2. \A x \in Int : x - f \in Int /\ (x - f) - (-f) = x
      OBVIOUS
    <3>3. \A x : x \in Shift(low, f) <=> x \in e
      BY <1>1, <2>2, <3>1, <3>2
    <3>4. QED
      BY <3>3
  <2> HIDE DEF low
  <2>5. Residue(low) = {}
    BY <2>3, <2>4, MovedNoticed
  <2>6. low = {}
    BY <2>3, <2>5, ResidueByte
  <2>7. QED
    BY <2>4, <2>6 DEF Shift
<1>5. CASE Cardinality(e) <= 2
  <2>1. Cardinality(e) = 0 \/ Cardinality(e) = 2
    BY <1>2, <1>3, <1>5 DEF Odd
  <2>2. ASSUME Cardinality(e) = 2 PROVE FALSE
    <3>1. PICK x \in e : TRUE
      BY <2>2, FS_EmptySet
    <3>2. IsFiniteSet(e \ {x}) /\ Cardinality(e \ {x}) = 1
      BY <1>2, <2>2, <3>1, FS_RemoveElement
    <3>3. PICK y : e \ {x} = {y}
      BY <3>2, FS_Singleton
    <3>4. e = {x, y} /\ x # y /\ x \in 0 .. 23 /\ y \in 0 .. 23
      BY <1>1, <3>1, <3>3
    <3>5. ASSUME NEW a \in 0 .. 23, NEW b \in 0 .. 23, e = {a, b}, a < b
          PROVE  FALSE
      <4>1. b - a \in 1 .. 23
        BY <3>5
      <4>2. {0, b - a} \in Upto(31 - a)
        BY <3>5 DEF Upto
      <4>3. Shift({0, b - a}, a) = {a, b}
        BY <3>5 DEF Shift
      <4>4. Residue({0, b - a}) = {}
        BY <3>5, <4>2, <4>3, MovedNoticed
      <4>5. QED
        BY <4>1, <4>4, PairNoticed
    <3>6. x < y \/ y < x
      BY <3>4
    <3>7. e = {y, x}
      BY <3>4
    <3>8. QED
      BY <3>4, <3>5, <3>6, <3>7
  <2>3. QED
    BY <1>2, <2>1, <2>2, FS_EmptySet
<1>6. QED
  BY <1>3, <1>4, <1>5 DEF Typical, Odd

-----------------------------------------------------------------------------
(* The number made of the two bytes.                                       *)

Worth(a, b) == IF b \in a THEN 2 ^ b ELSE 0

LEMMA PowersOfTwo ==
  /\ 2 ^ 0 = 1 /\ 2 ^ 1 = 2 /\ 2 ^ 2 = 4 /\ 2 ^ 3 = 8
  /\ 2 ^ 4 = 16 /\ 2 ^ 5 = 32 /\ 2 ^ 6 = 64 /\ 2 ^ 7 = 128
BY SMT

LEMMA ByteNumber ==
  ASSUME NEW a
  PROVE  /\ Byte(a) \in 0 .. 255
         /\ Byte(a) = 0 <=> \A b \in 0 .. 7 : b \notin a
         /\ Byte(a) < 4 <=> \A b \in 2 .. 7 : b \notin a
<1> DEFINE W(b) == Worth(a, b)
<1>1. Byte(a) = W(0) + W(1) + W(2) + W(3) + W(4) + W(5) + W(6) + W(7)
  BY DEF Byte, Worth
<1>2. /\ W(0) = IF 0 \in a THEN 1 ELSE 0
      /\ W(1) = IF 1 \in a THEN 2 ELSE 0
      /\ W(2) = IF 2 \in a THEN 4 ELSE 0
      /\ W(3) = IF 3 \in a THEN 8 ELSE 0
      /\ W(4) = IF 4 \in a THEN 16 ELSE 0
      /\ W(5) = IF 5 \in a THEN 32 ELSE 0
      /\ W(6) = IF 6 \in a THEN 64 ELSE 0
      /\ W(7) = IF 7 \in a THEN 128 ELSE 0
  BY PowersOfTwo DEF Worth
<1> HIDE DEF W
<1>3. Byte(a) \in 0 .. 255
  BY <1>1, <1>2
<1>4. Byte(a) = 0 <=> ~(\/ 0 \in a \/ 1 \in a \/ 2 \in a \/ 3 \in a
                        \/ 4 \in a \/ 5 \in a \/ 6 \in a \/ 7 \in a)
  BY <1>1, <1>2
<1>5. Byte(a) < 4 <=> ~(\/ 2 \in a \/ 3 \in a
                        \/ 4 \in a \/ 5 \in a \/ 6 \in a \/ 7 \in a)
  BY <1>1, <1>2
<1>6. (\A b \in 0 .. 7 : b \notin a) <=> ~(\/ 0 \in a \/ 1 \in a \/ 2 \in a \/ 3 \in a
                        \/ 4 \in a \/ 5 \in a \/ 6 \in a \/ 7 \in a)
  BY SMT
<1>7. (\A b \in 2 .. 7 : b \notin a) <=> ~(\/ 2 \in a \/ 3 \in a
                        \/ 4 \in a \/ 5 \in a \/ 6 \in a \/ 7 \in a)
  BY SMT
<1>8. QED
  BY <1>3, <1>4, <1>5, <1>6, <1>7

LEMMA NumberBits ==
  ASSUME NEW a \in Upto(15)
  PROVE  Number(a) - (Number(a) % 4) = 0 <=> a \cap (2 .. 15) = {}
<1> DEFINE h == Byte(Shift(a, -8))
           l == Byte(a)
<1>1. h \in 0 .. 255 /\ l \in 0 .. 255
  BY ByteNumber
<1>2. Number(a) = 256 * h + l
  BY DEF Number
<1>3. h = 0 <=> \A b \in 8 .. 15 : b \notin a
  <2>1. a \in SUBSET Int /\ -8 \in Int
    BY DEF Upto
  <2>2. \A x : x \in Shift(a, -8) <=> x \in Int /\ x - (-8) \in a
    BY <2>1, ShiftBits
  <2>3. (\A b \in 0 .. 7 : b \notin Shift(a, -8)) <=> (\A b \in 8 .. 15 : b \notin a)
    <3>1. \A b \in 8 .. 15 : b - 8 \in 0 .. 7 /\ (b - 8) - (-8) = b
      OBVIOUS
    <3>2. \A b \in 0 .. 7 : b - (-8) \in 8 .. 15 /\ b \in Int
      OBVIOUS
    <3>3. QED
      BY <2>2, <3>1, <3>2
  <2>4. QED
    BY <2>3, ByteNumber
<1>4. l < 4 <=> \A b \in 2 .. 7 : b \notin a
  BY ByteNumber
<1>5. a \cap (2 .. 15) = {} <=> (\A b \in 2 .. 7 : b \notin a) /\ (\A b \in 8 .. 15 : b \notin a)
  OBVIOUS
<1> HIDE DEF h, l
<1>6. Number(a) - (Number(a) % 4) = 0 <=> h = 0 /\ l < 4
  BY <1>1, <1>2, SMT
<1>7. QED
  BY <1>3, <1>4, <1>5, <1>6

-----------------------------------------------------------------------------
(* What main() makes of the word: HTU21Value on its own.                   *)

ValueInv ==
  /\ word \in Word16
  /\ asked \in {"temp", "hum"}
  /\ pc \in {"zero", "convert", "print", "printed"} => raw = word - (word % 4)
  /\ pc \in {"print", "printed"} => value = Scaled(asked, raw)
  /\ pc = "printed" => text = Text(value)

(* Scaling is the sensor's formula to the hundredth below.                 *)
LEMMA ScaledSensed ==
  ASSUME NEW q \in {"temp", "hum"}, NEW w \in Word16
  PROVE  /\ Scaled(q, w - (w % 4)) \in Int
         /\ Sensed(q, w, Scaled(q, w - (w % 4)))
<1> DEFINE r == w - (w % 4)
<1>1. r \in Nat /\ w \in Nat
  BY DEF Word16
<1> HIDE DEF r
<1>2. /\ Scaled(q, r) \in Int
      /\ q = "temp" => /\ 0 <= 17572 * r - 65536 * (Scaled(q, r) + 4685)
                       /\ 17572 * r - 65536 * (Scaled(q, r) + 4685) < 65536
      /\ q = "hum"  => /\ 0 <= 12500 * r - 65536 * (Scaled(q, r) + 600)
                       /\ 12500 * r - 65536 * (Scaled(q, r) + 600) < 65536
  BY <1>1 DEF Scaled
<1>3. QED
  BY <1>1, <1>2 DEF Sensed, r

(* A value that is not negative is printed with two decimals, and as it is.*)
LEMMA TextReads ==
  ASSUME NEW v \in Int, v >= 0
  PROVE  Text(v).frac < 100 /\ Reads(Text(v)) = v
<1> DEFINE qt == v \div 100
           rm == v - 100 * qt
<1>1. qt \in Nat /\ rm \in 0 .. 99
  OBVIOUS
<1>2. Quotient(v) = qt /\ Remainder(v) = rm
  BY DEF Quotient, Remainder
<1>3. rm % ULong = rm
  BY <1>1, ULongAssumption
<1>4. QED
  BY <1>1, <1>2, <1>3 DEF Text, Reads

(* Every reading that is not below zero is printed as the sensor's         *)
(* formula, whatever the status bits, with two decimals.                   *)
THEOREM FormulaPrinted == Spec => []PrintsFormula
<1>1. Init => ValueInv
  BY WordsAssumption DEF Init, ValueInv
<1>2. ValueInv /\ [Next]_vars => ValueInv'
  BY DEF ValueInv, Next, Mask, Zero, Convert, Output, vars
<1>3. ValueInv => PrintsFormula
  <2> SUFFICES ASSUME ValueInv, pc = "printed", value >= 0
               PROVE  text.frac < 100 /\ Sensed(asked, word, Reads(text))
    BY DEF PrintsFormula
  <2>1. value \in Int /\ Sensed(asked, word, value)
    BY ScaledSensed DEF ValueInv
  <2>2. text.frac < 100 /\ Reads(text) = value
    BY <2>1, TextReads DEF ValueInv
  <2>3. QED
    BY <2>1, <2>2
<1>4. QED
  BY <1>1, <1>2, <1>3, PTL DEF Spec

-----------------------------------------------------------------------------
(* The way of one answer.                                                  *)

AnswerInv ==
  /\ CrcInv
  /\ word = Number(DataBytes)
  /\ verdict # "accept" => pc = "mask"
  /\ pc \in {"mask", "zero", "convert", "print", "printed", "refused"}
  /\ pc # "mask" => raw = word - (word % 4)
  /\ pc \in {"convert", "print", "printed"} => raw # 0
  /\ pc = "refused" => raw = 0

LEMMA InitAnswer == AnswerInit => AnswerInv
<1> SUFFICES ASSUME AnswerInit PROVE AnswerInv
  OBVIOUS
<1>1. CrcInv /\ word = Number(DataBytes)
  BY InitCrc DEF AnswerInit
<1>2. pc = "mask" /\ verdict = "none"
  BY DEF AnswerInit, Init, CrcInit
<1>3. QED
  BY <1>1, <1>2 DEF AnswerInv

LEMMA StepAnswer == AnswerInv /\ [AnswerNext]_<<crcVars, vars>> => AnswerInv'
<1> SUFFICES ASSUME AnswerInv, [AnswerNext]_<<crcVars, vars>> PROVE AnswerInv'
  OBVIOUS
<1>1. CASE CrcNext /\ UNCHANGED vars
  <2>1. CrcInv'
    BY <1>1, CrcStep DEF AnswerInv
  <2>2. UNCHANGED <<sent, noise, word, pc, raw>>
    BY <1>1 DEF CrcNext, Round, Compare, vars
  <2>3. DataBytes' = DataBytes
    BY <2>2 DEF DataBytes, Received, Sent
  <2>4. verdict # "accept"
    BY <1>1 DEF CrcNext, Round, Compare, AnswerInv, CrcInv, Rounds
  <2>5. QED
    BY <2>1, <2>2, <2>3, <2>4 DEF AnswerInv
<1>2. CASE verdict = "accept" /\ Next /\ UNCHANGED crcVars
  <2>1. CrcInv'
    BY <1>2, CrcStep DEF AnswerInv
  <2>2. UNCHANGED <<sent, noise, verdict, word>>
    BY <1>2 DEF crcVars, Next, Mask, Zero, Convert, Output
  <2>3. DataBytes' = DataBytes
    BY <2>2 DEF DataBytes, Received, Sent
  <2>4. CASE Mask
    BY <1>2, <2>1, <2>2, <2>3, <2>4 DEF Mask, AnswerInv
  <2>5. CASE Zero
    BY <1>2, <2>1, <2>2, <2>3, <2>5 DEF Zero, AnswerInv
  <2>6. CASE Convert
    BY <1>2, <2>1, <2>2, <2>3, <2>6 DEF Convert, AnswerInv
  <2>7. CASE Output
    BY <1>2, <2>1, <2>2, <2>3, <2>7 DEF Output, AnswerInv
  <2>8. QED
    BY <1>2, <2>4, <2>5, <2>6, <2>7 DEF Next
<1>3. CASE UNCHANGED <<crcVars, vars>>
  <2>1. CrcInv'
    BY <1>3, CrcStep DEF AnswerInv
  <2>2. UNCHANGED <<sent, noise, verdict, word, pc, raw>>
    BY <1>3 DEF crcVars, vars
  <2>3. DataBytes' = DataBytes
    BY <2>2 DEF DataBytes, Received, Sent
  <2>4. QED
    BY <2>1, <2>2, <2>3 DEF AnswerInv
<1>4. QED
  BY <1>1, <1>2, <1>3 DEF AnswerNext

THEOREM AnswerInvariance == AnswerSpec => []AnswerInv
<1>1. QED
  BY InitAnswer, StepAnswer, PTL DEF AnswerSpec

(* No turn of calc_crc's loop changes the residue that it computes.        *)
THEOREM CongruentAlways == AnswerSpec => []Congruent
<1>1. AnswerInv => Congruent
  BY DEF AnswerInv, CrcInv
<1>2. QED
  BY <1>1, AnswerInvariance, PTL

(* Once it has judged, valid_crc has accepted what arrived as it was sent  *)
(* and nothing else.                                                       *)
LEMMA Judged ==
  ASSUME AnswerInv, verdict # "none"
  PROVE  verdict = "accept" <=> noise = {}
<1>1. CrcInv /\ i = 16
  BY DEF AnswerInv, CrcInv
<1>2. noise \in Upto(23)
  BY <1>1 DEF CrcInv, Typical, Upto
<1>3. verdict = "accept" <=> Residue(noise) = {}
  BY <1>1, <1>2, AcceptsMultiples DEF CrcInv
<1>4. Residue(noise) = {} <=> noise = {}
  BY <1>1, Noticed, NoResidue DEF CrcInv
<1>5. QED
  BY <1>3, <1>4

(* Undisturbed, the two bytes are the word.                                *)
LEMMA Undisturbed ==
  ASSUME sent \in Upto(15), noise = {}
  PROVE  DataBytes = sent
<1>1. Residue(Shift(sent, 8)) \in Bytes
  BY ResidueBits
<1>2. sent \in SUBSET Int /\ \A b \in sent : b \in 0 .. 15
  BY DEF Upto
<1>3. Received = Shift(sent, 8) \cup Residue(Shift(sent, 8))
  BY DEF Received, Xor, Sent
<1>4. \A x : x \in Shift(sent, 8) <=> x \in Int /\ x - 8 \in sent
  BY <1>2, ShiftBits
<1>5. Received \cap (8 .. 23) = Shift(sent, 8)
  BY <1>1, <1>2, <1>3, <1>4 DEF Bytes
<1>6. -8 \in Int /\ 8 \in Int /\ 8 + (-8) = 0
  OBVIOUS
<1>7. Shift(Shift(sent, 8), -8) = Shift(sent, 8 + (-8))
  BY <1>2, <1>6, ShiftTwice
<1>8. \A x : x \in Shift(sent, 0) <=> x \in Int /\ x - 0 \in sent
  BY <1>2, <1>6, ShiftBits
<1>9. \A x \in Int : x - 0 = x
  OBVIOUS
<1>10. Shift(sent, 0) = sent
  BY <1>2, <1>8, <1>9
<1>11. QED
  BY <1>5, <1>6, <1>7, <1>10 DEF DataBytes

(* A number is printed for every word but zero that arrives as it was      *)
(* sent, and, whatever typical error disturbs it, for no other.            *)
THEOREM PrintsSentAlways == AnswerSpec => []PrintsSent
<1>1. AnswerInv => PrintsSent
  <2> SUFFICES ASSUME AnswerInv, verdict = "reject" \/ pc \in {"printed", "refused"}
               PROVE  pc = "printed" <=> noise = {} /\ sent \cap (2 .. 15) # {}
    BY DEF PrintsSent
  <2>1. CASE verdict = "reject"
    <3>1. pc = "mask" /\ noise # {}
      BY <2>1, Judged DEF AnswerInv
    <3>2. QED
      BY <3>1
  <2>2. CASE verdict # "reject"
    <3>1. pc \in {"printed", "refused"} /\ verdict = "accept" /\ pc # "mask"
      BY <2>2 DEF AnswerInv
    <3>2. noise = {} /\ sent \in Upto(15)
      BY <3>1, Judged DEF AnswerInv, CrcInv
    <3>3. word = Number(sent) /\ raw = word - (word % 4)
      BY <3>1, <3>2, Undisturbed DEF AnswerInv
    <3>4. raw = 0 <=> sent \cap (2 .. 15) = {}
      BY <3>2, <3>3, NumberBits
    <3>5. pc = "printed" <=> raw # 0
      BY <3>1 DEF AnswerInv
    <3>6. QED
      BY <3>2, <3>4, <3>5
  <2>3. QED
    BY <2>1, <2>2
<1>2. QED
  BY <1>1, AnswerInvariance, PTL

(* An answer that is printed is printed as in any run of main(): the whole *)
(* way implements HTU21Value, so that the formula holds of it too.         *)
THEOREM AnswerFormula == AnswerSpec => []PrintsFormula
<1>1. AnswerInit => Init
  BY DEF AnswerInit
<1>2. [AnswerNext]_<<crcVars, vars>> => [Next]_vars
  BY DEF AnswerNext
<1>3. AnswerSpec => Spec
  BY <1>1, <1>2, PTL DEF AnswerSpec, Spec
<1>4. QED
  BY <1>3, FormulaPrinted, PTL

=============================================================================
