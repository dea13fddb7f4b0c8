------------------------- MODULE FanCalibrateProofs -------------------------
(***************************************************************************)
(* Proofs about FanCalibrate for any fans, any duty of full speed, any     *)
(* contents of the divisor registers and any number of runs.               *)
(***************************************************************************)
EXTENDS FanCalibrate, TLAPS

(* Where the program is in its loops: there is a fan and a duty while it   *)
(* sweeps.                                                                 *)
Order ==
  /\ pc = "divisors" => i = 1 /\ j = Full
  /\ pc = "done" => i = Len(Divno) + 1
  /\ pc \in Sweeping => i \in Fan /\ j \in Duty

(* The current fan has the duty of the sweep, or the one before it.        *)
InStep ==
  /\ pc = "down" => duty[i] \in {j, j + 1}
  /\ pc = "up" => duty[i] \in {j, j - 1}
  /\ pc \in {"downread", "upread"} => duty[i] = j

(* What has been printed: two rows of each duty of the fans before i, none *)
(* of those after it, and of fan i those the sweeps have passed.           *)
Passed(f, d) ==
  /\ f < i => rows[f][d] = 2
  /\ f > i => rows[f][d] = 0
  /\ f = i /\ pc \in {"divisors", "full"} => rows[f][d] = 0
  /\ f = i /\ pc \in {"down", "downread"} => rows[f][d] = IF d > j THEN 1 ELSE 0
  /\ f = i /\ pc \in {"up", "upread"} => rows[f][d] = IF d < j THEN 2 ELSE 1

Counted ==
  pc \in Running \cup {"done"} => \A f \in Fan, d \in Duty : Passed(f, d)

FanInv == TypeOK /\ Order /\ InStep /\ OneFanSlowed /\ Counted

USE DivnoAssumption, FullAssumption, RunsAssumption

-----------------------------------------------------------------------------
LEMMA FanCount == Len(Divno) \in Nat /\ \A f \in Fan : Divno[f] \in {1, 2, 3}
BY DEF Fan

(* A bit is 0 or 1, and three of them are a divisor.                       *)
LEMMA BitValue ==
  ASSUME NEW x \in Int
  PROVE  Bit(x, 2) \in 0 .. 1
BY DEF Bit

LEMMA DivisorRange ==
  ASSUME NEW n \in {1, 2, 3}, NEW r \in Registers
  PROVE  Divisor(n, r) \in 0 .. 7
<1> DEFINE lower == IF n = 3 THEN r.cr4b ELSE r.cr47
           b == Bit(r.cr5d \div <<8, 16, 32>>[n], 2)
           l == (lower \div <<16, 64, 64>>[n]) % 4
<1>1. r.cr5d \in 0 .. 255 /\ r.cr47 \in 0 .. 255 /\ r.cr4b \in 0 .. 255
  BY RegistersAssumption
<1>2. b \in 0 .. 1
  <2> DEFINE k == <<8, 16, 32>>[n]
             x == r.cr5d
  <2>1. k \in {8, 16, 32}
    OBVIOUS
  <2>2. x \in 0 .. 255
    BY <1>1
  <2> HIDE DEF k, x
  <2>3. x \div k \in Int
    BY <2>1, <2>2
  <2>4. QED
    BY <2>3, BitValue DEF k, x
<1>3. l \in 0 .. 3
  <2>1. lower \in 0 .. 255
    BY <1>1
  <2> HIDE DEF lower
  <2> DEFINE k == <<16, 64, 64>>[n]
  <2>2. k \in {16, 64}
    OBVIOUS
  <2> HIDE DEF k
  <2>3. lower \div k \in Int
    BY <2>1, <2>2
  <2>4. QED
    BY <2>3 DEF k
<1>4. Divisor(n, r) = 4 * b + l
  BY DEF Divisor
<1> HIDE DEF b, l
<1>5. QED
  BY <1>2, <1>3, <1>4

-----------------------------------------------------------------------------
LEMMA InitInv == Init => FanInv
<1> SUFFICES ASSUME Init PROVE FanInv
  OBVIOUS
<1>1. TypeOK
  BY FanCount DEF Init, TypeOK, NoRows, Fan, Duty, Loc, Running, Sweeping, RowsBound
<1>2. Order /\ InStep /\ Counted
  BY DEF Init, Order, InStep, Counted, Running, Sweeping
<1>3. OneFanSlowed
  BY FanCount DEF Init, OneFanSlowed, Fan
<1>4. QED
  BY <1>1, <1>2, <1>3 DEF FanInv

(* A program that ends on the spot, the duty of the current fan being one  *)
(* of the two it may be.                                                   *)
LEMMA FailKeeps ==
  ASSUME FanInv, Fail, UNCHANGED <<regs, before, run>>,
         pc \in Running,
         UNCHANGED duty \/ (i \in Fan /\ \E d \in Duty : Written(d))
  PROVE  FanInv'
<1> USE DEF FanInv, Fail
<1>1. duty' \in [Fan -> Duty]
  BY DEF TypeOK, Written
<1>2. TypeOK'
  BY <1>1 DEF TypeOK, Loc
<1>3. Order' /\ InStep' /\ Counted'
  BY DEF Order, InStep, Counted, Running, Sweeping
<1>4. OneFanSlowed'
  BY FanCount DEF OneFanSlowed, Written, TypeOK, Fan
<1>5. QED
  BY <1>2, <1>3, <1>4

LEMMA StartKeeps == FanInv /\ Start => FanInv'
<1> SUFFICES ASSUME FanInv, Start PROVE FanInv'
  OBVIOUS
<1> USE DEF FanInv, Start, chip
<1>1. TypeOK'
  BY FanCount DEF TypeOK, NoRows, Fan, Duty, Loc, Running, Sweeping, RowsBound
<1>2. Order' /\ InStep'
  BY DEF Order, InStep, Sweeping
<1>3. Counted'
  BY FanCount DEF Counted, NoRows, Passed, Running, Sweeping, Fan
<1>4. OneFanSlowed'
  BY FanCount DEF OneFanSlowed, Fan
<1>5. QED
  BY <1>1, <1>2, <1>3, <1>4

LEMMA DivisorsKeep == FanInv /\ ReadDivisors => FanInv'
<1> SUFFICES ASSUME FanInv, ReadDivisors PROVE FanInv'
  OBVIOUS
<1>1. CASE Fail
  BY <1>1, FailKeeps DEF ReadDivisors, chip, Running
<1>2. CASE ~Fail
  <2>0. /\ div' = [f \in Fan |-> Divisor(Divno[f], regs)]
        /\ pc = "divisors" /\ pc' = IF Fan = {} THEN "done" ELSE "full"
        /\ UNCHANGED <<duty, regs, i, j, rows, before, run>>
    BY <1>2 DEF ReadDivisors, chip
  <2>1. div' \in [Fan -> 0 .. 7]
    <3>1. ASSUME NEW f \in Fan PROVE Divisor(Divno[f], regs) \in 0 .. 7
      <4>1. Divno[f] \in {1, 2, 3} /\ regs \in Registers
        BY FanCount DEF FanInv, TypeOK
      <4>2. QED
        BY <4>1, DivisorRange
    <3>2. QED
      BY <2>0, <3>1
  <2>2. TypeOK'
    <3>1. pc' \in Loc
      BY <2>0 DEF Loc, Running, Sweeping
    <3>2. QED
      BY <2>0, <2>1, <3>1 DEF FanInv, TypeOK
  <2>3. Order' /\ InStep'
    <3>1. i = 1 /\ j \in Duty
      BY <2>0 DEF FanInv, Order, Duty
    <3>2. IF Fan = {} THEN Len(Divno) = 0 ELSE 1 \in Fan
      BY FanCount DEF Fan
    <3>3. QED
      BY <2>0, <3>1, <3>2 DEF Order, InStep, Sweeping
  <2>4. OneFanSlowed'
    BY <2>0 DEF FanInv, OneFanSlowed
  <2>5. Counted'
    <3>1. CASE Fan = {}
      BY <3>1 DEF Counted
    <3>2. CASE Fan # {}
      <4>1. ASSUME NEW f \in Fan, NEW d \in Duty PROVE Passed(f, d)'
        <5>1. Passed(f, d)
          BY <2>0 DEF FanInv, Counted, Running
        <5>2. QED
          BY <2>0, <3>2, <5>1 DEF Passed
      <4>2. QED
        BY <4>1 DEF Counted
    <3>3. QED
      BY <3>1, <3>2
  <2>6. QED
    BY <2>2, <2>3, <2>4, <2>5 DEF FanInv
<1>3. QED
  BY <1>1, <1>2

LEMMA FullSpeedKeeps == FanInv /\ FullSpeed => FanInv'
<1> SUFFICES ASSUME FanInv, FullSpeed PROVE FanInv'
  OBVIOUS
<1>1. Full \in Duty
  BY DEF Duty
<1>2. i \in Fan
  BY DEF FanInv, Order, FullSpeed, Sweeping
<1>3. CASE Fail
  BY <1>1, <1>2, <1>3, FailKeeps DEF FullSpeed, MaybeWritten, Running, Sweeping
<1>4. CASE ~Fail
  <2>1. /\ pc = "full" /\ pc' = "down" /\ j' = Full
        /\ duty' = [duty EXCEPT ![i] = Full]
        /\ UNCHANGED <<regs, i, div, rows, before, run>>
    BY <1>4 DEF FullSpeed, Written
  <2>2. duty \in [Fan -> Duty] /\ i \in Int
    BY DEF FanInv, TypeOK
  <2>3. duty' \in [Fan -> Duty] /\ duty'[i] = Full
    BY <1>1, <1>2, <2>1, <2>2
  <2>4. TypeOK'
    BY <2>1, <2>3 DEF FanInv, TypeOK, Loc, Running, Sweeping
  <2>5. Order' /\ InStep'
    BY <1>1, <1>2, <2>1, <2>3 DEF Order, InStep
  <2>6. OneFanSlowed'
    BY <1>2, <2>1, <2>2 DEF FanInv, OneFanSlowed, Fan
  <2>7. Counted'
    <3> SUFFICES ASSUME NEW f \in Fan, NEW d \in Duty PROVE Passed(f, d)'
      BY DEF Counted
    <3>1. Passed(f, d) /\ d \in Int /\ d <= Full
      BY <2>1 DEF FanInv, Counted, Running, Sweeping, Duty
    <3>2. QED
      BY <2>1, <3>1 DEF Passed
  <2>8. QED
    BY <2>4, <2>5, <2>6, <2>7 DEF FanInv
<1>5. QED
  BY <1>3, <1>4

LEMMA SetDutyKeeps == FanInv /\ SetDuty => FanInv'
<1> SUFFICES ASSUME FanInv, SetDuty PROVE FanInv'
  OBVIOUS
<1>1. i \in Fan /\ j \in Duty
  BY DEF FanInv, Order, SetDuty, Sweeping
<1>2. CASE Fail
  BY <1>1, <1>2, FailKeeps DEF SetDuty, MaybeWritten, Running, Sweeping
<1>3. CASE ~Fail
  <2>1. /\ \/ pc = "down" /\ pc' = "downread"
           \/ pc = "up" /\ pc' = "upread"
        /\ duty' = [duty EXCEPT ![i] = j]
        /\ UNCHANGED <<regs, i, j, div, rows, before, run>>
    BY <1>3 DEF SetDuty, Written
  <2>2. duty \in [Fan -> Duty] /\ i \in Int
    BY DEF FanInv, TypeOK
  <2>3. duty' \in [Fan -> Duty] /\ duty'[i] = j
    BY <1>1, <2>1, <2>2
  <2>4. TypeOK'
    BY <2>1, <2>3 DEF FanInv, TypeOK, Loc, Running, Sweeping
  <2>5. Order' /\ InStep'
    BY <1>1, <2>1, <2>3 DEF Order, InStep
  <2>6. OneFanSlowed'
    BY <1>1, <2>1, <2>2 DEF FanInv, OneFanSlowed, Fan
  <2>7. Counted'
    <3> SUFFICES ASSUME NEW f \in Fan, NEW d \in Duty PROVE Passed(f, d)'
      BY DEF Counted
    <3>1. Passed(f, d)
      BY <2>1 DEF FanInv, Counted, Running, Sweeping
    <3>2. QED
      BY <2>1, <3>1 DEF Passed
  <2>8. QED
    BY <2>4, <2>5, <2>6, <2>7 DEF FanInv
<1>4. QED
  BY <1>2, <1>3

(* A row of the current fan, of which there were fewer than three.         *)
LEMMA OneRow ==
  ASSUME FanInv, i \in Fan, j \in Duty, duty[i] = j, Printed,
         rows[i][j] \in 0 .. 1
  PROVE  /\ rows' \in [Fan -> [Duty -> 0 .. RowsBound]]
         /\ rows'[i][j] = rows[i][j] + 1
         /\ \A f \in Fan, d \in Duty : f # i \/ d # j => rows'[f][d] = rows[f][d]
<1>1. rows \in [Fan -> [Duty -> 0 .. RowsBound]]
  BY DEF FanInv, TypeOK
<1>2. rows' = [rows EXCEPT ![i] = [rows[i] EXCEPT ![j] = rows[i][j] + 1]]
  <2>1. rows[i][j] < RowsBound
    BY DEF RowsBound
  <2>2. rows' = [rows EXCEPT ![i][j] = IF @ < RowsBound THEN @ + 1 ELSE @]
    BY DEF Printed
  <2>3. QED
    BY <2>1, <2>2
<1>3. rows[i][j] + 1 \in 0 .. RowsBound
  BY DEF RowsBound
<1>4. QED
  BY <1>1, <1>2, <1>3

LEMMA SampleDownKeeps == FanInv /\ SampleDown => FanInv'
<1> SUFFICES ASSUME FanInv, SampleDown PROVE FanInv'
  OBVIOUS
<1>1. /\ i \in Fan /\ j \in Duty /\ duty[i] = j
      /\ i \in Int /\ j \in Int
      /\ \A f \in Fan, d \in Duty : Passed(f, d)
  BY DEF FanInv, Order, InStep, Counted, TypeOK, SampleDown, Running, Sweeping
<1>2. CASE Fail
  BY <1>2, FailKeeps DEF SampleDown, chip, Running, Sweeping
<1>3. CASE ~Fail
  <2>1. /\ pc = "downread" /\ Printed
        /\ IF j > 0 THEN j' = j - 1 /\ pc' = "down" ELSE j' = 0 /\ pc' = "up"
        /\ UNCHANGED <<duty, regs, i, div, before, run>>
    BY <1>3 DEF SampleDown, chip
  <2>2. rows[i][j] = 0
    BY <1>1, <2>1 DEF Passed
  <2>3. /\ rows' \in [Fan -> [Duty -> 0 .. RowsBound]]
        /\ rows'[i][j] = 1
        /\ \A f \in Fan, d \in Duty : f # i \/ d # j => rows'[f][d] = rows[f][d]
    BY <1>1, <2>1, <2>2, OneRow
  <2>4. TypeOK'
    <3>1. j' \in -1 .. Full + 1 /\ pc' \in Loc
      BY <1>1, <2>1 DEF Duty, Loc, Running, Sweeping
    <3>2. QED
      BY <2>1, <2>3, <3>1 DEF FanInv, TypeOK
  <2>5. Order' /\ InStep'
    BY <1>1, <2>1 DEF Order, InStep, Duty
  <2>6. OneFanSlowed'
    BY <2>1 DEF FanInv, OneFanSlowed
  <2>7. Counted'
    <3> SUFFICES ASSUME NEW f \in Fan, NEW d \in Duty PROVE Passed(f, d)'
      BY DEF Counted
    <3>1. Passed(f, d) /\ d \in Int /\ d >= 0
      BY <1>1 DEF Duty
    <3>2. CASE f # i
      <4>1. rows'[f][d] = rows[f][d]
        BY <2>3, <3>2
      <4>2. QED
        BY <2>1, <3>1, <3>2, <4>1 DEF Passed
    <3>3. CASE f = i /\ d = j
      BY <1>1, <2>1, <2>3, <3>1, <3>3 DEF Passed
    <3>4. CASE f = i /\ d # j
      <4>1. rows'[f][d] = IF d > j THEN 1 ELSE 0
        BY <2>1, <2>3, <3>1, <3>4 DEF Passed
      <4>2. QED
        BY <1>1, <2>1, <3>1, <3>4, <4>1 DEF Passed, Duty
    <3>5. QED
      BY <3>2, <3>3, <3>4
  <2>8. QED
    BY <2>4, <2>5, <2>6, <2>7 DEF FanInv
<1>4. QED
  BY <1>2, <1>3

LEMMA SampleUpKeeps == FanInv /\ SampleUp => FanInv'
<1> SUFFICES ASSUME FanInv, SampleUp PROVE FanInv'
  OBVIOUS
<1>1. /\ i \in Fan /\ j \in Duty /\ duty[i] = j
      /\ i \in Int /\ j \in Int
      /\ \A f \in Fan, d \in Duty : Passed(f, d)
  BY DEF FanInv, Order, InStep, Counted, TypeOK, SampleUp, Running, Sweeping
<1>2. CASE Fail
  BY <1>2, FailKeeps DEF SampleUp, chip, Running, Sweeping
<1>3. CASE ~Fail
  <2>1. /\ pc = "upread" /\ Printed
        /\ IF j < Full THEN j' = j + 1 /\ pc' = "up" /\ i' = i
           ELSE /\ j' = Full
                /\ i' = i + 1
                /\ pc' = IF i < Len(Divno) THEN "full" ELSE "done"
        /\ UNCHANGED <<duty, regs, div, before, run>>
    BY <1>3 DEF SampleUp, chip
  <2>2. rows[i][j] = 1
    BY <1>1, <2>1 DEF Passed
  <2>3. /\ rows' \in [Fan -> [Duty -> 0 .. RowsBound]]
        /\ rows'[i][j] = 2
        /\ \A f \in Fan, d \in Duty : f # i \/ d # j => rows'[f][d] = rows[f][d]
    BY <1>1, <2>1, <2>2, OneRow
  <2>4. TypeOK'
    <3>1. j' \in -1 .. Full + 1 /\ pc' \in Loc
      BY <1>1, <2>1 DEF Duty, Loc, Running, Sweeping
    <3>2. i' \in 1 .. Len(Divno) + 1
      BY <1>1, <2>1, FanCount DEF Fan
    <3>3. QED
      BY <2>1, <2>3, <3>1, <3>2 DEF FanInv, TypeOK
  <2>5. ASSUME NEW f \in Fan, NEW d \in Duty, f # i PROVE Passed(f, d)'
    <3>1. rows'[f][d] = rows[f][d] /\ Passed(f, d) /\ f \in Int
      BY <1>1, <2>3, <2>5 DEF Fan
    <3>2. CASE f < i
      BY <1>1, <2>1, <3>1, <3>2 DEF Passed
    <3>3. CASE f > i
      <4>1. rows'[f][d] = 0
        BY <3>1, <3>3 DEF Passed
      <4>2. f >= i' /\ (f = i' => pc' \in {"full", "done"})
        BY <1>1, <2>1, <3>1, <3>3
      <4>3. i' \in Int /\ (f = i' => pc' = "full" \/ f > Len(Divno))
        BY <1>1, <2>1, <3>1, <3>3, FanCount
      <4>4. f <= Len(Divno)
        BY FanCount DEF Fan
      <4>5. f = i' => pc' = "full"
        BY <3>1, <4>3, <4>4, FanCount
      <4>6. QED
        BY <3>1, <4>1, <4>2, <4>3, <4>5 DEF Passed
    <3>4. QED
      BY <1>1, <2>5, <3>1, <3>2, <3>3
  <2>6. CASE j < Full
    <3>1. j' = j + 1 /\ pc' = "up" /\ i' = i
      BY <2>1, <2>6
    <3>2. Order' /\ InStep'
      BY <1>1, <2>1, <2>6, <3>1 DEF Order, InStep, Duty
    <3>3. OneFanSlowed'
      BY <2>1, <3>1 DEF FanInv, OneFanSlowed
    <3>4. ASSUME NEW f \in Fan, NEW d \in Duty, f = i PROVE Passed(f, d)'
      <4>1. d \in Int /\ d <= Full /\ rows[i][d] = IF d < j THEN 2 ELSE 1
        BY <1>1, <2>1 DEF Passed, Duty
      <4>2. rows'[i][d] = IF d < j + 1 THEN 2 ELSE 1
        BY <1>1, <2>3, <4>1
      <4>3. QED
        BY <1>1, <3>1, <3>4, <4>2 DEF Passed
    <3>5. Counted'
      BY <2>5, <3>4 DEF Counted
    <3>6. QED
      BY <2>4, <3>2, <3>3, <3>5 DEF FanInv
  <2>7. CASE j = Full
    <3>1. j' = Full /\ i' = i + 1 /\ pc' = IF i < Len(Divno) THEN "full" ELSE "done"
      BY <1>1, <2>1, <2>7
    <3>2. Order' /\ InStep'
      <4>1. i <= Len(Divno) /\ i >= 1
        BY <1>1, FanCount DEF Fan
      <4>2. IF i < Len(Divno) THEN i + 1 \in Fan ELSE i = Len(Divno)
        BY <1>1, <4>1, FanCount DEF Fan
      <4>3. QED
        BY <1>1, <2>7, <3>1, <4>2 DEF Order, InStep, Sweeping
    <3>3. OneFanSlowed'
      <4>1. ASSUME NEW f \in Fan
            PROVE  (f < i' => duty'[f] = Full) /\ (f > i' => duty'[f] = before'[f])
        <5>1. f \in Int /\ (f < i => duty[f] = Full) /\ (f > i => duty[f] = before[f])
          BY DEF FanInv, OneFanSlowed, Fan
        <5>2. f < i + 1 => f = i \/ f < i
          BY <1>1, <5>1
        <5>3. QED
          BY <1>1, <2>1, <2>7, <3>1, <5>1, <5>2
      <4>2. QED
        BY <4>1 DEF OneFanSlowed
    <3>4. ASSUME NEW f \in Fan, NEW d \in Duty, f = i PROVE Passed(f, d)'
      <4>1. d \in Int /\ d <= Full /\ rows[i][d] = IF d < j THEN 2 ELSE 1
        BY <1>1, <2>1 DEF Passed, Duty
      <4>2. rows'[i][d] = 2
        BY <1>1, <2>3, <2>7, <4>1
      <4>3. QED
        BY <1>1, <3>1, <3>4, <4>2 DEF Passed
    <3>5. Counted'
      BY <2>5, <3>4 DEF Counted
    <3>6. QED
      BY <2>4, <3>2, <3>3, <3>5 DEF FanInv
  <2>8. QED
    BY <1>1, <2>6, <2>7 DEF Duty
<1>4. QED
  BY <1>2, <1>3

LEMMA KillKeeps == FanInv /\ Kill => FanInv'
BY FailKeeps DEF Kill, chip

LEMMA StutterKeeps == FanInv /\ UNCHANGED vars => FanInv'
BY DEF FanInv, TypeOK, Order, InStep, OneFanSlowed, Counted, Passed, vars, chip, program

(* At every point of the sweeps, and wherever a run was ended, the duties  *)
(* and the rows printed are those of the steps made so far.                *)
THEOREM FanInvAlways == Spec => []FanInv
<1>1. FanInv /\ [Next]_vars => FanInv'
  BY StartKeeps, DivisorsKeep, FullSpeedKeeps, SetDutyKeeps, SampleDownKeeps,
     SampleUpKeeps, KillKeeps, StutterKeeps DEF Next, Step
<1>2. QED
  BY InitInv, <1>1, PTL DEF Spec

-----------------------------------------------------------------------------
(* The pwm registers hold duties and the program's variables keep their    *)
(* types: j, an int, is a duty whenever it is written to a byte.           *)
THEOREM TypeCorrect == Spec => []TypeOK
<1>1. FanInv => TypeOK
  BY DEF FanInv
<1>2. QED
  BY <1>1, FanInvAlways, PTL

(* Wherever a run is, or was ended by an ioctl or a signal, at most the    *)
(* fan being calibrated was left slowed down.                              *)
THEOREM OneFanSlowedAlways == Spec => []OneFanSlowed
<1>1. FanInv => OneFanSlowed
  BY DEF FanInv
<1>2. QED
  BY <1>1, FanInvAlways, PTL

(* A run that ends well has sampled each duty of each fan twice and left   *)
(* the fans at full speed, whatever a run before it left behind.           *)
THEOREM CompleteAlways == Spec => []Complete
<1>1. FanInv => Complete
  <2> SUFFICES ASSUME FanInv, pc = "done", NEW f \in Fan
               PROVE  duty[f] = Full /\ \A d \in Duty : rows[f][d] = 2
    BY DEF Complete
  <2>1. f < i
    BY FanCount DEF FanInv, Order, Fan
  <2>2. QED
    BY <2>1 DEF FanInv, OneFanSlowed, Counted, Passed
<1>2. QED
  BY <1>1, FanInvAlways, PTL

(* Duties move by single units, but for the jump to full speed before a    *)
(* sweep, also in the step in which a failing write may have been done.    *)
THEOREM GradualAlways == Spec => Gradual
<1>1. FanInv /\ [Next]_vars =>
        [\A f \in Fan : duty'[f] \in {duty[f] - 1, duty[f], duty[f] + 1}
                       \/ (pc = "full" /\ duty'[f] = Full)]_vars
  <2> SUFFICES ASSUME FanInv, Next, NEW f \in Fan
               PROVE  duty'[f] \in {duty[f] - 1, duty[f], duty[f] + 1}
                      \/ (pc = "full" /\ duty'[f] = Full)
    OBVIOUS
  <2>1. duty \in [Fan -> Duty]
    BY DEF FanInv, TypeOK
  <2>2. CASE duty' = duty
    BY <2>2
  <2>3. CASE FullSpeed
    BY <2>1, <2>3 DEF FullSpeed, MaybeWritten, Written
  <2>4. CASE SetDuty
    <3>1. i \in Fan /\ j \in Duty /\ duty[i] \in {j, j + 1, j - 1}
      BY <2>4 DEF FanInv, Order, InStep, SetDuty, Sweeping
    <3>2. duty[i] \in Int /\ j \in Int
      BY <2>1, <3>1 DEF Duty
    <3>3. j \in {duty[i] - 1, duty[i], duty[i] + 1}
      BY <3>1, <3>2
    <3>4. duty' = duty \/ duty' = [duty EXCEPT ![i] = j]
      BY <2>4 DEF SetDuty, MaybeWritten, Written
    <3>5. QED
      BY <2>1, <3>1, <3>3, <3>4
  <2>5. QED
    BY <2>2, <2>3, <2>4
    DEF Next, Step, Start, ReadDivisors, SampleDown, SampleUp, Kill, chip
<1>2. QED
  BY <1>1, FanInvAlways, PTL DEF Spec, Gradual

-----------------------------------------------------------------------------
(* The shifts and masks of the three cases, on any byte.                   *)
LEMMA ShiftedBit ==
  ASSUME NEW x \in 0 .. 255
  PROVE  /\ Bit(x \div 8, 2) = Bit(x, 5)
         /\ Bit(x \div 16, 2) = Bit(x, 6)
         /\ Bit(x \div 32, 2) = Bit(x, 7)
<1>1. 2 ^ 2 = 4 /\ 2 ^ 5 = 32 /\ 2 ^ 6 = 64 /\ 2 ^ 7 = 128
  OBVIOUS
<1>2. /\ (x \div 8) \div 4 = x \div 32
      /\ (x \div 16) \div 4 = x \div 64
      /\ (x \div 32) \div 4 = x \div 128
  OBVIOUS
<1>3. QED
  BY <1>1, <1>2 DEF Bit

LEMMA MaskedPair ==
  ASSUME NEW x \in 0 .. 255
  PROVE  /\ (x \div 16) % 4 = 2 * Bit(x, 5) + Bit(x, 4)
         /\ (x \div 64) % 4 = 2 * Bit(x, 7) + Bit(x, 6)
<1>1. 2 ^ 4 = 16 /\ 2 ^ 5 = 32 /\ 2 ^ 6 = 64 /\ 2 ^ 7 = 128
  OBVIOUS
<1>2. /\ (x \div 16) % 4 = 2 * ((x \div 32) % 2) + ((x \div 16) % 2)
      /\ (x \div 64) % 4 = 2 * ((x \div 128) % 2) + ((x \div 64) % 2)
  OBVIOUS
<1>3. QED
  BY <1>1, <1>2 DEF Bit

LEMMA BitIsInt ==
  ASSUME NEW x \in 0 .. 255, NEW k \in {4, 5, 6, 7}
  PROVE  Bit(x, k) \in Int
<1>1. 2 ^ 4 = 16 /\ 2 ^ 5 = 32 /\ 2 ^ 6 = 64 /\ 2 ^ 7 = 128
  OBVIOUS
<1>2. QED
  BY <1>1 DEF Bit

LEMMA Regroup ==
  ASSUME NEW u \in Int, NEW v \in Int, NEW w \in Int
  PROVE  4 * u + (2 * v + w) = 4 * u + 2 * v + w
OBVIOUS

LEMMA DivisorIsDocumented ==
  ASSUME NEW n \in {1, 2, 3}, NEW r \in Registers
  PROVE  Divisor(n, r) = Documented(n, r)
<1>1. r.cr5d \in 0 .. 255 /\ r.cr47 \in 0 .. 255 /\ r.cr4b \in 0 .. 255
  BY RegistersAssumption
<1> DEFINE c == r.cr5d
           s == r.cr47
           t == r.cr4b
<1>2. /\ Bit(c \div 8, 2) = Bit(c, 5)
      /\ Bit(c \div 16, 2) = Bit(c, 6)
      /\ Bit(c \div 32, 2) = Bit(c, 7)
  BY <1>1, ShiftedBit
<1>3. /\ (s \div 16) % 4 = 2 * Bit(s, 5) + Bit(s, 4)
      /\ (s \div 64) % 4 = 2 * Bit(s, 7) + Bit(s, 6)
      /\ (t \div 64) % 4 = 2 * Bit(t, 7) + Bit(t, 6)
  BY <1>1, MaskedPair
<1>4. /\ Bit(c, 5) \in Int /\ Bit(c, 6) \in Int /\ Bit(c, 7) \in Int
      /\ Bit(s, 4) \in Int /\ Bit(s, 5) \in Int /\ Bit(s, 6) \in Int
      /\ Bit(s, 7) \in Int /\ Bit(t, 6) \in Int /\ Bit(t, 7) \in Int
  BY <1>1, BitIsInt
<1>5. CASE n = 1
  <2>1. Divisor(1, r) = 4 * Bit(c \div 8, 2) + ((s \div 16) % 4)
    BY DEF Divisor
  <2>2. Documented(1, r) = 4 * Bit(c, 5) + 2 * Bit(s, 5) + Bit(s, 4)
    BY DEF Documented
  <2> HIDE DEF c, s, t
  <2>3. 4 * Bit(c, 5) + (2 * Bit(s, 5) + Bit(s, 4)) = 4 * Bit(c, 5) + 2 * Bit(s, 5) + Bit(s, 4)
    BY <1>4, Regroup
  <2>4. QED
    BY <1>2, <1>3, <1>5, <2>1, <2>2, <2>3, Zenon
<1>6. CASE n = 2
  <2>1. Divisor(2, r) = 4 * Bit(c \div 16, 2) + ((s \div 64) % 4)
    BY DEF Divisor
  <2>2. Documented(2, r) = 4 * Bit(c, 6) + 2 * Bit(s, 7) + Bit(s, 6)
    BY DEF Documented
  <2> HIDE DEF c, s, t
  <2>3. 4 * Bit(c, 6) + (2 * Bit(s, 7) + Bit(s, 6)) = 4 * Bit(c, 6) + 2 * Bit(s, 7) + Bit(s, 6)
    BY <1>4, Regroup
  <2>4. QED
    BY <1>2, <1>3, <1>6, <2>1, <2>2, <2>3, Zenon
<1>7. CASE n = 3
  <2>1. Divisor(3, r) = 4 * Bit(c \div 32, 2) + ((t \div 64) % 4)
    BY DEF Divisor
  <2>2. Documented(3, r) = 4 * Bit(c, 7) + 2 * Bit(t, 7) + Bit(t, 6)
    BY DEF Documented
  <2> HIDE DEF c, s, t
  <2>3. 4 * Bit(c, 7) + (2 * Bit(t, 7) + Bit(t, 6)) = 4 * Bit(c, 7) + 2 * Bit(t, 7) + Bit(t, 6)
    BY <1>4, Regroup
  <2>4. QED
    BY <1>2, <1>3, <1>7, <2>1, <2>2, <2>3, Zenon
<1>8. QED
  BY <1>5, <1>6, <1>7

(* From the moment they are read on, the divisors are those of the chip.   *)
ReadOnce ==
  pc \in Sweeping => \A f \in Fan : div[f] = Divisor(Divno[f], regs)

LEMMA ReadOnceKept == ReadOnce /\ [Next]_vars => ReadOnce'
<1> SUFFICES ASSUME ReadOnce, [Next]_vars, pc' \in Sweeping, NEW f \in Fan
             PROVE  div'[f] = Divisor(Divno[f], regs')
  BY DEF ReadOnce
<1>1. pc' \notin {"divisors", "gone"}
  BY DEF Sweeping
<1>2. CASE ReadDivisors
  <2>1. div' = [g \in Fan |-> Divisor(Divno[g], regs)] /\ regs' = regs
    BY <1>1, <1>2 DEF ReadDivisors, Fail, chip
  <2>2. QED
    BY <2>1
<1>3. CASE FullSpeed \/ SetDuty \/ SampleDown \/ SampleUp \/ UNCHANGED vars
  <2>1. pc \in Sweeping /\ div' = div /\ regs' = regs
    BY <1>1, <1>3 DEF FullSpeed, SetDuty, SampleDown, SampleUp, Fail, Sweeping,
                      chip, program, vars
  <2>2. QED
    BY <2>1 DEF ReadOnce
<1>4. QED
  BY <1>1, <1>2, <1>3 DEF Next, Step, Start, Kill, Fail

(* While it sweeps, the program has for each fan the divisor whose bits    *)
(* the table in its comment names, whatever the chip's registers hold.     *)
THEOREM DivisorsDocumentedAlways == Spec => []DivisorsDocumented
<1>1. Init => ReadOnce
  BY DEF Init, ReadOnce, Sweeping
<1>2. FanInv /\ ReadOnce => DivisorsDocumented
  <2>1. ASSUME FanInv, NEW f \in Fan
        PROVE  Divisor(Divno[f], regs) = Documented(Divno[f], regs)
    <3>1. Divno[f] \in {1, 2, 3} /\ regs \in Registers
      BY <2>1, FanCount DEF FanInv, TypeOK
    <3>2. QED
      BY <3>1, DivisorIsDocumented
  <2>2. QED
    BY <2>1 DEF ReadOnce, DivisorsDocumented
<1>3. QED
  BY <1>1, <1>2, ReadOnceKept, FanInvAlways, PTL DEF Spec
=============================================================================
