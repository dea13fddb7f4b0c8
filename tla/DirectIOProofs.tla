--------------------------- MODULE DirectIOProofs ---------------------------
(***************************************************************************)
(* What DirectIO's run checks of the tools that name their register in     *)
(* each access, proved for every command line, every content of the        *)
(* registers, every slave that answers and every number of failures and of *)
(* changes by others.                                                      *)
(*                                                                         *)
(* The invariant has a part for each family: what a dump has printed so    *)
(* far is a function of the failures so far (Transcript); a tool that is   *)
(* about to overwrite a register has shown it (Confirmed); one that is     *)
(* about to verify it has written it (Verified); one that checks its       *)
(* arguments has touched one register, which passed the check (Exact).     *)
(***************************************************************************)
EXTENDS DirectIO, SequenceTheorems, TLAPS

Dumps   == {"spd_dump", "smb_dump_slave", "smb_test2", "smb_test", "getreg_spd"}
Setters == {"setreg", "setreg_b1", "pwm1_test"}
Showers == {"pwm1_test", "setio", "setio_l"}
Checked == {"gpio_r", "gpio_w", "sio_r", "sio_w"}

Proved  == Dumps \cup Setters \cup Showers \cup Checked

Size(c) == Len(Script(c))

(* The cell that an access of a tool with an access for each cell is to.   *)
CellOf(c, k) == Script(c)[k].cells[1]

ElementsOf(s)  == {s[k] : k \in DOMAIN s}
Cat(s, t)      == s \o t
Three(s, t, u) == s \o t \o u

One(name, c, v) ==
  IF Prints(name, v) THEN << <<c, Printed(name, v)>> >> ELSE << >>

Byte == 0 .. UChar - 1

(* What access k has given, and what is printed of it.                     *)
Got(k)  == IF k \in failed THEN -1 ELSE Holds(CellOf(cmd, k))
Line(k) == <<CellOf(cmd, k), Printed(cmd.name, Got(k))>>

LastShows(c) == shown # << >> /\ shown[Len(shown)] = <<c, Value(mem, c)>>

-----------------------------------------------------------------------------
(* The control that the families share.                                    *)
Shape ==
  /\ cmd \in Commands
  /\ phase \in {"idle", "running", "done", "exited", "refused", "killed"}
  /\ at \in Nat
  /\ cmd.name \in Proved =>
       /\ shown \in Seq(Listed)
       /\ phase \in {"idle", "running"} => at < Size(cmd)
       /\ phase = "done" => at = Size(cmd)
  /\ phase = "idle" => at = 0 /\ touched = {} /\ failed = {}

Exact ==
  cmd.name \in Checked =>
    /\ phase = "running" => touched = {}
    /\ touched \subseteq {CellOf(cmd, 1)}
    /\ phase # "idle" /\ phase # "refused" => ~ArgumentRefused(cmd)
    /\ phase = "refused" => touched = {}
    /\ cmd.name = "gpio_w" /\ touched # {} =>
         phase = "done" /\ Value(mem, CellOf(cmd, 1)) = cmd.b
    /\ cmd.name = "sio_w" /\ phase = "done" => Value(mem, CellOf(cmd, 1)) = cmd.c

Confirmed ==
  LET c == CellOf(cmd, 1) IN
  cmd.name \in Setters /\ phase = "running"
  /\ (at = 1 \/ (at = 2 /\ cmd.name # "pwm1_test")) =>
    c \in changed \/ 1 \in failed \/ LastShows(c)

Verified ==
  LET c == CellOf(cmd, 1) IN
  cmd.name \in Showers =>
    /\ phase \in {"running", "done"} /\ at + 1 >= Size(cmd) => c \in DOMAIN mem
    /\ phase = "done" => at \in failed \/ LastShows(c)

Transcript ==
  cmd.name \in Dumps /\ changed = {} =>
    /\ DOMAIN mem = {}
    /\ at <= Size(cmd)
    /\ failed \subseteq 1 .. at + 1
    /\ phase \in {"running", "done"} =>
         /\ failed \subseteq 1 .. at
         /\ cmd.name = "getreg_spd" => failed = {}
         /\ \A k \in 1 .. at : ~Answers(CellOf(cmd, k)) => k \in failed
    /\ Listed = {Line(k) : k \in {j \in 1 .. at : Prints(cmd.name, Got(j))}}
    /\ cmd.name \in {"spd_dump", "getreg_spd"} =>
         Len(shown) = at /\ \A k \in 1 .. at : shown[k] = Line(k)

IInv == Shape /\ Exact /\ Confirmed /\ Verified /\ Transcript
-----------------------------------------------------------------------------
(* The scripts.                                                            *)

(* Each name has its script.                                               *)
LEMMA ScriptIs ==
  ASSUME NEW c
  PROVE  /\ c.name = "getreg_spd" => Script(c) = getreg_spd
         /\ c.name = "setreg" => Script(c) = setreg(c)
         /\ c.name = "setreg_b1" => Script(c) = setreg_b1(c)
         /\ c.name = "pwm1_test" => Script(c) = pwm1_test(c)
         /\ c.name = "spd_dump" => Script(c) = spd_dump(c)
         /\ c.name = "smb_dump_slave" => Script(c) = smb_dump_slave(c)
         /\ c.name = "smb_test" => Script(c) = smb_test
         /\ c.name = "smb_test2" => Script(c) = smb_test2
         /\ c.name = "setio" => Script(c) = setio(c)
         /\ c.name = "setio_l" => Script(c) = setio_l(c)
         /\ c.name = "gpio_r" => Script(c) = gpio_r(c)
         /\ c.name = "gpio_w" => Script(c) = gpio_w(c)
         /\ c.name = "sio_r" => Script(c) = sio_r(c)
         /\ c.name = "sio_w" => Script(c) = sio_w(c)
<1>1. c.name = "getreg_spd" => Script(c) = getreg_spd
  BY Zenon DEF Script
<1>2. c.name = "setreg" => Script(c) = setreg(c)
  BY Zenon DEF Script
<1>3. c.name = "setreg_b1" => Script(c) = setreg_b1(c)
  BY Zenon DEF Script
<1>4. c.name = "pwm1_test" => Script(c) = pwm1_test(c)
  BY Zenon DEF Script
<1>5. c.name = "spd_dump" => Script(c) = spd_dump(c)
  BY Zenon DEF Script
<1>6. c.name = "smb_dump_slave" => Script(c) = smb_dump_slave(c)
  BY Zenon DEF Script
<1>7. c.name = "smb_test" => Script(c) = smb_test
  BY Zenon DEF Script
<1>8. c.name = "smb_test2" => Script(c) = smb_test2
  BY Zenon DEF Script
<1>9. c.name = "setio" => Script(c) = setio(c)
  BY Zenon DEF Script
<1>10. c.name = "setio_l" => Script(c) = setio_l(c)
  BY Zenon DEF Script
<1>11. c.name = "gpio_r" => Script(c) = gpio_r(c)
  BY Zenon DEF Script
<1>12. c.name = "gpio_w" => Script(c) = gpio_w(c)
  BY Zenon DEF Script
<1>13. c.name = "sio_r" => Script(c) = sio_r(c)
  BY Zenon DEF Script
<1>14. c.name = "sio_w" => Script(c) = sio_w(c)
  BY Zenon DEF Script
<1>15. QED
  BY <1>1, <1>2, <1>3, <1>4, <1>5, <1>6, <1>7, <1>8, <1>9, <1>10, <1>11,
     <1>12, <1>13, <1>14

(* The registers of one slave, in order.                                   *)
LEMMA RegistersAre ==
  ASSUME NEW slave, NEW n \in Nat, NEW S,
         \A k \in 1 .. n : Read(Smb(slave, k - 1)) \in S
  PROVE  /\ Len(Registers(slave, n)) = n
         /\ \A k \in 1 .. n : Registers(slave, n)[k] = Read(Smb(slave, k - 1))
         /\ Registers(slave, n) \in Seq(S)
  BY DEF Registers

(* Three sequences, one after the other.                                   *)
LEMMA CatThree ==
  ASSUME NEW S, NEW a \in Seq(S), NEW b \in Seq(S), NEW c \in Seq(S),
         NEW n \in Nat, Len(a) = n, Len(b) = n, Len(c) = n
  PROVE  /\ Len(Three(a, b, c)) = 3 * n
         /\ \A k \in 1 .. n : /\ Three(a, b, c)[k] = a[k]
                             /\ Three(a, b, c)[n + k] = b[k]
                             /\ Three(a, b, c)[2 * n + k] = c[k]
<1>1. a \o b \in Seq(S) /\ Len(a \o b) = 2 * n
  OBVIOUS
<1>2. \A k \in 1 .. n : (a \o b)[k] = a[k] /\ (a \o b)[n + k] = b[k]
  OBVIOUS
<1> DEFINE ab == a \o b
<1>3. /\ Len(ab \o c) = 3 * n
      /\ \A k \in 1 .. 2 * n : (ab \o c)[k] = ab[k]
      /\ \A k \in 1 .. n : (ab \o c)[2 * n + k] = c[k]
  <2> HIDE DEF ab
  <2>1. ab \in Seq(S) /\ Len(ab) = 2 * n
    BY <1>1 DEF ab
  <2>2. QED
    BY <2>1
<1>4. \A k \in 1 .. n : k \in 1 .. 2 * n /\ n + k \in 1 .. 2 * n
  OBVIOUS
<1>5. QED
  BY <1>2, <1>3, <1>4 DEF Three

(* What each dump reads: a register after the other of one slave, or of    *)
(* three, or the first register of one slave after the other.              *)
LEMMA DumpScripts ==
  ASSUME NEW c
  PROVE  /\ c.name = "spd_dump" =>
              /\ Size(c) = ImageSize
              /\ \A k \in 1 .. ImageSize : Script(c)[k] = Read(Smb(c.a, k - 1))
         /\ c.name = "smb_dump_slave" =>
              /\ Size(c) = RegCount
              /\ \A k \in 1 .. RegCount : Script(c)[k] = Read(Smb(c.a, k - 1))
         /\ c.name = "smb_test2" =>
              /\ Size(c) = RegCount
              /\ \A k \in 1 .. RegCount : Script(c)[k] = Read(Smb(\h62, k - 1))
<1>1. ImageSize \in Nat /\ RegCount \in Nat
  BY SizesAssumption DEF UChar
<1>2. CASE c.name = "spd_dump"
  <2> DEFINE S == {Read(Smb(c.a, k - 1)) : k \in 1 .. ImageSize}
  <2>1. Script(c) = Registers(c.a, ImageSize)
    BY <1>2, ScriptIs DEF spd_dump
  <2>2. \A k \in 1 .. ImageSize : Read(Smb(c.a, k - 1)) \in S
    OBVIOUS
  <2> HIDE DEF S
  <2>3. /\ Len(Registers(c.a, ImageSize)) = ImageSize
        /\ \A k \in 1 .. ImageSize : Registers(c.a, ImageSize)[k] = Read(Smb(c.a, k - 1))
    BY <1>1, <2>2, RegistersAre
  <2>4. QED
    BY <1>2, <2>1, <2>3 DEF Size
<1>3. CASE c.name = "smb_dump_slave"
  <2> DEFINE S == {Read(Smb(c.a, k - 1)) : k \in 1 .. RegCount}
  <2>1. Script(c) = Registers(c.a, RegCount)
    BY <1>3, ScriptIs DEF smb_dump_slave
  <2>2. \A k \in 1 .. RegCount : Read(Smb(c.a, k - 1)) \in S
    OBVIOUS
  <2> HIDE DEF S
  <2>3. /\ Len(Registers(c.a, RegCount)) = RegCount
        /\ \A k \in 1 .. RegCount : Registers(c.a, RegCount)[k] = Read(Smb(c.a, k - 1))
    BY <1>1, <2>2, RegistersAre
  <2>4. QED
    BY <1>3, <2>1, <2>3 DEF Size
<1>4. CASE c.name = "smb_test2"
  <2> DEFINE S == {Read(Smb(\h62, k - 1)) : k \in 1 .. RegCount}
  <2>1. Script(c) = Registers(\h62, RegCount)
    BY <1>4, ScriptIs DEF smb_test2
  <2>2. \A k \in 1 .. RegCount : Read(Smb(\h62, k - 1)) \in S
    OBVIOUS
  <2> HIDE DEF S
  <2>3. /\ Len(Registers(\h62, RegCount)) = RegCount
        /\ \A k \in 1 .. RegCount : Registers(\h62, RegCount)[k] = Read(Smb(\h62, k - 1))
    BY <1>1, <2>2, RegistersAre
  <2>4. QED
    BY <1>4, <2>1, <2>3 DEF Size
<1>5. QED
  BY <1>2, <1>3, <1>4

LEMMA SpdScript ==
  ASSUME NEW c, c.name = "getreg_spd"
  PROVE  /\ Size(c) = 3 * SpdRows
         /\ \A k \in 1 .. SpdRows :
              /\ Script(c)[k] = Read(Smb(\hA0, k - 1))
              /\ Script(c)[SpdRows + k] = Read(Smb(\hA2, k - 1))
              /\ Script(c)[2 * SpdRows + k] = Read(Smb(\hA4, k - 1))
<1> DEFINE S == {Read(Smb(s, k - 1)) : s \in {\hA0, \hA2, \hA4}, k \in 1 .. SpdRows}
           X == Registers(\hA0, SpdRows)
           Y == Registers(\hA2, SpdRows)
           Z == Registers(\hA4, SpdRows)
<1>1. Script(c) = Three(X, Y, Z)
  BY ScriptIs DEF getreg_spd, Three
<1>2. SpdRows \in Nat
  BY SizesAssumption DEF UChar
<1>3. \A s \in {\hA0, \hA2, \hA4} : \A k \in 1 .. SpdRows : Read(Smb(s, k - 1)) \in S
  OBVIOUS
<1> HIDE DEF S
<1>4. /\ Len(X) = SpdRows /\ X \in Seq(S)
      /\ \A k \in 1 .. SpdRows : X[k] = Read(Smb(\hA0, k - 1))
  BY <1>2, <1>3, RegistersAre
<1>5. /\ Len(Y) = SpdRows /\ Y \in Seq(S)
      /\ \A k \in 1 .. SpdRows : Y[k] = Read(Smb(\hA2, k - 1))
  BY <1>2, <1>3, RegistersAre
<1>6. /\ Len(Z) = SpdRows /\ Z \in Seq(S)
      /\ \A k \in 1 .. SpdRows : Z[k] = Read(Smb(\hA4, k - 1))
  BY <1>2, <1>3, RegistersAre
<1> HIDE DEF X, Y, Z
<1>7. /\ Len(Three(X, Y, Z)) = 3 * SpdRows
      /\ \A k \in 1 .. SpdRows : /\ Three(X, Y, Z)[k] = X[k]
                                 /\ Three(X, Y, Z)[SpdRows + k] = Y[k]
                                 /\ Three(X, Y, Z)[2 * SpdRows + k] = Z[k]
  <2>1. X \in Seq(S) /\ Y \in Seq(S) /\ Z \in Seq(S) /\ SpdRows \in Nat
    BY <1>2, <1>4, <1>5, <1>6
  <2>2. Len(X) = SpdRows /\ Len(Y) = SpdRows /\ Len(Z) = SpdRows
    BY <1>4, <1>5, <1>6
  <2>3. QED
    BY <2>1, <2>2, CatThree
<1>8. QED
  BY <1>1, <1>4, <1>5, <1>6, <1>7 DEF Size

(* The slaves that smb_test probes: all but the PLL's.                     *)
Probed(k) == IF k <= \h69 THEN k - 1 ELSE k

LEMMA ProbeScript ==
  ASSUME NEW c, c.name = "smb_test"
  PROVE  /\ Size(c) = 126
         /\ \A k \in 1 .. 126 : Script(c)[k] = Read(Smb(2 * Probed(k), 0))
<1>1. Script(c) = smb_test
  BY ScriptIs
<1>2. smb_test = [k \in 1 .. 126 |-> Read(Smb(2 * Probed(k), 0))]
  BY DEF smb_test, Probed
<1>3. QED
  BY <1>1, <1>2 DEF Size

(* A dump reads registers of slaves only, one in each access.              *)
LEMMA DumpReads ==
  ASSUME NEW c \in Commands, c.name \in Dumps, NEW k \in 1 .. Size(c)
  PROVE  /\ Size(c) \in Nat \ {0}
         /\ Script(c)[k] = Read(CellOf(c, k))
         /\ CellOf(c, k)[1] = "smb"
         /\ Holds(CellOf(c, k)) \in Byte
<1>1. Size(c) \in Nat \ {0}
  <2>1. ImageSize \in Nat \ {0} /\ RegCount \in Nat \ {0} /\ SpdRows \in Nat \ {0}
    BY SizesAssumption DEF UChar
  <2>2. QED
    BY <2>1, DumpScripts, SpdScript, ProbeScript DEF Dumps
<1>2. \E slave, reg \in Int : Script(c)[k] = Read(Smb(slave, reg))
  <2>1. c.a \in Int
    BY CommandsAssumption
  <2>2. CASE c.name = "getreg_spd"
    <3>1. SpdRows \in Nat /\ k \in 1 .. 3 * SpdRows
      BY <2>2, SpdScript, SizesAssumption DEF UChar
    <3>2. CASE k \in 1 .. SpdRows
      BY <2>2, <3>2, SpdScript
    <3>3. CASE k - SpdRows \in 1 .. SpdRows
      <4>1. k = SpdRows + (k - SpdRows)
        BY <3>1
      <4>2. QED
        BY <2>2, <3>3, <4>1, SpdScript
    <3>4. CASE k - 2 * SpdRows \in 1 .. SpdRows
      <4>1. k = 2 * SpdRows + (k - 2 * SpdRows)
        BY <3>1
      <4>2. QED
        BY <2>2, <3>4, <4>1, SpdScript
    <3>5. QED
      BY <3>1, <3>2, <3>3, <3>4
  <2>3. CASE c.name = "smb_test"
    <3>1. k \in 1 .. 126 /\ 2 * Probed(k) \in Int
      BY <2>3, ProbeScript DEF Probed
    <3>2. QED
      BY <2>3, <3>1, ProbeScript
  <2>4. CASE c.name \in {"spd_dump", "smb_dump_slave", "smb_test2"}
    <3>1. k - 1 \in Int
      BY <1>1
    <3>2. QED
      BY <2>1, <2>4, <3>1, DumpScripts
  <2>5. QED
    BY <2>2, <2>3, <2>4 DEF Dumps
<1>3. ASSUME NEW slave \in Int, NEW reg \in Int, Script(c)[k] = Read(Smb(slave, reg))
      PROVE  /\ CellOf(c, k) = Smb(slave, reg)
             /\ Smb(slave, reg)[1] = "smb"
             /\ Holds(Smb(slave, reg)) \in Byte
  <2>1. slave % UChar \in 0 .. UChar - 1 /\ reg % UChar \in 0 .. UChar - 1
    BY DEF UChar
  <2>2. QED
    BY <1>3, <2>1, HoldsAssumption DEF CellOf, Read, Smb, Byte
<1>4. QED
  BY <1>1, <1>2, <1>3

(* Reads, writes and waits for a key are told apart.                       *)
LEMMA Ops ==
  ASSUME NEW c, NEW v
  PROVE  Read(c).op = "read" /\ Write(c, v).op = "write" /\ GetChar.op = "key"
  BY DEF Read, Write, GetChar

(* setreg and setreg_b1 read a register, wait for a key and write it;      *)
(* pwm1_test reads it, writes it and reads it.                             *)
LEMMA SetterScript ==
  ASSUME NEW c, c.name \in Setters
  PROVE  /\ Size(c) = 3
         /\ Script(c)[1] = Read(CellOf(c, 1))
         /\ c.name # "pwm1_test" =>
              /\ Script(c)[2] = GetChar
              /\ Script(c)[3] = Write(CellOf(c, 1), c.b % UChar)
         /\ c.name = "pwm1_test" =>
              /\ Script(c)[2] = Write(CellOf(c, 1), c.a % UChar)
              /\ Script(c)[3] = Read(CellOf(c, 1))
<1>1. CASE c.name = "setreg"
  BY <1>1, ScriptIs DEF setreg, CellOf, Size, Read, Write
<1>2. CASE c.name = "setreg_b1"
  BY <1>2, ScriptIs DEF setreg_b1, CellOf, Size, Read, Write
<1>3. CASE c.name = "pwm1_test"
  BY <1>3, ScriptIs DEF pwm1_test, CellOf, Size, Read, Write
<1>4. QED
  BY <1>1, <1>2, <1>3 DEF Setters

(* setio and setio_l write a port and read it.                             *)
LEMMA SetioScript ==
  ASSUME NEW c, c.name \in {"setio", "setio_l"}
  PROVE  /\ Size(c) = 2
         /\ CellOf(c, 1)[1] = "port"
         /\ \E v : Script(c)[1] = Write(CellOf(c, 1), v)
         /\ Script(c)[2] = Read(CellOf(c, 1))
<1>1. CASE c.name = "setio"
  <2>1. Script(c) = <<Write(Port(c.a), c.b % UChar), Read(Port(c.a))>>
    BY <1>1, ScriptIs DEF setio
  <2>2. CellOf(c, 1) = Port(c.a) /\ Size(c) = 2
    BY <2>1 DEF CellOf, Write, Size
  <2>3. Script(c)[1] = Write(CellOf(c, 1), c.b % UChar) /\ Script(c)[2] = Read(CellOf(c, 1))
    BY <2>1, <2>2
  <2>4. CellOf(c, 1)[1] = "port"
    BY <2>2 DEF Port
  <2>5. QED
    BY <2>2, <2>3, <2>4, Zenon
<1>2. CASE c.name = "setio_l"
  <2>1. Script(c) = <<Write(Port(c.a), c.b % UInt), Read(Port(c.a))>>
    BY <1>2, ScriptIs DEF setio_l
  <2>2. CellOf(c, 1) = Port(c.a) /\ Size(c) = 2
    BY <2>1 DEF CellOf, Write, Size
  <2>3. Script(c)[1] = Write(CellOf(c, 1), c.b % UInt) /\ Script(c)[2] = Read(CellOf(c, 1))
    BY <2>1, <2>2
  <2>4. CellOf(c, 1)[1] = "port"
    BY <2>2 DEF Port
  <2>5. QED
    BY <2>2, <2>3, <2>4, Zenon
<1>3. QED
  BY <1>1, <1>2

(* amd_gpio_tool and sio_tool have one access, to one register.            *)
LEMMA CheckedScript ==
  ASSUME NEW c, c.name \in Checked
  PROVE  /\ Size(c) = 1
         /\ c.name \in {"gpio_r", "gpio_w"} => CellOf(c, 1) = Gpio(c.a)
         /\ c.name \in {"sio_r", "sio_w"} => CellOf(c, 1) = <<"sio", c.a, c.b>>
         /\ c.name \in {"gpio_r", "sio_r"} => Script(c)[1] = Read(CellOf(c, 1))
         /\ c.name = "gpio_w" => Script(c)[1] = Write(CellOf(c, 1), c.b)
         /\ c.name = "sio_w" => Script(c)[1] = Write(CellOf(c, 1), c.c)
<1>1. CASE c.name = "gpio_r"
  BY <1>1, ScriptIs DEF gpio_r, CellOf, Size, Read
<1>2. CASE c.name = "gpio_w"
  BY <1>2, ScriptIs DEF gpio_w, CellOf, Size, Write
<1>3. CASE c.name = "sio_r"
  BY <1>3, ScriptIs DEF sio_r, CellOf, Size, Read
<1>4. CASE c.name = "sio_w"
  BY <1>4, ScriptIs DEF sio_w, CellOf, Size, Write
<1>5. QED
  BY <1>1, <1>2, <1>3, <1>4 DEF Checked

-----------------------------------------------------------------------------
(* The steps.                                                              *)

(* What is printed of a result.                                            *)
LEMMA LinesOne ==
  ASSUME NEW name, NEW c, NEW v, NEW vals,
         DOMAIN vals = {1}, vals[1] = v
  PROVE  Lines(name, <<c>>, vals) = One(name, c, v)
<1>1. DOMAIN <<c>> = {1} /\ <<c>>[1] = c
  OBVIOUS
<1>2. CASE Prints(name, v)
  <2>1. Lines(name, <<c>>, vals) = [k \in DOMAIN <<c>> |-> <<<<c>>[k], Printed(name, vals[k])>>]
    BY <1>1, <1>2 DEF Lines
  <2>2. [k \in {1} |-> <<<<c>>[k], Printed(name, vals[k])>>] = << <<c, Printed(name, v)>> >>
    BY <1>1
  <2>3. QED
    BY <1>1, <1>2, <2>1, <2>2 DEF One
<1>3. CASE ~Prints(name, v)
  BY <1>1, <1>3 DEF Lines, One
<1>4. QED
  BY <1>2, <1>3

(* A read that succeeds.                                                   *)
LEMMA TransferReads ==
  ASSUME Transfer, NEW c, Access1 = Read(c)
  PROVE  /\ phase = "running" /\ Answers(c)
         /\ at' = at + 1
         /\ phase' = IF at + 1 = Size(cmd) THEN "done" ELSE "running"
         /\ shown' = Cat(shown, One(cmd.name, c, Value(mem, c)))
         /\ touched' = touched \cup {c}
         /\ UNCHANGED <<cmd, mem, failed, changed>>
<1> DEFINE cells == Access1.cells
           vals  == [k \in DOMAIN cells |-> Value(mem, cells[k])]
<1>1. Access1.op = "read" /\ cells = <<c>>
  BY DEF Read
<1>2. DOMAIN cells = {1} /\ cells[1] = c
  BY <1>1
<1>3. Lines(cmd.name, cells, vals) = One(cmd.name, c, Value(mem, c))
  <2>1. DOMAIN vals = {1} /\ vals[1] = Value(mem, c)
    BY <1>2
  <2> HIDE DEF vals, cells
  <2>2. QED
    BY <1>1, <2>1, LinesOne
<1>4. /\ phase = "running" /\ UNCHANGED <<cmd, mem, failed, changed>>
      /\ shown' = shown \o Lines(cmd.name, cells, vals)
      /\ Advance
  BY <1>1, Zenon DEF Transfer
<1>5. Answers(c)
  BY <1>2 DEF Transfer
<1>6. touched' = touched \cup {c}
  BY <1>2 DEF Transfer, Touch
<1>7. QED
  BY <1>3, <1>4, <1>5, <1>6, Zenon DEF Advance, Size, Cat

(* Writing one cell.                                                       *)
LEMMA WrittenOne ==
  ASSUME NEW c, NEW v
  PROVE  Written(<<c>>, <<v>>) = With(mem, c, v)
<1> DEFINE F(d) == IF \E k \in DOMAIN <<c>> : <<c>>[k] = d
                   THEN <<v>>[CHOOSE k \in DOMAIN <<c>> : <<c>>[k] = d] ELSE mem[d]
<1>1. DOMAIN <<c>> = {1} /\ <<c>>[1] = c /\ <<v>>[1] = v
  OBVIOUS
<1>2. \A d : F(d) = IF d = c THEN v ELSE mem[d]
  <2>1. TAKE d
  <2>2. CASE d = c
    <3>1. (CHOOSE k \in DOMAIN <<c>> : <<c>>[k] = d) = 1
      BY <1>1, <2>2
    <3>2. QED
      BY <1>1, <2>2, <3>1
  <2>3. CASE d # c
    BY <1>1, <2>3
  <2>4. QED
    BY <2>2, <2>3
<1>3. {<<c>>[k] : k \in DOMAIN <<c>>} = {c}
  BY <1>1
<1>4. Written(<<c>>, <<v>>) = [d \in DOMAIN mem \cup {<<c>>[k] : k \in DOMAIN <<c>>} |-> F(d)]
  BY Zenon DEF Written
<1>5. With(mem, c, v) = [d \in DOMAIN mem \cup {c} |-> IF d = c THEN v ELSE mem[d]]
  BY DEF With
<1> HIDE DEF F
<1>6. QED
  BY <1>2, <1>3, <1>4, <1>5

(* A write that succeeds.                                                  *)
LEMMA TransferWrites ==
  ASSUME Transfer, NEW c, NEW v, Access1 = Write(c, v)
  PROVE  /\ phase = "running"
         /\ at' = at + 1
         /\ phase' = IF at + 1 = Size(cmd) THEN "done" ELSE "running"
         /\ mem' = With(mem, c, v)
         /\ touched' = touched \cup {c}
         /\ UNCHANGED <<cmd, shown, failed, changed>>
<1> DEFINE cells == Access1.cells
           vals  == Access1.vals
<1>1. Access1.op = "write" /\ cells = <<c>> /\ vals = <<v>>
  BY DEF Write
<1>2. DOMAIN cells = {1} /\ cells[1] = c
  BY <1>1
<1>3. Written(<<c>>, <<v>>) = With(mem, c, v)
  BY WrittenOne
<1>4. /\ phase = "running" /\ UNCHANGED <<cmd, shown, failed, changed>>
      /\ mem' = Written(cells, vals)
      /\ Advance
  BY <1>1, Zenon DEF Transfer
<1>5. touched' = touched \cup {c}
  BY <1>2 DEF Transfer, Touch
<1>6. QED
  BY <1>1, <1>3, <1>4, <1>5, Zenon DEF Advance, Size

(* A read that fails.                                                      *)
LEMMA ReadFails ==
  ASSUME TransferFails, NEW c, Access1 = Read(c)
  PROVE  /\ phase = "running" /\ c[1] \in {"smb", "sio"}
         /\ failed' = failed \cup {at + 1}
         /\ touched' = touched \cup {c}
         /\ UNCHANGED <<cmd, mem, changed>>
         /\ cmd.name \in ExitsOnRead => phase' = "exited" /\ UNCHANGED <<at, shown>>
         /\ cmd.name \notin ExitsOnRead =>
              /\ at' = at + 1
              /\ phase' = IF at + 1 = Size(cmd) THEN "done" ELSE "running"
              /\ shown' = Cat(shown, One(cmd.name, c, -1))
<1> DEFINE cells == Access1.cells
<1>1. Access1.op = "read" /\ cells = <<c>> /\ Access1.vals = << >>
  BY DEF Read
<1>2. DOMAIN cells = {1} /\ cells[1] = c /\ DOMAIN << >> = {}
  BY <1>1
<1>3. Lines(cmd.name, cells, <<-1>>) = One(cmd.name, c, -1)
  <2>1. DOMAIN <<-1>> = {1} /\ <<-1>>[1] = -1
    OBVIOUS
  <2> HIDE DEF cells
  <2>2. QED
    BY <1>1, <2>1, LinesOne
<1>4. phase = "running" /\ c[1] \in {"smb", "sio"} /\ failed' = failed \cup {at + 1}
      /\ UNCHANGED <<cmd, changed>>
  BY <1>2 DEF TransferFails
<1>5. touched' = touched \cup {c}
  BY <1>2 DEF TransferFails, Touch
<1>6. CASE cmd.name \in ExitsOnRead
  <2>1. /\ phase' = "exited" /\ UNCHANGED <<at, shown>>
        /\ UNCHANGED mem \/ \E n \in DOMAIN Access1.vals : TRUE
    BY <1>6, Zenon DEF TransferFails
  <2>2. UNCHANGED mem
    BY <1>1, <1>2, <2>1
  <2>3. QED
    BY <1>4, <1>5, <1>6, <2>1, <2>2
<1>7. CASE cmd.name \notin ExitsOnRead
  <2>1. Advance /\ UNCHANGED mem /\ shown' = shown \o Lines(cmd.name, cells, <<-1>>)
    BY <1>1, <1>7, Zenon DEF TransferFails
  <2>2. QED
    BY <1>3, <1>4, <1>5, <1>7, <2>1, Zenon DEF Advance, Size, Cat
<1>8. QED
  BY <1>6, <1>7

(* A write that fails.                                                     *)
LEMMA WriteFails ==
  ASSUME TransferFails, NEW c, NEW v, Access1 = Write(c, v)
  PROVE  /\ phase = "running" /\ c[1] \in {"smb", "sio"}
         /\ failed' = failed \cup {at + 1}
         /\ touched' = touched \cup {c}
         /\ phase' = "exited"
         /\ mem' = mem \/ mem' = With(mem, c, v)
         /\ UNCHANGED <<cmd, at, shown, changed>>
<1> DEFINE cells == Access1.cells
<1>1. Access1.op = "write" /\ cells = <<c>> /\ Access1.vals = <<v>>
  BY DEF Write
<1>2. DOMAIN cells = {1} /\ cells[1] = c
  BY <1>1
<1>3. phase = "running" /\ c[1] \in {"smb", "sio"} /\ failed' = failed \cup {at + 1}
      /\ UNCHANGED <<cmd, changed>>
  BY <1>2 DEF TransferFails
<1>4. touched' = touched \cup {c}
  BY <1>2 DEF TransferFails, Touch
<1>5. /\ phase' = "exited" /\ UNCHANGED <<at, shown>>
      /\ UNCHANGED mem \/ \E n \in DOMAIN Access1.vals :
                            mem' = Written(SubSeq(cells, 1, n), Access1.vals)
  BY <1>1, Zenon DEF TransferFails
<1>6. \A n \in DOMAIN <<v>> : Written(SubSeq(<<c>>, 1, n), <<v>>) = With(mem, c, v)
  <2>1. DOMAIN <<v>> = {1}
    OBVIOUS
  <2>2. SubSeq(<<c>>, 1, 1) = <<c>>
    <3>1. <<c>> \in Seq({c}) /\ Len(<<c>>) = 1
      OBVIOUS
    <3>2. QED
      BY <3>1, SubSeqFull
  <2>3. Written(<<c>>, <<v>>) = With(mem, c, v)
    BY WrittenOne
  <2>4. QED
    BY <2>1, <2>2, <2>3
<1>7. QED
  BY <1>1, <1>3, <1>4, <1>5, <1>6

(* What a line more makes of what has been printed.                        *)
LEMMA CatOne ==
  ASSUME NEW s, NEW e, s \in Seq(ElementsOf(s)), NEW t, t = Cat(s, <<e>>)
  PROVE  /\ Len(s) \in Nat /\ Len(t) = Len(s) + 1
         /\ t # << >> /\ t[Len(t)] = e
         /\ \A k \in 1 .. Len(s) : t[k] = s[k]
         /\ ElementsOf(t) = ElementsOf(s) \cup {e}
         /\ t \in Seq(ElementsOf(t))
<1> DEFINE S == {s[k] : k \in DOMAIN s}
<1>1. /\ Len(s) \in Nat /\ Len(t) = Len(s) + 1 /\ t \in Seq(S \cup {e})
      /\ DOMAIN s = 1 .. Len(s) /\ DOMAIN t = 1 .. Len(t)
      /\ \A k \in 1 .. Len(s) : t[k] = s[k]
      /\ t[Len(t)] = e
  <2>1. s \in Seq(S \cup {e}) /\ <<e>> \in Seq(S \cup {e})
    BY DEF ElementsOf
  <2>2. QED
    BY <2>1 DEF Cat
<1>2. {t[k] : k \in DOMAIN t} = S \cup {e}
  <2>1. \A k \in DOMAIN t : t[k] \in S \cup {e}
    BY <1>1
  <2>2. \A k \in DOMAIN s : k \in DOMAIN t /\ t[k] = s[k]
    BY <1>1
  <2>3. Len(t) \in DOMAIN t
    BY <1>1
  <2>4. QED
    BY <1>1, <2>1, <2>2, <2>3
<1>3. t # << >>
  BY <1>1
<1>4. QED
  BY <1>1, <1>2, <1>3 DEF ElementsOf

LEMMA ShowsMore ==
  ASSUME NEW name, NEW c, NEW v, shown \in Seq(Listed),
         shown' = Cat(shown, One(name, c, v))
  PROVE  /\ (shown \in Seq(Listed))'
         /\ ~Prints(name, v) => shown' = shown
         /\ Prints(name, v) =>
              /\ Listed' = Listed \cup {<<c, Printed(name, v)>>}
              /\ Len(shown) \in Nat /\ Len(shown') = Len(shown) + 1
              /\ shown' # << >>
              /\ shown'[Len(shown')] = <<c, Printed(name, v)>>
              /\ \A k \in 1 .. Len(shown) : shown'[k] = shown[k]
<1>1. CASE ~Prints(name, v)
  <2>1. shown' = Cat(shown, << >>)
    BY <1>1 DEF One
  <2>2. Cat(shown, << >>) = shown
    BY DEF Cat
  <2>3. QED
    BY <1>1, <2>1, <2>2 DEF Listed
<1>2. CASE Prints(name, v)
  <2> DEFINE e == <<c, Printed(name, v)>>
  <2>1. shown' = Cat(shown, <<e>>)
    BY <1>2 DEF One
  <2>2. ElementsOf(shown) = Listed /\ shown \in Seq(ElementsOf(shown))
    BY DEF Listed, ElementsOf
  <2> HIDE DEF e
  <2>3. /\ Len(shown) \in Nat /\ Len(shown') = Len(shown) + 1
        /\ shown' # << >> /\ shown'[Len(shown')] = e
        /\ \A k \in 1 .. Len(shown) : shown'[k] = shown[k]
        /\ ElementsOf(shown') = ElementsOf(shown) \cup {e}
        /\ shown' \in Seq(ElementsOf(shown'))
    BY <2>1, <2>2, CatOne, Zenon
  <2>4. ElementsOf(shown') = Listed'
    BY DEF Listed, ElementsOf
  <2>5. QED
    BY <1>2, <2>2, <2>3, <2>4 DEF e
<1>3. QED
  BY <1>1, <1>2

-----------------------------------------------------------------------------
(* None of the scripts is empty.                                           *)
LEMMA SizeIs ==
  ASSUME NEW c, c.name \in Proved
  PROVE  Size(c) \in Nat \ {0}
<1>1. ImageSize \in Nat \ {0} /\ RegCount \in Nat \ {0} /\ SpdRows \in Nat \ {0}
  BY SizesAssumption DEF UChar
<1>2. CASE c.name \in Dumps
  BY <1>1, <1>2, DumpScripts, SpdScript, ProbeScript DEF Dumps
<1>3. QED
  BY <1>2, SetterScript, SetioScript, CheckedScript DEF Proved, Setters, Showers

(* The accesses of the tools that the proof is about.                      *)
LEMMA AccessIs ==
  ASSUME Shape, cmd.name \in Proved, phase = "running"
  PROVE  /\ at + 1 \in 1 .. Size(cmd)
         /\ cmd.name \in Dumps => Access1 = Read(CellOf(cmd, at + 1))
         /\ cmd.name \notin Dumps =>
              \/ Access1 = GetChar
              \/ Access1 = Read(CellOf(cmd, 1))
              \/ \E v : Access1 = Write(CellOf(cmd, 1), v)
<1>1. at \in Nat /\ at < Size(cmd) /\ cmd \in Commands
  BY DEF Shape
<1>2. CASE cmd.name \in Dumps
  <2>1. Size(cmd) \in Nat
    BY SizeIs
  <2>2. at + 1 \in 1 .. Size(cmd)
    BY <1>1, <2>1
  <2>3. QED
    BY <1>1, <1>2, <2>2, DumpReads DEF Access1
<1>3. CASE cmd.name \in Setters
  <2>1. at \in 0 .. 2 /\ Size(cmd) = 3
    BY <1>1, <1>3, SetterScript
  <2>2. Access1 \in {Script(cmd)[1], Script(cmd)[2], Script(cmd)[3]}
    BY <2>1 DEF Access1
  <2>3. cmd.name \notin Dumps
    BY <1>3 DEF Setters, Dumps
  <2>4. QED
    BY <1>3, <2>1, <2>2, <2>3, SetterScript
<1>4. CASE cmd.name \in {"setio", "setio_l"}
  <2>1. at \in 0 .. 1 /\ Size(cmd) = 2
    BY <1>1, <1>4, SetioScript
  <2>2. Access1 \in {Script(cmd)[1], Script(cmd)[2]}
    BY <2>1 DEF Access1
  <2>3. cmd.name \notin Dumps
    BY <1>4 DEF Dumps
  <2>4. QED
    BY <1>4, <2>1, <2>2, <2>3, SetioScript
<1>5. CASE cmd.name \in Checked
  <2>1. at = 0 /\ Size(cmd) = 1
    BY <1>1, <1>5, CheckedScript
  <2>2. Access1 = Script(cmd)[1]
    BY <2>1 DEF Access1
  <2>3. cmd.name \notin Dumps
    BY <1>5 DEF Dumps, Checked
  <2>4. QED
    BY <1>5, <2>1, <2>2, <2>3, CheckedScript DEF Checked
<1>6. QED
  BY <1>2, <1>3, <1>4, <1>5 DEF Proved, Setters, Showers

LEMMA Initial == DirectInit => IInv
<1> SUFFICES ASSUME DirectInit PROVE IInv
  OBVIOUS
<1> USE DEF DirectInit
<1>1. Shape
  <2>1. cmd.name \in Proved => shown \in Seq(Listed) /\ at < Size(cmd)
    BY SizeIs
  <2>2. QED
    BY <2>1 DEF Shape
<1>2. Exact
  BY DEF Exact
<1>3. Confirmed /\ Verified
  BY DEF Confirmed, Verified
<1>4. Transcript
  <2>1. ASSUME cmd.name \in Dumps PROVE 0 <= Size(cmd)
    BY <2>1, SizeIs DEF Proved
  <2>2. Listed = {} /\ {Line(k) : k \in {j \in 1 .. at : Prints(cmd.name, Got(j))}} = {}
    BY DEF Listed
  <2>3. QED
    BY <2>1, <2>2 DEF Transcript
<1>5. QED
  BY <1>1, <1>2, <1>3, <1>4 DEF IInv

(* The phases and the number of accesses, and what is printed is a         *)
(* sequence.                                                               *)
LEMMA ShapeStep ==
  ASSUME IInv, [DirectNext]_directVars
  PROVE  Shape'
<1> USE DEF IInv
<1>0. Shape
  OBVIOUS
<1>1. CASE Launch
  BY <1>0, <1>1 DEF Launch, Shape, Size, Listed
<1>2. CASE Key
  <2>1. phase = "running" /\ Advance /\ UNCHANGED <<cmd, shown>>
    BY <1>2 DEF Key
  <2>2. at' = at + 1 /\ phase' = IF at + 1 = Size(cmd) THEN "done" ELSE "running"
    BY <2>1, Zenon DEF Advance, Size
  <2>3. cmd.name \in Proved => at + 1 \in 1 .. Size(cmd)
    BY <1>0, <2>1, AccessIs
  <2>4. QED
    BY <1>0, <2>1, <2>2, <2>3 DEF Shape, Listed, Size
<1>3. CASE Transfer
  <2>1. phase = "running" /\ Advance /\ UNCHANGED cmd /\ Access1.op # "key"
    BY <1>3 DEF Transfer
  <2>2. at' = at + 1 /\ phase' = IF at + 1 = Size(cmd) THEN "done" ELSE "running"
    BY <2>1, Zenon DEF Advance, Size
  <2>3. cmd.name \in Proved => at + 1 \in 1 .. Size(cmd)
    BY <1>0, <2>1, AccessIs
  <2>4. cmd.name \in Proved => (shown \in Seq(Listed))'
    <3>1. SUFFICES ASSUME cmd.name \in Proved PROVE (shown \in Seq(Listed))'
      OBVIOUS
    <3>2. shown \in Seq(Listed)
      BY <1>0, <3>1 DEF Shape
    <3>3. ASSUME NEW c, Access1 = Read(c)
          PROVE  (shown \in Seq(Listed))'
      BY <1>3, <3>2, <3>3, TransferReads, ShowsMore
    <3>4. ASSUME NEW c, NEW v, Access1 = Write(c, v)
          PROVE  (shown \in Seq(Listed))'
      <4>1. shown' = shown
        BY <1>3, <3>4, TransferWrites
      <4>2. QED
        BY <3>2, <4>1 DEF Listed
    <3>5. Access1 # GetChar
      BY <2>1 DEF GetChar
    <3>6. QED
      BY <1>0, <2>1, <3>1, <3>3, <3>4, <3>5, AccessIs
  <2>5. QED
    BY <1>0, <2>1, <2>2, <2>3, <2>4 DEF Shape, Size
<1>4. CASE TransferFails
  <2>1. phase = "running" /\ UNCHANGED cmd /\ Access1.op # "key"
    BY <1>4 DEF TransferFails
  <2>2. \/ phase' = "exited" /\ UNCHANGED <<at, shown>>
        \/ at' = at + 1 /\ phase' = IF at + 1 = Size(cmd) THEN "done" ELSE "running"
    <3>1. \/ phase' = "exited" /\ UNCHANGED <<at, shown>>
          \/ Advance
      BY <1>4, Zenon DEF TransferFails
    <3>2. QED
      BY <2>1, <3>1, Zenon DEF Advance, Size
  <2>3. cmd.name \in Proved => at + 1 \in 1 .. Size(cmd)
    BY <1>0, <2>1, AccessIs
  <2>4. cmd.name \in Proved => (shown \in Seq(Listed))'
    <3>1. SUFFICES ASSUME cmd.name \in Proved PROVE (shown \in Seq(Listed))'
      OBVIOUS
    <3>2. shown \in Seq(Listed)
      BY <1>0, <3>1 DEF Shape
    <3>3. shown' = shown => (shown \in Seq(Listed))'
      BY <3>2 DEF Listed
    <3>4. ASSUME NEW c, Access1 = Read(c)
          PROVE  (shown \in Seq(Listed))'
      BY <1>4, <3>2, <3>3, <3>4, ReadFails, ShowsMore
    <3>5. ASSUME NEW c, NEW v, Access1 = Write(c, v)
          PROVE  (shown \in Seq(Listed))'
      BY <1>4, <3>3, <3>5, WriteFails
    <3>6. Access1 # GetChar
      BY <2>1 DEF GetChar
    <3>7. QED
      BY <1>0, <2>1, <3>1, <3>4, <3>5, <3>6, AccessIs
  <2>5. QED
    BY <1>0, <2>1, <2>2, <2>3, <2>4 DEF Shape, Size
<1>5. CASE Change
  BY <1>0, <1>5 DEF Change, Shape, Size, Listed
<1>6. CASE DirectKill
  BY <1>0, <1>6 DEF DirectKill, Shape, Size, Listed
<1>7. CASE UNCHANGED directVars
  BY <1>0, <1>7 DEF directVars, Shape, Size, Listed
<1>8. QED
  BY <1>1, <1>2, <1>3, <1>4, <1>5, <1>6, <1>7 DEF DirectNext

(* What a register holds after it, or another, has been set.               *)
LEMMA ValueWith ==
  \A m, c, v, d :
    /\ DOMAIN With(m, c, v) = DOMAIN m \cup {c}
    /\ Value(With(m, c, v), c) = v
    /\ d # c => Value(With(m, c, v), d) = Value(m, d)
  BY DEF Value, With

(* Most tools print every result as it is.                                 *)
LEMMA PrintsAll ==
  ASSUME NEW name, NEW v,
         name \notin {"smb_dump_slave", "smb_test2", "smb_test", "smb_slave_test"}
  PROVE  Prints(name, v)
<1>1. name # "smb_test" /\ name # "smb_slave_test"
  OBVIOUS
<1>2. name \notin {"smb_dump_slave", "smb_test2"}
  OBVIOUS
<1>3. QED
  BY <1>1, <1>2, Zenon DEF Prints

LEMMA ExactStep ==
  ASSUME IInv, [DirectNext]_directVars
  PROVE  Exact'
<1> DEFINE C == CellOf(cmd, 1)
<1>1. cmd' = cmd
  BY DEF DirectNext, directVars, Launch, Key, Transfer, TransferFails, Change, DirectKill
<1>2. Shape /\ Exact
  BY DEF IInv
<1> SUFFICES ASSUME cmd.name \in Checked PROVE Exact'
  BY <1>1 DEF Exact
<1>3. cmd.name \in Proved /\ Size(cmd) = 1 /\ C' = C
  BY <1>1, CheckedScript DEF Proved
<1>4. ArgumentRefused(cmd)' <=> ArgumentRefused(cmd)
  BY <1>1
<1>5. CASE Launch
  BY <1>1, <1>2, <1>3, <1>4, <1>5 DEF Launch, Shape, Exact
<1>6. phase = "running" => Access1 = Script(cmd)[1] /\ Access1.op # "key"
                           /\ touched = {} /\ ~ArgumentRefused(cmd)
  <2>1. phase = "running" => at = 0
    BY <1>2, <1>3 DEF Shape
  <2>2. Script(cmd)[1].op # "key"
    BY CheckedScript, Ops DEF Checked
  <2>3. QED
    BY <1>2, <2>1, <2>2 DEF Access1, Exact
<1>7. CASE Key
  BY <1>6, <1>7 DEF Key
<1>8. CASE Transfer
  <2>1. phase = "running"
    BY <1>8 DEF Transfer
  <2>2. at + 1 = 1
    BY <1>2, <1>3, <2>1 DEF Shape
  <2>3. CASE cmd.name \in {"gpio_r", "sio_r"}
    <3>1. Access1 = Read(C)
      BY <1>6, <2>1, <2>3, CheckedScript
    <3>2. touched' = touched \cup {C} /\ phase' = "done"
      BY <1>3, <1>8, <2>2, <3>1, TransferReads
    <3>3. QED
      BY <1>1, <1>3, <1>4, <1>6, <2>1, <2>3, <3>2 DEF Exact
  <2>4. CASE cmd.name \in {"gpio_w", "sio_w"}
    <3>1. PICK v : Access1 = Write(C, v) /\ (cmd.name = "gpio_w" => v = cmd.b)
                   /\ (cmd.name = "sio_w" => v = cmd.c)
      BY <1>6, <2>1, <2>4, CheckedScript
    <3>2. touched' = touched \cup {C} /\ phase' = "done" /\ mem' = With(mem, C, v)
      BY <1>3, <1>8, <2>2, <3>1, TransferWrites
    <3> HIDE DEF C
    <3>3. Value(mem', C) = v
      BY <3>2, ValueWith
    <3>4. QED
      BY <1>1, <1>3, <1>4, <1>6, <2>1, <2>4, <3>1, <3>2, <3>3 DEF Exact, C
  <2>5. QED
    BY <2>3, <2>4 DEF Checked
<1>9. CASE TransferFails
  <2>1. phase = "running"
    BY <1>9 DEF TransferFails
  <2>2. cmd.name \notin {"gpio_r", "gpio_w"}
    <3>1. Access1.cells[1][1] \in {"smb", "sio"}
      BY <1>9 DEF TransferFails
    <3>2. Access1.cells[1] = C
      BY <1>6, <2>1 DEF CellOf
    <3>3. Gpio(cmd.a)[1] = "gpio"
      BY DEF Gpio
    <3>4. QED
      BY <3>1, <3>2, <3>3, CheckedScript
  <2>3. CASE cmd.name = "sio_r"
    <3>1. Access1 = Read(C) /\ cmd.name \in ExitsOnRead
      BY <1>6, <2>1, <2>3, CheckedScript DEF ExitsOnRead
    <3>2. touched' = touched \cup {C} /\ phase' = "exited"
      BY <1>9, <3>1, ReadFails
    <3>3. QED
      BY <1>1, <1>3, <1>4, <1>6, <2>1, <2>3, <3>2 DEF Exact
  <2>4. CASE cmd.name = "sio_w"
    <3>1. Access1 = Write(C, cmd.c)
      BY <1>6, <2>1, <2>4, CheckedScript
    <3>2. touched' = touched \cup {C} /\ phase' = "exited"
      BY <1>9, <3>1, WriteFails
    <3>3. QED
      BY <1>1, <1>3, <1>4, <1>6, <2>1, <2>4, <3>2 DEF Exact
  <2>5. QED
    BY <2>2, <2>3, <2>4 DEF Checked
<1>10. CASE Change
  BY <1>1, <1>2, <1>3, <1>4, <1>10 DEF Change, Exact
<1>11. CASE DirectKill
  BY <1>1, <1>2, <1>3, <1>4, <1>11 DEF DirectKill, Exact
<1>12. CASE UNCHANGED directVars
  BY <1>2, <1>3, <1>4, <1>12 DEF directVars, Exact
<1>13. QED
  BY <1>5, <1>7, <1>8, <1>9, <1>10, <1>11, <1>12 DEF DirectNext

LEMMA ConfirmedStep ==
  ASSUME IInv, [DirectNext]_directVars
  PROVE  Confirmed'
<1> DEFINE C == CellOf(cmd, 1)
<1>1. cmd' = cmd /\ C' = C
  BY DEF DirectNext, directVars, Launch, Key, Transfer, TransferFails, Change, DirectKill
<1>2. Shape /\ Confirmed
  BY DEF IInv
<1> SUFFICES ASSUME cmd.name \in Setters, phase' = "running",
                    at' = 1 \/ (at' = 2 /\ cmd.name # "pwm1_test")
             PROVE  C \in changed' \/ 1 \in failed' \/ LastShows(C)'
  BY <1>1 DEF Confirmed
<1>3. cmd.name \in Proved /\ Size(cmd) = 3 /\ shown \in Seq(Listed)
  BY <1>2, SetterScript DEF Proved, Shape
<1>4. CASE Launch
  BY <1>2, <1>4 DEF Launch, Shape
<1>5. phase = "running" => at \in 0 .. 2
  BY <1>2, <1>3 DEF Shape
<1>6. CASE Key
  <2>1. phase = "running" /\ at' = at + 1 /\ Access1.op = "key"
        /\ UNCHANGED <<mem, shown, failed, changed>>
    BY <1>6 DEF Key, Advance
  <2>2. Script(cmd)[1].op # "key"
    BY SetterScript, Ops
  <2>3. at = 1 /\ cmd.name # "pwm1_test"
    BY <1>5, <2>1, <2>2 DEF Access1
  <2>4. C \in changed \/ 1 \in failed \/ LastShows(C)
    BY <1>2, <2>1, <2>3 DEF Confirmed
  <2> HIDE DEF C
  <2>5. QED
    BY <1>1, <2>1, <2>4 DEF LastShows
<1>7. Access1 = Read(C) /\ at' = at + 1 /\ phase = "running" => at' = 1
  <2>1. Access1 = Read(C) /\ at = 1 => FALSE
    <3>1. at = 1 => Access1.op \in {"key", "write"}
      BY SetterScript, Ops DEF Access1
    <3>2. QED
      BY <3>1, Ops
  <2>2. QED
    BY <1>5, <2>1
<1>8. CASE Transfer
  <2>1. phase = "running" /\ at' = at + 1 /\ Access1.op # "key"
    BY <1>8 DEF Transfer, Advance
  <2>2. CASE at = 0
    <3>1. Access1 = Read(C)
      BY <2>2, SetterScript DEF Access1
    <3>2. mem' = mem /\ shown' = Cat(shown, One(cmd.name, C, Value(mem, C)))
      BY <1>8, <3>1, TransferReads
    <3>3. Prints(cmd.name, Value(mem, C)) /\ Printed(cmd.name, Value(mem, C)) = Value(mem, C)
      BY PrintsAll DEF Setters, Printed
    <3> HIDE DEF C
    <3>4. shown' # << >> /\ shown'[Len(shown')] = <<C, Value(mem, C)>>
      BY <1>3, <3>2, <3>3, ShowsMore
    <3>5. QED
      BY <1>1, <3>2, <3>4 DEF LastShows
  <2>3. CASE at = 1
    <3>1. cmd.name # "pwm1_test"
      BY <2>1, <2>3
    <3>2. QED
      BY <2>1, <2>3, <3>1, SetterScript DEF Access1, GetChar
  <2>4. QED
    BY <1>5, <2>1, <2>2, <2>3
<1>9. CASE TransferFails
  <2>1. phase = "running" /\ Access1.op # "key"
    BY <1>9 DEF TransferFails
  <2>2. CASE at = 0
    <3>1. Access1 = Read(C)
      BY <2>2, SetterScript DEF Access1
    <3>2. 1 \in failed'
      BY <1>9, <2>2, <3>1, ReadFails
    <3>3. QED
      BY <3>2
  <2>3. CASE at = 1 /\ cmd.name # "pwm1_test"
    BY <2>1, <2>3, SetterScript DEF Access1, GetChar
  <2>4. CASE (at = 1 /\ cmd.name = "pwm1_test") \/ (at = 2 /\ cmd.name # "pwm1_test")
    <3>1. PICK v : Access1 = Write(C, v)
      BY <2>4, SetterScript DEF Access1
    <3>2. phase' = "exited"
      BY <1>9, <3>1, WriteFails
    <3>3. QED
      BY <3>2
  <2>5. CASE at = 2 /\ cmd.name = "pwm1_test"
    <3>1. Access1 = Read(C)
      BY <2>5, SetterScript DEF Access1
    <3>2. at' \in {2, 3}
      BY <1>9, <2>5, <3>1, ReadFails
    <3>3. QED
      BY <2>5, <3>2
  <2>6. QED
    BY <1>5, <2>1, <2>2, <2>3, <2>4, <2>5
<1>10. CASE Change
  <2>1. PICK c : /\ mem' = With(mem, c, (Value(mem, c) + 1) % UChar)
                 /\ changed' = changed \cup {c}
    BY <1>10 DEF Change
  <2>2. phase = "running" /\ UNCHANGED <<at, shown, failed>>
    BY <1>10 DEF Change
  <2>3. C \in changed \/ 1 \in failed \/ LastShows(C)
    BY <1>2, <2>2 DEF Confirmed
  <2> HIDE DEF C
  <2>4. C # c => Value(mem', C) = Value(mem, C)
    BY <2>1, ValueWith
  <2>5. QED
    BY <1>1, <2>1, <2>2, <2>3, <2>4 DEF LastShows
<1>11. CASE DirectKill
  BY <1>11 DEF DirectKill
<1>12. CASE UNCHANGED directVars
  <2>1. C \in changed \/ 1 \in failed \/ LastShows(C)
    BY <1>2, <1>12 DEF Confirmed, directVars
  <2> HIDE DEF C
  <2>2. QED
    BY <1>1, <1>12, <2>1 DEF directVars, LastShows
<1>13. QED
  BY <1>4, <1>6, <1>8, <1>9, <1>10, <1>11, <1>12 DEF DirectNext

LEMMA VerifiedStep ==
  ASSUME IInv, [DirectNext]_directVars
  PROVE  Verified'
<1> DEFINE C == CellOf(cmd, 1)
<1>1. cmd' = cmd /\ C' = C /\ Size(cmd)' = Size(cmd)
  BY DEF DirectNext, directVars, Launch, Key, Transfer, TransferFails, Change, DirectKill
<1>2. Shape /\ Verified
  BY DEF IInv
<1> SUFFICES ASSUME cmd.name \in Showers PROVE Verified'
  BY <1>1 DEF Verified
<1>3. /\ cmd.name \in Proved
      /\ Size(cmd) = IF cmd.name = "pwm1_test" THEN 3 ELSE 2
      /\ cmd.name # "pwm1_test" => C[1] = "port"
  BY SetterScript, SetioScript DEF Proved, Showers, Setters
<1>4. phase = "running" => shown \in Seq(Listed) /\ at \in 0 .. Size(cmd) - 1
  BY <1>2, <1>3 DEF Shape
<1>5. phase = "running" =>
        \/ at = Size(cmd) - 1 /\ Access1 = Read(C) /\ C \in DOMAIN mem
        \/ at = 0 /\ cmd.name = "pwm1_test" /\ Access1 = Read(C)
        \/ at = Size(cmd) - 2 /\ \E v : Access1 = Write(C, v)
  <2>1. phase = "running" /\ at = Size(cmd) - 1 => C \in DOMAIN mem
    BY <1>2, <1>3 DEF Verified
  <2>2. phase = "running" /\ at = Size(cmd) - 1 => Access1 = Read(C)
    BY <1>3, SetterScript, SetioScript DEF Access1, Showers, Setters
  <2>3. phase = "running" /\ at = 0 /\ cmd.name = "pwm1_test" => Access1 = Read(C)
    BY SetterScript DEF Access1, Setters
  <2>4. phase = "running" /\ at = Size(cmd) - 2 => \E v : Access1 = Write(C, v)
    BY <1>3, SetterScript, SetioScript DEF Access1, Showers, Setters
  <2> HIDE DEF C
  <2>5. QED
    BY <1>3, <1>4, <2>1, <2>2, <2>3, <2>4
<1> USE DEF Showers
<1>6. CASE Launch
  <2>1. at = 0
    BY <1>2, <1>6 DEF Launch, Shape
  <2>2. QED
    BY <1>1, <1>3, <1>6, <2>1 DEF Launch, Verified
<1>7. CASE Key
  BY <1>5, <1>7, Ops DEF Key
<1>8. ASSUME NEW v, Access1 = Read(C), phase = "running",
             UNCHANGED mem, at' = at + 1,
             phase' = IF at + 1 = Size(cmd) THEN "done" ELSE "running",
             shown' = Cat(shown, One(cmd.name, C, v)),
             v = Value(mem, C) \/ at + 1 \in failed'
      PROVE  Verified'
  <2>1. CASE at = Size(cmd) - 1 /\ C \in DOMAIN mem
    <3>1. phase' = "done" /\ at' = at + 1
      BY <1>3, <1>8, <2>1
    <3>2. Prints(cmd.name, v) /\ Printed(cmd.name, v) = v
      BY PrintsAll DEF Printed
    <3> HIDE DEF C
    <3>3. shown' # << >> /\ shown'[Len(shown')] = <<C, v>>
      BY <1>4, <1>8, <3>2, ShowsMore
    <3>4. (at \in failed)' \/ LastShows(C)'
      BY <1>1, <1>8, <3>1, <3>3 DEF LastShows
    <3>5. (C \in DOMAIN mem)'
      BY <1>1, <1>8, <2>1
    <3>6. QED
      BY <3>1, <3>4, <3>5 DEF Verified, C
  <2>2. CASE at = 0 /\ cmd.name = "pwm1_test"
    BY <1>1, <1>3, <1>8, <2>2 DEF Verified
  <2>3. ~(\E w : Access1 = Write(C, w))
    BY <1>8, Ops
  <2> HIDE DEF C
  <2>4. QED
    BY <1>5, <1>8, <2>1, <2>2, <2>3
<1>9. ASSUME NEW v, Access1 = Write(C, v), phase = "running",
             mem' = With(mem, C, v), at' = at + 1,
             phase' = IF at + 1 = Size(cmd) THEN "done" ELSE "running"
      PROVE  Verified'
  <2>1. at = Size(cmd) - 2
    <3>1. Access1 # Read(C)
      BY <1>9, Ops
    <3> HIDE DEF C
    <3>2. QED
      BY <1>5, <1>9, <3>1
  <2>2. phase' = "running"
    BY <1>3, <1>9, <2>1
  <2> HIDE DEF C
  <2>3. C \in DOMAIN mem'
    <3>1. DOMAIN With(mem, C, v) = DOMAIN mem \cup {C}
      BY ValueWith
    <3>2. QED
      BY <1>9, <3>1
  <2>4. QED
    BY <1>1, <2>2, <2>3 DEF Verified, C
<1>10. CASE Transfer
  <2>1. phase = "running"
    BY <1>10 DEF Transfer
  <2>2. CASE Access1 = Read(C)
    BY <1>8, <1>10, <2>1, <2>2, TransferReads
  <2>3. ASSUME NEW v, Access1 = Write(C, v) PROVE Verified'
    BY <1>9, <1>10, <2>1, <2>3, TransferWrites
  <2>4. QED
    BY <1>5, <2>1, <2>2, <2>3
<1>11. CASE TransferFails
  <2>1. phase = "running"
    BY <1>11 DEF TransferFails
  <2>2. CASE Access1 = Read(C)
    <3>1. C[1] \in {"smb", "sio"} /\ failed' = failed \cup {at + 1} /\ UNCHANGED mem
      BY <1>11, <2>2, ReadFails
    <3>2. cmd.name \notin ExitsOnRead
      BY DEF ExitsOnRead
    <3>3. /\ at' = at + 1
          /\ phase' = IF at + 1 = Size(cmd) THEN "done" ELSE "running"
          /\ shown' = Cat(shown, One(cmd.name, C, -1))
      BY <1>11, <2>2, <3>2, ReadFails
    <3>4. at + 1 \in failed'
      BY <3>1
    <3> HIDE DEF C
    <3>5. QED
      BY <1>8, <2>1, <2>2, <3>1, <3>3, <3>4
  <2>3. ASSUME NEW v, Access1 = Write(C, v) PROVE Verified'
    <3>1. phase' = "exited"
      BY <1>11, <2>3, WriteFails
    <3>2. QED
      BY <3>1 DEF Verified
  <2>4. QED
    BY <1>5, <2>1, <2>2, <2>3
<1>12. CASE Change
  <2>1. PICK c : mem' = With(mem, c, (Value(mem, c) + 1) % UChar)
    BY <1>12 DEF Change
  <2>2. phase = "running" /\ UNCHANGED <<phase, at>>
    BY <1>12 DEF Change
  <2> HIDE DEF C
  <2>3. C \in DOMAIN mem => C \in DOMAIN mem'
    <3>1. \A v : DOMAIN With(mem, c, v) = DOMAIN mem \cup {c}
      BY ValueWith
    <3>2. QED
      BY <2>1, <3>1
  <2>4. QED
    BY <1>1, <1>2, <2>2, <2>3 DEF Verified, C
<1>13. CASE DirectKill
  BY <1>13 DEF DirectKill, Verified
<1>14. CASE UNCHANGED directVars
  BY <1>1, <1>2, <1>14 DEF directVars, Verified, LastShows
<1>15. QED
  BY <1>6, <1>7, <1>10, <1>11, <1>12, <1>13, <1>14 DEF DirectNext

(* One access more of a dump.                                              *)
LEMMA LineMore ==
  ASSUME NEW n \in Nat, UNCHANGED cmd,
         \A k \in 1 .. n : k \in failed' <=> k \in failed,
         Listed = {Line(k) : k \in {j \in 1 .. n : Prints(cmd.name, Got(j))}},
         Listed' = IF Prints(cmd.name, Got(n + 1)')
                   THEN Listed \cup {Line(n + 1)'} ELSE Listed
  PROVE  /\ \A k \in 1 .. n : Got(k)' = Got(k) /\ Line(k)' = Line(k)
         /\ Listed' = {Line(k)' : k \in {j \in 1 .. n + 1 : Prints(cmd.name, Got(j)')}}
<1>1. \A k \in 1 .. n : Got(k)' = Got(k) /\ Line(k)' = Line(k)
  BY DEF Got, Line
<1>2. 1 .. n + 1 = (1 .. n) \cup {n + 1}
  OBVIOUS
<1> DEFINE P(k) == Prints(cmd.name, Got(k)')
           L(k) == Line(k)'
<1>3. Listed = {L(k) : k \in {j \in 1 .. n : P(j)}}
  BY <1>1
<1>4. Listed' = IF P(n + 1) THEN Listed \cup {L(n + 1)} ELSE Listed
  OBVIOUS
<1> HIDE DEF P, L
<1>5. Listed' = {L(k) : k \in {j \in 1 .. n + 1 : P(j)}}
  BY <1>2, <1>3, <1>4
<1>6. QED
  BY <1>1, <1>5 DEF P, L

LEMMA TranscriptStep ==
  ASSUME IInv, [DirectNext]_directVars
  PROVE  Transcript'
<1>0. PICK n \in Nat : n = at
  BY DEF IInv, Shape
<1> DEFINE C == CellOf(cmd, n + 1)
<1>1. cmd' = cmd /\ Size(cmd)' = Size(cmd) /\ (changed' = {} => changed = {})
  BY DEF DirectNext, directVars, Launch, Key, Transfer, TransferFails, Change, DirectKill, Size
<1>2. Shape
  BY DEF IInv
<1> SUFFICES ASSUME cmd.name \in Dumps, changed = {}, changed' = {} PROVE Transcript'
  BY <1>1 DEF Transcript
<1>3. /\ cmd.name \in Proved /\ at \in Nat /\ cmd \in Commands /\ shown \in Seq(Listed)
      /\ Size(cmd) \in Nat
  BY <1>2, SizeIs DEF Proved, Shape
<1>4. /\ DOMAIN mem = {} /\ at <= Size(cmd) /\ failed \subseteq 1 .. at + 1
      /\ Listed = {Line(k) : k \in {j \in 1 .. at : Prints(cmd.name, Got(j))}}
      /\ cmd.name \in {"spd_dump", "getreg_spd"} =>
           Len(shown) = at /\ \A k \in 1 .. at : shown[k] = Line(k)
  BY DEF IInv, Transcript
<1>5. phase \in {"running", "done"} =>
        /\ failed \subseteq 1 .. at
        /\ cmd.name = "getreg_spd" => failed = {}
        /\ \A k \in 1 .. at : ~Answers(CellOf(cmd, k)) => k \in failed
  BY DEF IInv, Transcript
<1>6. ASSUME UNCHANGED <<mem, failed, shown, at>>,
             phase' \in {"running", "done"} => phase \in {"running", "done", "idle"}
      PROVE  Transcript'
  <2>1. /\ \A k : Line(k)' = Line(k) /\ Got(k)' = Got(k)
        /\ Listed' = Listed
        /\ \A k : Answers(CellOf(cmd, k))' <=> Answers(CellOf(cmd, k))
    BY <1>1, <1>6 DEF Line, Got, Listed, Answers
  <2>2. phase = "idle" => at = 0 /\ failed = {}
    BY <1>2 DEF Shape
  <2>3. phase' \in {"running", "done"} =>
          /\ failed \subseteq 1 .. at
          /\ cmd.name = "getreg_spd" => failed = {}
          /\ \A k \in 1 .. at : ~Answers(CellOf(cmd, k)) => k \in failed
    BY <1>5, <1>6, <2>2
  <2>4. QED
    BY <1>1, <1>4, <1>6, <2>1, <2>3 DEF Transcript
<1>7. phase = "running" => at + 1 \in 1 .. Size(cmd) /\ Access1 = Read(C)
                           /\ n + 1 \notin failed
  BY <1>0, <1>2, <1>3, <1>5, AccessIs
<1>8. \A k \in 1 .. Size(cmd) : CellOf(cmd, k)[1] = "smb" /\ Holds(CellOf(cmd, k)) \in Byte
  BY <1>3, DumpReads
<1>9. ASSUME NEW v, phase = "running", at' = at + 1,
             phase' \in {"running", "done"},
             UNCHANGED mem,
             shown' = Cat(shown, One(cmd.name, C, v)),
             failed' \in {failed, failed \cup {at + 1}},
             v = Got(n + 1)',
             at + 1 \in failed' => cmd.name # "getreg_spd",
             Answers(C) \/ at + 1 \in failed'
      PROVE  Transcript'
  <2> HIDE DEF C
  <2>1. \A k \in 1 .. n : k \in failed' <=> k \in failed
    BY <1>0, <1>3, <1>9
  <2>2. Line(n + 1)' = <<C, Printed(cmd.name, v)>>
    BY <1>1, <1>9 DEF Line, C
  <2>3. Listed' = IF Prints(cmd.name, Got(n + 1)')
                  THEN Listed \cup {Line(n + 1)'} ELSE Listed
    <3>1. Prints(cmd.name, v) => Listed' = Listed \cup {<<C, Printed(cmd.name, v)>>}
      BY <1>3, <1>9, ShowsMore
    <3>2. ~Prints(cmd.name, v) => shown' = shown
      BY <1>3, <1>9, ShowsMore
    <3>3. QED
      BY <1>9, <2>2, <3>1, <3>2 DEF Listed
  <2>4. /\ \A k \in 1 .. n : Got(k)' = Got(k) /\ Line(k)' = Line(k)
        /\ Listed' = {Line(k)' : k \in {j \in 1 .. n + 1 : Prints(cmd.name, Got(j)')}}
    BY <1>0, <1>1, <1>3, <1>4, <2>1, <2>3, LineMore
  <2>5. (Listed = {Line(k) : k \in {j \in 1 .. at : Prints(cmd.name, Got(j))}})'
    BY <1>0, <1>1, <1>9, <2>4
  <2>6. /\ failed' \subseteq 1 .. at' /\ failed' \subseteq 1 .. at' + 1
        /\ cmd.name = "getreg_spd" => failed' = {}
        /\ at' <= Size(cmd)
    BY <1>3, <1>5, <1>7, <1>9
  <2>7. \A k \in 1 .. at' : ~Answers(CellOf(cmd, k))' => k \in failed'
    <3>1. \A k : Answers(CellOf(cmd, k))' <=> Answers(CellOf(cmd, k))
      BY <1>1
    <3>2. \A k \in 1 .. at' : k \in 1 .. at \/ k = n + 1
      BY <1>0, <1>3, <1>9
    <3>3. QED
      BY <1>0, <1>5, <1>9, <3>1, <3>2 DEF C
  <2>8. cmd.name \in {"spd_dump", "getreg_spd"} =>
          Len(shown') = at' /\ \A k \in 1 .. at' : shown'[k] = Line(k)'
    <3> SUFFICES ASSUME cmd.name \in {"spd_dump", "getreg_spd"}
                 PROVE  Len(shown') = at' /\ \A k \in 1 .. at' : shown'[k] = Line(k)'
      OBVIOUS
    <3>1. Prints(cmd.name, v)
      BY PrintsAll
    <3>2. /\ Len(shown') = Len(shown) + 1
          /\ shown'[Len(shown')] = <<C, Printed(cmd.name, v)>>
          /\ \A k \in 1 .. Len(shown) : shown'[k] = shown[k]
      BY <1>3, <1>9, <3>1, ShowsMore
    <3>3. Len(shown) = n /\ \A k \in 1 .. n : shown[k] = Line(k)
      BY <1>0, <1>4
    <3>4. \A k \in 1 .. n : shown'[k] = Line(k)'
      BY <2>4, <3>2, <3>3
    <3>5. shown'[n + 1] = Line(n + 1)'
      BY <2>2, <3>2, <3>3
    <3>6. \A k \in 1 .. at' : k \in 1 .. n \/ k = n + 1
      BY <1>0, <1>9
    <3>7. QED
      BY <1>0, <1>9, <3>2, <3>3, <3>4, <3>5, <3>6
  <2>9. DOMAIN mem' = {}
    BY <1>4, <1>9
  <2>10. QED
    BY <1>1, <2>5, <2>6, <2>7, <2>8, <2>9 DEF Transcript
<1>10. CASE Launch
  BY <1>6, <1>10 DEF Launch
<1>11. CASE Key
  BY <1>7, <1>11, Ops DEF Key
<1>12. CASE Transfer
  <2>1. phase = "running"
    BY <1>12 DEF Transfer
  <2>2. Access1 = Read(C)
    BY <1>7, <2>1
  <2>3. /\ Answers(C) /\ at' = at + 1
        /\ phase' = IF at + 1 = Size(cmd) THEN "done" ELSE "running"
        /\ shown' = Cat(shown, One(cmd.name, C, Value(mem, C)))
        /\ UNCHANGED <<cmd, mem, failed, changed>>
    BY <1>12, <2>2, TransferReads
  <2>4. Value(mem, C) = Got(n + 1)'
    BY <1>4, <1>7, <2>1, <2>3 DEF Value, Got
  <2> HIDE DEF C
  <2>5. QED
    BY <1>0, <1>7, <1>9, <2>1, <2>3, <2>4
<1>13. CASE TransferFails
  <2>1. phase = "running"
    BY <1>13 DEF TransferFails
  <2>2. Access1 = Read(C)
    BY <1>7, <2>1
  <2>3. failed' = failed \cup {at + 1} /\ UNCHANGED <<cmd, mem, changed>>
    BY <1>13, <2>2, ReadFails
  <2>4. CASE cmd.name = "getreg_spd"
    <3>1. phase' = "exited" /\ UNCHANGED <<at, shown>>
      BY <1>13, <2>2, <2>4, ReadFails DEF ExitsOnRead
    <3>2. \A k \in 1 .. n : Got(k)' = Got(k) /\ Line(k)' = Line(k)
      BY <1>0, <1>1, <1>3, <2>3 DEF Got, Line
    <3>3. Listed' = Listed
      BY <3>1 DEF Listed
    <3>4. {j \in 1 .. at : Prints(cmd.name, Got(j))}' = {j \in 1 .. at : Prints(cmd.name, Got(j))}
      BY <1>0, <1>1, <3>1, <3>2
    <3>5. (Listed = {Line(k) : k \in {j \in 1 .. at : Prints(cmd.name, Got(j))}})'
      BY <1>0, <1>4, <3>1, <3>2, <3>3, <3>4
    <3>6. failed' \subseteq 1 .. at' + 1
      BY <1>3, <1>4, <2>3, <3>1
    <3>7. Len(shown') = at' /\ \A k \in 1 .. n : shown'[k] = Line(k)'
      <4>1. Len(shown) = at /\ \A k \in 1 .. n : shown[k] = Line(k)
        BY <1>0, <1>4, <2>4
      <4>2. QED
        BY <3>1, <3>2, <4>1
    <3>8. QED
      BY <1>0, <1>1, <1>4, <2>3, <3>1, <3>5, <3>6, <3>7 DEF Transcript
  <2>5. CASE cmd.name # "getreg_spd"
    <3>1. cmd.name \notin ExitsOnRead
      BY <2>5 DEF Dumps, ExitsOnRead
    <3>2. /\ at' = at + 1
          /\ phase' = IF at + 1 = Size(cmd) THEN "done" ELSE "running"
          /\ shown' = Cat(shown, One(cmd.name, C, -1))
      BY <1>13, <2>2, <3>1, ReadFails
    <3>3. Got(n + 1)' = -1 /\ at + 1 \in failed'
      BY <1>0, <2>3 DEF Got
    <3> HIDE DEF C
    <3>4. QED
      BY <1>9, <2>1, <2>3, <2>5, <3>2, <3>3
  <2>6. QED
    BY <2>4, <2>5
<1>14. CASE Change
  BY <1>14 DEF Change
<1>15. CASE DirectKill
  BY <1>6, <1>15 DEF DirectKill
<1>16. CASE UNCHANGED directVars
  BY <1>6, <1>16 DEF directVars
<1>17. QED
  BY <1>10, <1>11, <1>12, <1>13, <1>14, <1>15, <1>16 DEF DirectNext

(* At every point of a script what was printed, read back, accessed and    *)
(* shown before a key belongs to the accesses made so far.                 *)
THEOREM Invariance == DirectSpec => []IInv
<1>1. DirectInit => IInv
  BY Initial
<1>2. IInv /\ [DirectNext]_directVars => IInv'
  BY ShapeStep, ExactStep, ConfirmedStep, VerifiedStep, TranscriptStep DEF IInv
<1>3. QED
  BY <1>1, <1>2, PTL DEF DirectSpec

-----------------------------------------------------------------------------
(* The properties.                                                         *)

(* What setreg, setreg_b1 and pwm1_test overwrite is what they have        *)
(* printed, unless somebody else set the register after they read it, or   *)
(* the read had failed: whatever the slaves answer and whenever others     *)
(* write.                                                                  *)
THEOREM ConfirmedStillAlways == DirectSpec => ConfirmedStill
<1> DEFINE C == CellOf(cmd, 1)
           P == cmd.name \in {"setreg", "setreg_b1", "pwm1_test"} /\ changed' = changed =>
                  \A c \in DOMAIN mem' :
                    \/ Value(mem', c) = Value(mem, c)
                    \/ c \in changed \/ 1 \in failed
                    \/ shown # << >> /\ shown[Len(shown)] = <<c, Value(mem, c)>>
<1>1. ASSUME IInv, [DirectNext]_directVars, cmd.name \in Setters, changed' = changed
      PROVE  \A c \in DOMAIN mem' :
               \/ Value(mem', c) = Value(mem, c)
               \/ c \in changed \/ 1 \in failed \/ LastShows(c)
  <2>1. Shape /\ Confirmed /\ cmd.name \in Proved /\ Size(cmd) = 3
    BY <1>1, SetterScript DEF IInv, Proved
  <2>2. ASSUME NEW v, Access1 = Write(C, v), phase = "running"
        PROVE  C \in changed \/ 1 \in failed \/ LastShows(C)
    <3>1. at \in 0 .. 2
      BY <2>1, <2>2 DEF Shape
    <3>2. at # 0
      <4>1. Script(cmd)[1] # Write(C, v)
        BY <1>1, SetterScript, Ops
      <4>2. QED
        BY <2>2, <4>1 DEF Access1
    <3>3. cmd.name = "pwm1_test" => at # 2
      <4>1. cmd.name = "pwm1_test" => Script(cmd)[3] # Write(C, v)
        BY <1>1, SetterScript, Ops
      <4>2. QED
        BY <2>2, <4>1 DEF Access1
    <3>4. QED
      BY <1>1, <2>1, <2>2, <3>1, <3>2, <3>3 DEF Confirmed
  <2>3. ASSUME NEW v, Access1 = Write(C, v), phase = "running", mem' = With(mem, C, v)
        PROVE  \A c \in DOMAIN mem' :
                 \/ Value(mem', c) = Value(mem, c)
                 \/ c \in changed \/ 1 \in failed \/ LastShows(c)
    <3>1. C \in changed \/ 1 \in failed \/ LastShows(C)
      BY <2>2, <2>3
    <3> HIDE DEF C
    <3>2. \A c : c # C => Value(mem', c) = Value(mem, c)
      BY <2>3, ValueWith
    <3>3. QED
      BY <3>1, <3>2
  <2>4. CASE UNCHANGED mem
    BY <2>4
  <2>5. CASE Transfer \/ TransferFails
    <3>1. phase = "running" /\ Access1.op # "key"
      BY <2>5 DEF Transfer, TransferFails
    <3>2. Access1 = Read(C) \/ \E v : Access1 = Write(C, v)
      <4>1. cmd.name \notin Dumps
        BY <1>1 DEF Setters, Dumps
      <4>2. QED
        BY <2>1, <3>1, <4>1, AccessIs, Ops
    <3>3. CASE Access1 = Read(C)
      BY <2>4, <2>5, <3>3, TransferReads, ReadFails
    <3>4. ASSUME NEW v, Access1 = Write(C, v)
          PROVE  mem' = mem \/ mem' = With(mem, C, v)
      BY <2>5, <3>4, TransferWrites, WriteFails
    <3>5. QED
      BY <2>3, <2>4, <3>1, <3>2, <3>3, <3>4
  <2>6. ~Change
    BY <1>1 DEF Change
  <2>7. Launch \/ Key \/ DirectKill \/ UNCHANGED directVars => UNCHANGED mem
    BY DEF Launch, Key, DirectKill, directVars
  <2>8. QED
    BY <1>1, <2>4, <2>5, <2>6, <2>7 DEF DirectNext
<1>2. IInv /\ [DirectNext]_directVars => P
  BY <1>1 DEF LastShows, Setters
<1>3. QED
  BY <1>2, Invariance, PTL DEF DirectSpec, ConfirmedStill

(* Division.                                                               *)
LEMMA ModSmall ==
  ASSUME NEW x \in Int, NEW m \in Int, x \in 0 .. m - 1
  PROVE  x % m = x
  BY SMTT(30)

LEMMA Divides ==
  ASSUME NEW x \in Int, NEW m \in Int, m > 0, x % m = 0
  PROVE  \E q \in Int : x = m * q
  BY SMTT(30)

LEMMA Divided ==
  ASSUME NEW x \in Int, NEW m \in Int, m > 0
  PROVE  x = m * (x \div m) + (x % m) /\ x \div m \in Int /\ x % m \in 0 .. m - 1
<1>1. x = (x \div m) * m + (x % m)
  BY SMTT(30)
<1>2. x \div m \in Int /\ x % m \in 0 .. m - 1
  BY SMTT(30)
<1>3. QED
  BY <1>1, <1>2

LEMMA OneRemainder ==
  ASSUME NEW q \in Int, NEW p \in Int, NEW m \in Int, m > 0,
         NEW r \in 0 .. m - 1, NEW s \in 0 .. m - 1, m * q + r = m * p + s
  PROVE  r = s
<1>1. CASE q > p
  <2>1. m * (q - p) >= m
    BY <1>1
  <2>2. QED
    BY <2>1
<1>2. CASE p > q
  <2>1. m * (p - q) >= m
    BY <1>2
  <2>2. QED
    BY <2>1
<1>3. CASE p = q
  BY <1>3
<1>4. QED
  BY <1>1, <1>2, <1>3

(* The check of amd_gpio_tool lets pass what is in the page and aligned,   *)
(* and the one offset for which x + 4 is 0.                                *)
LEMMA GpioOffset ==
  ASSUME NEW a \in 0 .. ULong - 1, a # ULong - 4,
         (a + 4) % ULong <= GpioSize, (a % UInt) % 4 = 0
  PROVE  a % UInt = a /\ a + 4 <= GpioSize /\ a % 4 = 0
<1>1. /\ GpioSize \in Nat /\ UInt \in Nat /\ ULong \in Nat
      /\ UInt > GpioSize /\ UInt > 4 /\ UInt % 4 = 0 /\ ULong % UInt = 0
  <2>1. GpioSize \in Nat /\ UInt \in Nat /\ ULong \in Nat /\ UInt % 65536 = 0
        /\ UInt > GpioSize /\ ULong % UInt = 0
    BY WidthsAssumption, SizesAssumption DEF UShort
  <2>2. UInt > 4 /\ UInt % 4 = 0
    BY <2>1
  <2>3. QED
    BY <2>1, <2>2
<1>2. CASE a + 4 < ULong
  <2>1. (a + 4) % ULong = a + 4
    BY <1>1, <1>2, ModSmall
  <2>2. a \in 0 .. UInt - 1
    BY <1>1, <2>1
  <2>3. a % UInt = a
    BY <1>1, <2>2, ModSmall
  <2>4. QED
    BY <2>1, <2>3
<1>3. ASSUME NEW k \in 1 .. 3, a = ULong - k PROVE FALSE
  <2>1. PICK q \in Int : ULong = UInt * q
    BY <1>1, Divides
  <2>2. a = UInt * (q - 1) + (UInt - k)
    BY <1>1, <1>3, <2>1
  <2>3. a = UInt * (a \div UInt) + (a % UInt) /\ a \div UInt \in Int
        /\ a % UInt \in 0 .. UInt - 1
    BY <1>1, Divided
  <2>4. a % UInt = UInt - k
    <3>1. UInt - k \in 0 .. UInt - 1 /\ q - 1 \in Int /\ UInt \in Int /\ UInt > 0
      BY <1>1
    <3>2. UInt * (q - 1) + (UInt - k) = UInt * (a \div UInt) + (a % UInt)
      BY <2>2, <2>3
    <3>3. UInt - k = a % UInt
      BY <2>3, <3>1, <3>2, OneRemainder, Zenon
    <3>4. QED
      BY <3>3
  <2>5. (UInt - k) % 4 # 0
    BY <1>1
  <2>6. QED
    BY <2>4, <2>5
<1>4. a + 4 < ULong \/ \E k \in 1 .. 3 : a = ULong - k
  BY <1>1
<1>5. QED
  BY <1>2, <1>3, <1>4

(* amd_gpio_tool and sio_tool reach the very register of their command     *)
(* line, inside the page and aligned, and set it to the very value, for    *)
(* every size of the page and every number but the offset 4 below 2^64.    *)
THEOREM ExactOrRefusedAlways == DirectSpec => []ExactOrRefused
<1> DEFINE C == CellOf(cmd, 1)
<1>1. ASSUME IInv, cmd.name \in {"gpio_r", "gpio_w"}, C \in touched, ~Wraps(cmd)
      PROVE  /\ C[1] = "gpio" /\ C[3] = cmd.a /\ C[3] + 4 <= GpioSize /\ C[3] % 4 = 0
             /\ cmd.name = "gpio_w" => Value(mem, C) = cmd.b
  <2>1. cmd \in Commands /\ ~ArgumentRefused(cmd)
        /\ (cmd.name = "gpio_w" => Value(mem, C) = cmd.b)
    BY <1>1 DEF IInv, Shape, Exact, Checked
  <2>2. C[1] = "gpio" /\ C[3] = cmd.a % UInt
    BY <1>1, CheckedScript DEF Gpio, Checked
  <2>3. cmd.a \in 0 .. ULong - 1 /\ cmd.a # ULong - 4
    BY <1>1, <2>1, CommandsAssumption DEF Wraps
  <2>4. ULong \in Nat /\ GpioSize \in Nat /\ (cmd.a + 4) % ULong \in Int
    <3>1. ULong \in Nat /\ GpioSize \in Nat /\ ULong > 0
      BY WidthsAssumption, SizesAssumption
    <3>2. QED
      BY <2>3, <3>1, Divided
  <2>5. (cmd.a + 4) % ULong <= GpioSize /\ (cmd.a % UInt) % 4 = 0
    <3>1. ~((cmd.a + 4) % ULong > GpioSize) /\ (cmd.a % UInt) % 4 = 0
      BY <1>1, <2>1, Zenon DEF ArgumentRefused, GpioRefuses
    <3>2. QED
      BY <2>4, <3>1
  <2>6. QED
    BY <2>1, <2>2, <2>3, <2>5, GpioOffset
<1>2. ASSUME IInv, cmd.name \in {"sio_r", "sio_w"}
      PROVE  /\ C = <<"sio", cmd.a, cmd.b>> /\ C[1] = "sio"
             /\ cmd.name = "sio_w" /\ phase = "done" => Value(mem, C) = cmd.c
  BY <1>2, CheckedScript DEF IInv, Exact, Checked
<1>3. IInv => ExactOrRefused
  <2> SUFFICES ASSUME IInv, cmd.name \in Checked, NEW c \in touched
               PROVE  /\ c[1] = "gpio" /\ ~Wraps(cmd) =>
                           /\ c[3] = cmd.a /\ c[3] + 4 <= GpioSize /\ c[3] % 4 = 0
                           /\ cmd.name = "gpio_w" => Value(mem, c) = cmd.b
                      /\ c[1] = "sio" =>
                           /\ c = <<"sio", cmd.a, cmd.b>>
                           /\ cmd.name = "sio_w" /\ phase = "done" => Value(mem, c) = cmd.c
    BY DEF ExactOrRefused, Checked
  <2>1. c = C
    BY DEF IInv, Exact
  <2>2. CASE cmd.name \in {"gpio_r", "gpio_w"}
    <3>1. C[1] = "gpio"
      BY <2>2, CheckedScript DEF Gpio, Checked
    <3> HIDE DEF C
    <3>2. QED
      BY <1>1, <2>1, <2>2, <3>1
  <2>3. CASE cmd.name \in {"sio_r", "sio_w"}
    <3> HIDE DEF C
    <3>1. QED
      BY <1>2, <2>1, <2>3
  <2>4. QED
    BY <2>2, <2>3 DEF Checked
<1>4. QED
  BY <1>3, Invariance, PTL

(* The cell of a read.                                                     *)
LEMMA CellRead ==
  ASSUME NEW c, NEW k, NEW d, Script(c)[k] = Read(d)
  PROVE  CellOf(c, k) = d
  BY DEF CellOf, Read

(* The end of a dump that nobody disturbed.                                *)
LEMMA DumpDone ==
  ASSUME IInv, phase = "done", changed = {}, cmd.name \in Dumps
  PROVE  /\ cmd \in Commands /\ at = Size(cmd) /\ Size(cmd) \in Nat
         /\ failed \subseteq 1 .. Size(cmd)
         /\ cmd.name = "getreg_spd" => failed = {}
         /\ \A k \in 1 .. Size(cmd) : ~Answers(CellOf(cmd, k)) => k \in failed
         /\ Listed = {Line(k) : k \in {j \in 1 .. Size(cmd) : Prints(cmd.name, Got(j))}}
         /\ cmd.name \in {"spd_dump", "getreg_spd"} =>
              Len(shown) = Size(cmd) /\ \A k \in 1 .. Size(cmd) : shown[k] = Line(k)
         /\ \A k \in 1 .. Size(cmd) : Holds(CellOf(cmd, k)) \in Byte
<1>1. cmd.name \in Proved
  BY DEF Proved
<1>2. cmd \in Commands /\ at = Size(cmd) /\ Size(cmd) \in Nat
  BY <1>1, SizeIs DEF IInv, Shape
<1>3. \A k \in 1 .. Size(cmd) : Holds(CellOf(cmd, k)) \in Byte
  BY <1>2, DumpReads
<1>4. QED
  BY <1>2, <1>3 DEF IInv, Transcript

(* What a dump of one slave lists is what its registers hold.              *)
LEMMA SlaveListed ==
  ASSUME IInv, phase = "done", changed = {}, NEW slave,
         cmd.name \in {"smb_dump_slave", "smb_test2"},
         Size(cmd) = RegCount,
         \A k \in 1 .. RegCount : Script(cmd)[k] = Read(Smb(slave, k - 1))
  PROVE  Listed = AllOf(slave)
<1> DEFINE R == {s \in 0 .. RegCount - 1 :
                   s + 1 \notin failed /\ Holds(Smb(slave, s)) \notin {0, 255}}
           K == {j \in 1 .. RegCount : Prints(cmd.name, Got(j))}
<1>1. /\ RegCount \in Nat /\ failed \subseteq 1 .. RegCount
      /\ Listed = {Line(k) : k \in K}
      /\ \A k \in 1 .. RegCount : Holds(CellOf(cmd, k)) \in Byte
  BY DumpDone DEF Dumps
<1>2. \A k \in 1 .. RegCount : CellOf(cmd, k) = Smb(slave, k - 1)
  BY CellRead
<1>3. \A v : Prints(cmd.name, v) <=> 0 < v /\ v < 255
  <2>1. cmd.name \notin {"smb_test"} /\ cmd.name # "smb_slave_test"
    OBVIOUS
  <2>2. QED
    BY <2>1, Zenon DEF Prints
<1>4. \A v : Printed(cmd.name, v) = v
  BY DEF Printed
<1>5. \A k \in 1 .. RegCount :
        /\ k \in K <=> k - 1 \in R
        /\ k \in K => Line(k) = <<Smb(slave, k - 1), Holds(Smb(slave, k - 1))>>
  <2>1. TAKE k \in 1 .. RegCount
  <2>2. k - 1 \in 0 .. RegCount - 1 /\ (k - 1) + 1 = k
    BY <1>1
  <2>3. Holds(Smb(slave, k - 1)) \in 0 .. 255
    <3>1. Holds(Smb(slave, k - 1)) \in Byte
      BY <1>1, <1>2
    <3>2. QED
      BY <3>1 DEF Byte, UChar
  <2>4. CASE k \in failed
    <3>1. Got(k) = -1
      BY <2>4 DEF Got
    <3>2. k \notin K
      BY <1>3, <3>1
    <3>3. QED
      BY <2>2, <2>4, <3>2
  <2>5. CASE k \notin failed
    <3>1. Got(k) = Holds(Smb(slave, k - 1))
      BY <1>2, <2>5 DEF Got
    <3>2. k \in K <=> Holds(Smb(slave, k - 1)) \notin {0, 255}
      BY <1>3, <2>3, <3>1
    <3>3. k - 1 \in R <=> Holds(Smb(slave, k - 1)) \notin {0, 255}
      BY <2>2, <2>5
    <3>4. Line(k) = <<Smb(slave, k - 1), Holds(Smb(slave, k - 1))>>
      BY <1>2, <1>4, <3>1 DEF Line
    <3>5. QED
      BY <3>2, <3>3, <3>4
  <2>6. QED
    BY <2>4, <2>5
<1>6. K \subseteq 1 .. RegCount /\ R \subseteq 0 .. RegCount - 1
  OBVIOUS
<1>7. AllOf(slave) = {<<c, Holds(c)>> : c \in {Smb(slave, r) : r \in R}}
  BY DEF AllOf
<1> HIDE DEF K, R
<1>8. \A x \in Listed : x \in AllOf(slave)
  <2>1. TAKE x \in Listed
  <2>2. PICK k \in K : x = Line(k)
    BY <1>1
  <2>3. x = <<Smb(slave, k - 1), Holds(Smb(slave, k - 1))>> /\ k - 1 \in R
    BY <1>5, <1>6, <2>2
  <2>4. QED
    BY <1>7, <2>3
<1>9. \A x \in AllOf(slave) : x \in Listed
  <2>1. TAKE x \in AllOf(slave)
  <2>2. PICK r \in R : x = <<Smb(slave, r), Holds(Smb(slave, r))>>
    BY <1>7
  <2>3. r + 1 \in 1 .. RegCount /\ (r + 1) - 1 = r
    BY <1>1, <1>6
  <2>4. r + 1 \in K /\ Line(r + 1) = x
    BY <1>5, <2>2, <2>3
  <2>5. QED
    BY <1>1, <2>4
<1>10. QED
  BY <1>8, <1>9

(* What the probe lists is every slave that answered, but for the PLL.     *)
LEMMA SlavesListed ==
  ASSUME IInv, phase = "done", changed = {}, cmd.name = "smb_test"
  PROVE  Listed = AllSlaves
<1> DEFINE F(s)  == Smb(2 * s, 0)
           A     == {F(s) : s \in {t \in (0 .. 126) \ {\h69} : 2 * t \in Present}}
           B     == {Script(cmd)[k].cells[1] : k \in failed}
           K     == {j \in 1 .. 126 : Prints(cmd.name, Got(j))}
<1>1. /\ Size(cmd) = 126 /\ failed \subseteq 1 .. 126
      /\ \A k \in 1 .. 126 : ~Answers(CellOf(cmd, k)) => k \in failed
      /\ Listed = {Line(k) : k \in K}
      /\ \A k \in 1 .. 126 : Holds(CellOf(cmd, k)) \in Byte
  BY DumpDone, ProbeScript DEF Dumps
<1>2. \A k \in 1 .. 126 : CellOf(cmd, k) = F(Probed(k))
  <2>1. \A k \in 1 .. 126 : Script(cmd)[k] = Read(F(Probed(k)))
    BY ProbeScript
  <2> HIDE DEF F
  <2>2. QED
    BY <2>1, CellRead
<1>3. \A v : Prints(cmd.name, v) <=> v >= 0
  <2>1. cmd.name \notin {"smb_dump_slave", "smb_test2"} /\ cmd.name # "smb_slave_test"
    OBVIOUS
  <2>2. QED
    BY <2>1, Zenon DEF Prints
<1>4. \A v : Printed(cmd.name, v) = v
  BY DEF Printed
<1>5. \A k \in 1 .. 126 : k \in K <=> k \notin failed
  <2>1. TAKE k \in 1 .. 126
  <2>2. CASE k \in failed
    <3>1. Got(k) = -1 /\ ~(-1 >= 0)
      BY <2>2 DEF Got
    <3>2. QED
      BY <1>3, <2>2, <3>1
  <2>3. CASE k \notin failed
    <3>1. Holds(CellOf(cmd, k)) \in Byte /\ Got(k) = Holds(CellOf(cmd, k))
      BY <1>1, <2>3 DEF Got
    <3>2. Got(k) >= 0
      BY <3>1 DEF Byte, UChar
    <3>3. QED
      BY <1>3, <2>3, <3>2
  <2>4. QED
    BY <2>2, <2>3
<1>6. \A k \in K : Line(k) = <<F(Probed(k)), Holds(F(Probed(k)))>>
  BY <1>2, <1>4, <1>5 DEF Line, Got
<1>7. \A k \in 1 .. 126 : Probed(k) \in (0 .. 126) \ {\h69}
  BY DEF Probed
<1>8. \A s \in (0 .. 126) \ {\h69} : \E k \in 1 .. 126 : Probed(k) = s
  <2>1. TAKE s \in (0 .. 126) \ {\h69}
  <2>2. CASE s < \h69
    <3>1. s + 1 \in 1 .. 126 /\ Probed(s + 1) = s
      BY <2>2 DEF Probed
    <3>2. QED
      BY <3>1
  <2>3. CASE s > \h69
    <3>1. s \in 1 .. 126 /\ Probed(s) = s
      BY <2>3 DEF Probed
    <3>2. QED
      BY <3>1
  <2>4. QED
    BY <2>2, <2>3
<1>9. \A k, j \in 1 .. 126 : F(Probed(k)) = F(Probed(j)) => k = j
  <2>1. TAKE k, j \in 1 .. 126
  <2>2. \A s \in 0 .. 126 : F(s) = <<"smb", 2 * s, 0>>
    BY DEF Smb, UChar
  <2>3. F(Probed(k)) = F(Probed(j)) => 2 * Probed(k) = 2 * Probed(j)
    <3> HIDE DEF F
    <3>1. F(Probed(k)) = <<"smb", 2 * Probed(k), 0>> /\ F(Probed(j)) = <<"smb", 2 * Probed(j), 0>>
      BY <1>7, <2>2
    <3>2. QED
      BY <3>1
  <2>4. 2 * Probed(k) = 2 * Probed(j) => k = j
    BY DEF Probed
  <2>5. QED
    BY <2>3, <2>4
<1>10. \A s \in 0 .. 126 : Answers(F(s)) <=> 2 * s \in Present
  BY DEF Answers, Smb, UChar
<1>11. B = {CellOf(cmd, k) : k \in failed}
  BY DEF CellOf
<1>12. AllSlaves = {<<c, Holds(c)>> : c \in A \ B}
  BY DEF AllSlaves
<1> HIDE DEF F, B, K
<1>13. \A x \in Listed : x \in AllSlaves
  <2>1. TAKE x \in Listed
  <2>2. PICK k \in K : x = Line(k)
    BY <1>1
  <2>3. k \in 1 .. 126 /\ k \notin failed
    BY <1>5, <2>2 DEF K
  <2>4. 2 * Probed(k) \in Present
    <3>1. Answers(F(Probed(k)))
      BY <1>1, <1>2, <2>3
    <3>2. Probed(k) \in 0 .. 126
      BY <1>7, <2>3
    <3>3. QED
      BY <1>10, <3>1, <3>2
  <2>5. F(Probed(k)) \in A
    BY <1>7, <2>3, <2>4
  <2>6. F(Probed(k)) \notin B
    <3> SUFFICES ASSUME F(Probed(k)) \in B PROVE FALSE
      OBVIOUS
    <3>1. PICK j \in failed : F(Probed(k)) = CellOf(cmd, j)
      BY <1>11
    <3>2. j \in 1 .. 126
      BY <1>1, <3>1
    <3>3. F(Probed(k)) = F(Probed(j))
      BY <1>2, <3>1, <3>2
    <3>4. k = j
      BY <1>9, <2>3, <3>2, <3>3
    <3>5. QED
      BY <2>3, <3>1, <3>4
  <2>7. QED
    BY <1>6, <1>12, <2>2, <2>5, <2>6
<1>14. \A x \in AllSlaves : x \in Listed
  <2>1. TAKE x \in AllSlaves
  <2>2. PICK s \in (0 .. 126) \ {\h69} : F(s) \notin B /\ x = <<F(s), Holds(F(s))>>
    BY <1>12
  <2>3. PICK k \in 1 .. 126 : Probed(k) = s
    BY <1>8
  <2>4. k \in K
    BY <1>2, <1>5, <1>11, <2>2, <2>3
  <2>5. QED
    BY <1>1, <1>6, <2>2, <2>3, <2>4
<1>15. QED
  BY <1>13, <1>14

(* What a tool that comes to its end has printed of registers that nobody  *)
(* else has set is all that it is there to print, in order and unchanged,  *)
(* whatever the slaves hold and whichever accesses fail.                   *)
THEOREM CompleteAlways == DirectSpec => []Complete
<1>1. ASSUME IInv, phase = "done", changed = {}, cmd.name = "spd_dump"
      PROVE  Image(cmd.a, ImageSize)
  <2>1. /\ Size(cmd) = ImageSize
        /\ \A k \in 1 .. ImageSize : Script(cmd)[k] = Read(Smb(cmd.a, k - 1))
    BY <1>1, DumpScripts
  <2>2. /\ Len(shown) = ImageSize /\ \A k \in 1 .. ImageSize : shown[k] = Line(k)
        /\ \A k \in 1 .. ImageSize : Holds(CellOf(cmd, k)) \in Byte
    BY <1>1, <2>1, DumpDone DEF Dumps
  <2>3. \A k \in 1 .. ImageSize : CellOf(cmd, k) = Smb(cmd.a, k - 1)
    BY <2>1, CellRead
  <2>4. \A v \in Byte : Printed(cmd.name, v) = v
    BY <1>1 DEF Printed, Byte, UChar
  <2>5. Printed(cmd.name, -1) = 255
    <3>1. Printed(cmd.name, -1) = (-1) % 256
      BY <1>1 DEF Printed, UChar
    <3>2. \A x \in Int : x + 1 = 0 => x % 256 = 255
      OBVIOUS
    <3>3. -1 \in Int /\ -1 + 1 = 0
      OBVIOUS
    <3>4. QED
      BY <3>1, <3>2, <3>3
  <2>6. ASSUME NEW k \in 1 .. ImageSize
        PROVE  shown[k] = <<Smb(cmd.a, k - 1),
                            IF k \in failed THEN 255 ELSE Holds(Smb(cmd.a, k - 1))>>
    <3>1. Holds(Smb(cmd.a, k - 1)) \in Byte
      BY <2>2, <2>3
    <3>2. Printed(cmd.name, Got(k)) = IF k \in failed THEN 255 ELSE Holds(Smb(cmd.a, k - 1))
      BY <2>3, <2>4, <2>5, <3>1 DEF Got
    <3>3. QED
      BY <2>2, <2>3, <3>2 DEF Line
  <2>7. QED
    BY <2>2, <2>6 DEF Image
<1>2. ASSUME IInv, phase = "done", changed = {}, cmd.name = "smb_dump_slave"
      PROVE  Listed = AllOf(cmd.a)
  BY <1>2, SlaveListed, DumpScripts
<1>3. ASSUME IInv, phase = "done", changed = {}, cmd.name = "smb_test2"
      PROVE  Listed = AllOf(\h62)
  BY <1>3, SlaveListed, DumpScripts
<1>4. ASSUME IInv, phase = "done", changed = {}, cmd.name = "getreg_spd"
      PROVE  /\ Len(shown) = 3 * SpdRows
             /\ \A i \in 0 .. 2, r \in 0 .. SpdRows - 1 :
                  LET c == Smb(\hA0 + 2 * i, r)
                  IN  shown[i * SpdRows + r + 1] = <<c, Holds(c)>>
  <2>1. SpdRows \in Nat /\ Size(cmd) = 3 * SpdRows
    BY <1>4, SpdScript, SizesAssumption DEF UChar
  <2>2. failed = {} /\ Len(shown) = 3 * SpdRows /\ \A k \in 1 .. 3 * SpdRows : shown[k] = Line(k)
    BY <1>4, <2>1, DumpDone DEF Dumps
  <2>3. \A v : Printed(cmd.name, v) = v
    BY <1>4 DEF Printed
  <2>4. \A k : Line(k) = <<CellOf(cmd, k), Holds(CellOf(cmd, k))>>
    BY <2>2, <2>3 DEF Line, Got
  <2>5. ASSUME NEW i \in 0 .. 2, NEW r \in 0 .. SpdRows - 1
        PROVE  /\ i * SpdRows + r + 1 \in 1 .. 3 * SpdRows
               /\ CellOf(cmd, i * SpdRows + r + 1) = Smb(\hA0 + 2 * i, r)
    <3>1. r + 1 \in 1 .. SpdRows /\ (r + 1) - 1 = r
      BY <2>1
    <3>2. /\ Script(cmd)[r + 1] = Read(Smb(\hA0, r))
          /\ Script(cmd)[SpdRows + (r + 1)] = Read(Smb(\hA2, r))
          /\ Script(cmd)[2 * SpdRows + (r + 1)] = Read(Smb(\hA4, r))
      BY <1>4, <3>1, SpdScript
    <3>3. \/ i = 0 /\ i * SpdRows + r + 1 = r + 1 /\ \hA0 + 2 * i = \hA0
          \/ i = 1 /\ i * SpdRows + r + 1 = SpdRows + (r + 1) /\ \hA0 + 2 * i = \hA2
          \/ i = 2 /\ i * SpdRows + r + 1 = 2 * SpdRows + (r + 1) /\ \hA0 + 2 * i = \hA4
      BY <2>1
    <3>4. Script(cmd)[i * SpdRows + r + 1] = Read(Smb(\hA0 + 2 * i, r))
      BY <3>2, <3>3
    <3>5. i * SpdRows + r + 1 \in 1 .. 3 * SpdRows
      BY <2>1, <3>3
    <3>6. QED
      BY <3>4, <3>5 DEF CellOf, Read
  <2>6. QED
    BY <2>2, <2>4, <2>5
<1>5. ASSUME IInv, phase = "done", cmd.name \in {"pwm1_test", "setio", "setio_l"}
      PROVE  \E c \in DOMAIN mem : at \in failed \/ shown[Len(shown)] = <<c, mem[c]>>
  <2> DEFINE C == CellOf(cmd, 1)
  <2>1. C \in DOMAIN mem /\ (at \in failed \/ LastShows(C))
    <3>1. Shape /\ Verified /\ cmd.name \in Showers /\ cmd.name \in Proved
      BY <1>5 DEF IInv, Showers, Proved
    <3>2. at = Size(cmd) /\ at \in Nat
      BY <1>5, <3>1 DEF Shape
    <3>3. at + 1 >= Size(cmd)
      BY <3>2
    <3>4. QED
      BY <1>5, <3>1, <3>3 DEF Verified
  <2> HIDE DEF C
  <2>2. LastShows(C) => shown[Len(shown)] = <<C, mem[C]>>
    BY <2>1 DEF LastShows, Value
  <2>3. QED
    BY <2>1, <2>2
<1>6. IInv => Complete
  BY <1>1, <1>2, <1>3, <1>4, <1>5, SlavesListed DEF Complete
<1>7. QED
  BY <1>6, Invariance, PTL
=============================================================================
