------------------------------ MODULE DirectIO ------------------------------
(***************************************************************************)
(* The small tools that name the register they are for in each access:     *)
(* over SMBus getreg.c, getreg_b1.c, getreg_spd.c, getreg_0x9c.c,          *)
(* getreg_pll.c, setreg.c, setreg_b1.c, pwm1_test.c, spd_dump.c,           *)
(* dump_pll.c, smb_dump_slave.c, smb_test.c, smb_test2.c and               *)
(* smb_slave_test.c; on an I/O port getio.c, getio_w.c, getio_l.c, setio.c *)
(* and setio_l.c; in a mapped page amd_gpio_tool.c and hpet.c; through the *)
(* superio driver sio_tool.c.                                              *)
(*                                                                         *)
(* Each of them is a script of accesses; a step is one of these, the wait  *)
(* for a key, or something else that sets a register meanwhile.  A cell is *)
(* a register: what it is reached through, the slave or logical device,    *)
(* and the number.  Slaves are the 8-bit addresses of the sources.         *)
(***************************************************************************)
EXTENDS Integers, Sequences, FiniteSets

CONSTANTS
  Commands,    \* the command lines; the numbers are what strtoul returns
  Holds(_),    \* what a cell holds at first
  Present,     \* the slaves that answer
  Watched,     \* the cells that others may set
  MaxFaults,   \* accesses that fail although the slave is there
  MaxChanges,  \* times that others set a cell
  RegCount,    \* registers of a slave, 256
  ImageSize,   \* bytes of an SPD image, 128
  SpdRows,     \* bytes of it that getreg_spd.c prints, 32
  PingRounds,  \* turns of the loop of smb_slave_test.c, 10000
  GpioSize,    \* gpio_size, 0x300
  UInt,        \* 2^32
  ULong        \* 2^64

UChar == 256
UShort == 65536

ASSUME CommandsAssumption ==
  Commands \subseteq LET Long == 0 .. ULong - 1
                     IN  [name : STRING, a : Long, b : Long, c : Long]
ASSUME HoldsAssumption ==
  \A slave, reg \in 0 .. UChar - 1 : Holds(<<"smb", slave, reg>>) \in 0 .. UChar - 1
ASSUME SizesAssumption ==
  /\ RegCount \in 1 .. UChar
  /\ ImageSize \in 1 .. RegCount /\ SpdRows \in 1 .. RegCount
  /\ {MaxFaults, MaxChanges, PingRounds, GpioSize} \subseteq Nat
ASSUME WidthsAssumption ==
  /\ UInt \in Nat /\ UInt % UShort = 0 /\ UInt > GpioSize
  /\ ULong \in Nat /\ ULong % UInt = 0 /\ ULong > UInt

VARIABLES
  cmd,        \* the command line
  phase,      \* "idle", "running", "done", "exited", "refused", "killed"
  at,         \* accesses made
  mem,        \* the cells that do not hold what they held at first
  shown,      \* the lines printed: a cell as it is named, and a number
  failed,     \* history: the accesses that have failed
  changed,    \* history: the cells that others have set
  touched     \* history: the cells that the tool has read or written

directVars == <<cmd, phase, at, mem, shown, failed, changed, touched>>

Value(m, c) == IF c \in DOMAIN m THEN m[c] ELSE Holds(c)

With(m, c, v) == [d \in DOMAIN m \cup {c} |-> IF d = c THEN v ELSE m[d]]

-----------------------------------------------------------------------------
(* The scripts.  The driver takes a slave, a register and a byte of 8      *)
(* bits, an in or out instruction a port of 16.                            *)

Smb(slave, reg) == <<"smb", slave % UChar, reg % UChar>>
Port(port)      == <<"port", 0, port % UShort>>
Gpio(x)         == <<"gpio", 0, x % UInt>>

Read(c)           == [op |-> "read", cells |-> <<c>>, vals |-> << >>]
Write(c, v)       == [op |-> "write", cells |-> <<c>>, vals |-> <<v>>]
Bread(slave, n)   == [op |-> "read", cells |-> [k \in 1 .. n |-> Smb(slave, k - 1)],
                      vals |-> << >>]
Bwrite(slave, data) ==
  [op |-> "write", cells |-> [k \in DOMAIN data |-> Smb(slave, k - 1)], vals |-> data]
GetChar           == [op |-> "key", cells |-> << >>, vals |-> << >>]

Registers(slave, n) == [k \in 1 .. n |-> Read(Smb(slave, k - 1))]

getreg(c)    == <<Read(Smb(\h5A, c.a))>>
getreg_b1(c) == <<Read(Smb(\h92, c.a))>>
getreg_spd   == Registers(\hA0, SpdRows) \o Registers(\hA2, SpdRows) \o Registers(\hA4, SpdRows)
getreg_0x9c  == <<Read(Smb(\h9C, 0))>>
getreg_pll   == <<Bwrite(\hD2, <<255, 255, 192, 104, 69, 239, 35>>)>>
dump_pll     == <<Bread(\hD2, 32)>>

(* Fault: the slave of the original is left in one place of the copy.      *)
setreg_b1_copied(c) ==
  <<Read(Smb(\h5A, c.a)), GetChar, Write(Smb(\h92, c.a), c.b % UChar)>>

setreg(c) ==
  <<Read(Smb(\h5A, c.a)), GetChar, Write(Smb(\h5A, c.a), c.b % UChar)>>
setreg_b1(c) ==
  <<Read(Smb(\h92, c.a)), GetChar, Write(Smb(\h92, c.a), c.b % UChar)>>

pwm1 == Smb(\h5A, \h5A)

pwm1_test(c) == <<Read(pwm1), Write(pwm1, c.a % UChar), Read(pwm1)>>

spd_dump(c)       == Registers(c.a, ImageSize)
smb_dump_slave(c) == Registers(c.a, RegCount)
smb_test2         == Registers(\h62, RegCount)

(* Register 0 of every slave below 0x7f, but for the PLL IC, 0x69.         *)
smb_test == [k \in 1 .. 126 |-> Read(Smb(2 * (IF k <= \h69 THEN k - 1 ELSE k), 0))]

smb_slave_test ==
  [k \in 1 .. 3 * PingRounds |->
     CASE k % 3 = 1 -> Read(Smb(\h5A, \h27))
       [] k % 3 = 2 -> Read(Smb(\h92, 0))
       [] k % 3 = 0 -> Read(Smb(\h5A, \h2A))]

getio(c)   == <<Read(Port(c.a))>>
getio_w(c) == <<Read(Port(c.a))>>
getio_l(c) == <<Read(Port(c.a))>>
setio(c)   == <<Write(Port(c.a), c.b % UChar), Read(Port(c.a))>>
setio_l(c) == <<Write(Port(c.a), c.b % UInt), Read(Port(c.a))>>
hpet       == <<Write(<<"hpet", 0, \h20>>, 255)>>
gpio_r(c)  == <<Read(Gpio(c.a))>>
gpio_w(c)  == <<Write(Gpio(c.a), c.b)>>
sio_r(c)   == <<Read(<<"sio", c.a, c.b>>)>>
sio_w(c)   == <<Write(<<"sio", c.a, c.b>>, c.c)>>

Script(c) ==
  CASE c.name = "getreg"         -> getreg(c)
    [] c.name = "getreg_b1"      -> getreg_b1(c)
    [] c.name = "getreg_spd"     -> getreg_spd
    [] c.name = "getreg_0x9c"    -> getreg_0x9c
    [] c.name = "getreg_pll"     -> getreg_pll
    [] c.name = "dump_pll"       -> dump_pll
    [] c.name = "setreg"         -> setreg(c)
    [] c.name = "setreg_b1"      -> setreg_b1(c)
    [] c.name = "pwm1_test"      -> pwm1_test(c)
    [] c.name = "spd_dump"       -> spd_dump(c)
    [] c.name = "smb_dump_slave" -> smb_dump_slave(c)
    [] c.name = "smb_test"       -> smb_test
    [] c.name = "smb_test2"      -> smb_test2
    [] c.name = "smb_slave_test" -> smb_slave_test
    [] c.name = "getio"          -> getio(c)
    [] c.name = "getio_w"        -> getio_w(c)
    [] c.name = "getio_l"        -> getio_l(c)
    [] c.name = "setio"          -> setio(c)
    [] c.name = "setio_l"        -> setio_l(c)
    [] c.name = "hpet"           -> hpet
    [] c.name = "gpio_r"         -> gpio_r(c)
    [] c.name = "gpio_w"         -> gpio_w(c)
    [] c.name = "sio_r"          -> sio_r(c)
    [] c.name = "sio_w"          -> sio_w(c)

(* Fault: the offset is checked, but not the end of the access.            *)
GpioRefusesStart(c) ==
  \/ c.a > GpioSize
  \/ (c.a % UInt) % 4 # 0
  \/ c.name = "gpio_w" /\ c.b >= UInt

(* x + 4 > gpio_size in an unsigned long; then the offset in an int.       *)
GpioRefuses(c) ==
  \/ (c.a + 4) % ULong > GpioSize
  \/ (c.a % UInt) % 4 # 0
  \/ c.name = "gpio_w" /\ c.b >= UInt

SioRefuses(c) == c.a >= UChar \/ c.b >= UChar \/ (c.name = "sio_w" /\ c.c >= UChar)

ArgumentRefused(c) ==
  \/ c.name \in {"gpio_r", "gpio_w"} /\ GpioRefuses(c)
  \/ c.name \in {"sio_r", "sio_w"} /\ SioRefuses(c)

(* The tools that end when a read fails; the others go on with -1.         *)
ExitsOnRead ==
  {"getreg", "getreg_spd", "getreg_0x9c", "dump_pll", "smb_slave_test", "sio_r"}

(* Fault: a byte that could not be read is left out.                       *)
PrintsReadable(name, v) ==
  CASE name \in {"smb_dump_slave", "smb_test2"} -> 0 < v /\ v < 255
    [] name \in {"smb_test", "spd_dump"} -> v >= 0
    [] name = "smb_slave_test" -> FALSE
    [] OTHER -> TRUE

(* READ_N_PRINT of each tool: which results make a line,                   *)
Prints(name, v) ==
  CASE name \in {"smb_dump_slave", "smb_test2"} -> 0 < v /\ v < 255
    [] name = "smb_test" -> v >= 0
    [] name = "smb_slave_test" -> FALSE
    [] OTHER -> TRUE

(* and as what: "%c" makes 255 of -1.                                      *)
Printed(name, v) == IF name = "spd_dump" THEN v % UChar ELSE v

Lines(name, cells, vals) ==
  IF \E k \in DOMAIN cells : ~Prints(name, vals[k]) THEN << >>
  ELSE [k \in DOMAIN cells |-> <<cells[k], Printed(name, vals[k])>>]

-----------------------------------------------------------------------------
DirectInit ==
  /\ cmd \in Commands
  /\ phase = "idle" /\ at = 0
  /\ mem = [c \in {} |-> 0]
  /\ shown = << >> /\ failed = {} /\ changed = {} /\ touched = {}

(* The arguments, and the device, which may not open.                      *)
Launch ==
  /\ phase = "idle"
  /\ \/ ~ArgumentRefused(cmd) /\ phase' = "running"
     \/ phase' = "refused"
  /\ UNCHANGED <<cmd, at, mem, shown, failed, changed, touched>>

Access1 == Script(cmd)[at + 1]

Advance ==
  /\ at' = at + 1
  /\ phase' = IF at' = Len(Script(cmd)) THEN "done" ELSE phase

Answers(c) == c[1] = "smb" => c[2] \in Present

Key ==
  /\ phase = "running" /\ Access1.op = "key"
  /\ Advance
  /\ UNCHANGED <<cmd, mem, shown, failed, changed, touched>>

Written(cells, vals) ==
  [c \in DOMAIN mem \cup {cells[k] : k \in DOMAIN cells} |->
     IF \E k \in DOMAIN cells : cells[k] = c
     THEN vals[CHOOSE k \in DOMAIN cells : cells[k] = c] ELSE mem[c]]

Touch == touched' = touched \cup {Access1.cells[k] : k \in DOMAIN Access1.cells}

Transfer ==
  /\ phase = "running" /\ Access1.op # "key"
  /\ \A k \in DOMAIN Access1.cells : Answers(Access1.cells[k])
  /\ \/ /\ Access1.op = "read"
        /\ shown' = shown \o Lines(cmd.name, Access1.cells,
                                   [k \in DOMAIN Access1.cells |-> Value(mem, Access1.cells[k])])
        /\ UNCHANGED mem
     \/ /\ Access1.op = "write"
        /\ mem' = Written(Access1.cells, Access1.vals)
        /\ UNCHANGED shown
  /\ Advance /\ Touch
  /\ UNCHANGED <<cmd, failed, changed>>

(* An ioctl fails: the slave is not there, or this time.  A write that     *)
(* fails ends the tool, but may have reached the register, a block some of *)
(* its registers.                                                          *)
TransferFails ==
  /\ phase = "running" /\ Access1.op # "key"
  /\ Access1.cells[1][1] \in {"smb", "sio"}
  /\ \/ ~Answers(Access1.cells[1])
     \/ Cardinality({k \in failed : Answers(Script(cmd)[k].cells[1])}) < MaxFaults
  /\ failed' = failed \cup {at + 1}
  /\ IF Access1.op = "write" \/ cmd.name \in ExitsOnRead
     THEN /\ phase' = "exited"
          /\ \/ UNCHANGED mem
             \/ /\ Answers(Access1.cells[1])
                /\ \E n \in DOMAIN Access1.vals :
                     mem' = Written(SubSeq(Access1.cells, 1, n), Access1.vals)
          /\ UNCHANGED <<at, shown>>
     ELSE /\ Advance
          /\ shown' = shown \o Lines(cmd.name, Access1.cells, <<-1>>)
          /\ UNCHANGED mem
  /\ Touch
  /\ UNCHANGED <<cmd, changed>>

(* Another tool, or the chip itself, sets a register meanwhile: one of     *)
(* those that this tool is for.                                            *)
Reached(c) ==
  UNION {{a.cells[k] : k \in DOMAIN a.cells} : a \in {Script(c)[k] : k \in DOMAIN Script(c)}}

Change ==
  /\ phase = "running" /\ Cardinality(changed) < MaxChanges
  /\ \E c \in (Watched \cap Reached(cmd)) \ changed :
       /\ mem' = With(mem, c, (Value(mem, c) + 1) % UChar)
       /\ changed' = changed \cup {c}
  /\ UNCHANGED <<cmd, phase, at, shown, failed, touched>>

DirectKill ==
  /\ phase = "running"
  /\ phase' = "killed"
  /\ UNCHANGED <<cmd, at, mem, shown, failed, changed, touched>>

DirectNext == Launch \/ Key \/ Transfer \/ TransferFails \/ Change \/ DirectKill

DirectSpec == DirectInit /\ [][DirectNext]_directVars

-----------------------------------------------------------------------------
(* What a tool that comes to its end has printed of registers that nobody  *)
(* else has set: an SPD image has a byte for every address, in order, the  *)
(* failed ones 255; a dump lists every register but those that are 0, 255  *)
(* or failed; the probe lists every slave that answered, but for the PLL,  *)
(* which it does not disturb; a verification shows what has been set.      *)
Image(slave, size) ==
  /\ Len(shown) = size
  /\ \A k \in 1 .. size :
       shown[k] = <<Smb(slave, k - 1),
                    IF k \in failed THEN 255 ELSE Holds(Smb(slave, k - 1))>>

AllOf(slave) ==
  {<<c, Holds(c)>> : c \in {Smb(slave, r) : r \in {s \in 0 .. RegCount - 1 :
                              s + 1 \notin failed /\ Holds(Smb(slave, s)) \notin {0, 255}}}}

AllSlaves ==
  {<<c, Holds(c)>> : c \in {Smb(2 * s, 0) : s \in
     {t \in (0 .. 126) \ {\h69} : 2 * t \in Present}} \ {Script(cmd)[k].cells[1] : k \in failed}}

Listed == {shown[k] : k \in DOMAIN shown}

Complete ==
  phase = "done" /\ changed = {} =>
    /\ cmd.name = "spd_dump" => Image(cmd.a, ImageSize)
    /\ cmd.name = "smb_dump_slave" => Listed = AllOf(cmd.a)
    /\ cmd.name = "smb_test2" => Listed = AllOf(\h62)
    /\ cmd.name = "smb_test" => Listed = AllSlaves
    /\ cmd.name = "getreg_spd" =>
         /\ Len(shown) = 3 * SpdRows
         /\ \A i \in 0 .. 2, r \in 0 .. SpdRows - 1 :
              LET c == Smb(\hA0 + 2 * i, r)
              IN  shown[i * SpdRows + r + 1] = <<c, Holds(c)>>
    /\ cmd.name \in {"pwm1_test", "setio", "setio_l"} =>
         \E c \in DOMAIN mem :
           at \in failed \/ shown[Len(shown)] = <<c, mem[c]>>

(* setreg and pwm1_test print the value they are about to overwrite, and   *)
(* setreg waits for a key: what they then overwrite is what they printed,  *)
(* unless somebody else set the register meanwhile or the read had failed. *)
ConfirmedStill ==
  [][cmd.name \in {"setreg", "setreg_b1", "pwm1_test"} /\ changed' = changed =>
       \A c \in DOMAIN mem' :
         \/ Value(mem', c) = Value(mem, c)
         \/ c \in changed \/ 1 \in failed
         \/ shown # << >> /\ shown[Len(shown)] = <<c, Value(mem, c)>>]_directVars

(* amd_gpio_tool and sio_tool reach the very register of their command     *)
(* line, inside the page and aligned, and set it to the very value; what   *)
(* does not fit is refused, all but the offset that is 4 below 2^64.       *)
Wraps(c) == c.a = ULong - 4

ExactOrRefused ==
  cmd.name \in {"gpio_r", "gpio_w", "sio_r", "sio_w"} => \A c \in touched :
    /\ c[1] = "gpio" /\ ~Wraps(cmd) =>
         /\ c[3] = cmd.a /\ c[3] + 4 <= GpioSize /\ c[3] % 4 = 0
         /\ cmd.name = "gpio_w" => Value(mem, c) = cmd.b
    /\ c[1] = "sio" =>
         /\ c = <<"sio", cmd.a, cmd.b>>
         /\ cmd.name = "sio_w" /\ phase = "done" => Value(mem, c) = cmd.c
=============================================================================
