-------------------------- MODULE MCRegisterTools --------------------------
(***************************************************************************)
(* Instances of IndexedIO and DirectIO for TLC, in one run: the registers  *)
(* of the two families are different ones, so a behaviour has tools of     *)
(* one of them only.                                                       *)
(***************************************************************************)
EXTENDS MCIndexedIO, DirectIO

(* The slaves that answer: 0, the hardware monitor, the processor's id,    *)
(* the second monitor, its 0x9c, two memory modules of three, the clock.   *)
Answering == {0, \h5A, \h62, \h92, \h9C, \hA0, \hA2, \hD2}

(* Registers that are 0, and such as are 255; otherwise the neighbours and *)
(* the same register of another slave hold something else.                 *)
Bytes(c) ==
  CASE c[3] % 16 = 5 \/ c[2] = \h9C -> 0
    [] c[3] % 16 = 9 -> 255
    [] OTHER -> ((7 * c[2] + 3 * c[3]) % 253) + 1

(* Commands with no argument, with one, with two and with three; numbers   *)
(* a byte, a port and an offset have room for, and such as they have not.  *)
Edges(n) == {0, n - 1, n, n + 3}

CommandLines ==
  [name : {"getreg_spd", "getreg_0x9c", "getreg_pll", "dump_pll", "smb_test",
           "smb_test2", "smb_slave_test", "hpet"}, a : {0}, b : {0}, c : {0}]
  \cup [name : {"getreg", "getreg_b1"}, a : {\h27, 300}, b : {0}, c : {0}]
  \cup [name : {"setreg", "setreg_b1"}, a : {\h27, \h5A, 300}, b : {17, 511}, c : {0}]
  \cup [name : {"pwm1_test"}, a : {3, 300}, b : {0}, c : {0}]
  \cup [name : {"spd_dump", "smb_dump_slave"},
        a : {0, \hA1, \hA2, 256 + \h62}, b : {0}, c : {0}]
  \cup [name : {"getio", "getio_w", "getio_l"}, a : {\h80, 65536 + \h80}, b : {0}, c : {0}]
  \cup [name : {"setio", "setio_l"}, a : {\h80, 65536 + \h80}, b : {17, 511}, c : {0}]
  \cup [name : {"gpio_r", "gpio_w"},
        a : {0, 6, GpioSize - 4, GpioSize - 2, GpioSize, UInt, UInt + 4, ULong - 8}
            \cup {ULong - k : k \in 1 .. 4},
        b : {9, UInt - 1, UInt}, c : {0}]
  \cup [name : {"sio_r", "sio_w"}, a : {3, 255, 256}, b : {4, 255, 256}, c : {5, 255, 256}]

(* What setreg, setreg_b1 and pwm1_test overwrite, and a byte of an image. *)
SetMeanwhile == {Smb(\h5A, \h27), Smb(\h92, \h27), pwm1, Smb(\hA2, 3)}

ACommand == [name |-> "hpet", a |-> 0, b |-> 0, c |-> 0]
ATool    == [name |-> "getcmos", reg |-> 3, val |-> 0]

RtInit ==
  \/ cmd = ACommand /\ DirectInit /\ Init
  \/ tool = [p \in Run |-> ATool] /\ Init /\ DirectInit

RtNext ==
  \/ Next /\ phase = "idle" /\ UNCHANGED directVars
  \/ DirectNext /\ (\A p \in Run : st[p] = "idle") /\ UNCHANGED vars

RtSpec == RtInit /\ [][RtNext]_<<vars, directVars>>
=============================================================================
