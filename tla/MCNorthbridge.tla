--------------------------- MODULE MCNorthbridge ---------------------------
(* Instances of Northbridge for TLC: machines as their firmware sets them   *)
(* up, with ranks of 1 GB.                                                  *)
EXTENDS Northbridge, TLC

GB(n) == {30 + b : b \in {k \in 0 .. 5 : (n \div 2 ^ k) % 2 = 1}}
Top(n) == GB(n - 1) \cup Bits(30)             \* the last byte below n GB
From(n, m) == <<GB(n), Top(m)>>

Nothing == [r \in {} |-> {}]

(* Range r is [from, to) GB on a node, interleaved by the bits in en.       *)
RangeRegs(r, from, to, en, sel, n) ==
  <<24, 1, \h40 + 8 * r>> :> ({0, 1} \cup Shl(en, 8, 32) \cup Shr(GB(from), 8))
  @@ <<24, 1, \h44 + 8 * r>> :>
       ({b \in 0 .. 2 : (n \div 2 ^ b) % 2 = 1} \cup Shl(sel, 8, 32)
        \cup Shr(Top(to) \cap (24 .. 39), 8))

(* n ranks of a channel, one above the other.                               *)
Ranks(dev, ch, n) ==
  [r \in {<<dev, 2, \h40 + ch * \h100 + 4 * c>> : c \in 0 .. n - 1} |->
     {0} \cup Shr(GB(((r[3] % \h100) - \h40) \div 4), 8)]
  @@ [r \in {<<dev, 2, \h60 + ch * \h100 + 4 * k>> : k \in 0 .. 3} |->
        (5 .. 13) \cup (19 .. 21)]

(* The same with a controller that has none disabled, and the way the       *)
(* channels are selected.                                                   *)
NodeRegs(dev, n0, n1, select, offset) ==
  Ranks(dev, 0, n0) @@ Ranks(dev, 1, n1)
  @@ <<dev, 2, \h110>> :> select @@ <<dev, 2, \h114>> :> Shr(offset, 16)
  @@ <<dev, 2, \h94>> :> {8, 0, 2} @@ <<dev, 2, \h194>> :> IF n1 = 0 THEN {14} ELSE {8}

Machine(n, regs, dram) ==
  [devices |-> 24 .. 23 + n, regs |-> regs, dram |-> dram, hole |-> {},
   low |-> {}, high |-> {}, base |-> {}]

HoleRegs(dev, offset) == <<dev, 1, \hF0>> :> ({0} \cup Shr(offset, 16))
Holed(m) == [m EXCEPT !.hole = {From(3, 4)}]

One(to)     == RangeRegs(0, 0, to, {}, {}, 0)
Gang        == {4}
Bit6        == {2}
Bit12       == {2, 6}
Hash6       == {2, 7}
Hash9       == {2, 6, 7}
High(g)     == {0, 1} \cup Shr(GB(g), 16)     \* channel 1 from g GB on

Single ==
  {Machine(1, One(4) @@ NodeRegs(24, 2, 2, s, {}), {From(0, 4)}) :
     s \in {Bit6, Bit12, Hash6, Hash9}}
  \cup {Machine(1, One(2) @@ NodeRegs(24, 2, 0, {}, {}), {From(0, 2)})}

Hoisted ==
  {Holed(Machine(1, One(5) @@ NodeRegs(24, n, 4 - n, s, {}) @@ HoleRegs(24, GB(1)),
                 {From(0, 3), From(4, 5)})) :
     <<n, s>> \in {<<4, Gang>>, <<2, Bit6>>, <<2, Hash9>>}}
  \cup {Holed(Machine(1, One(5) @@ NodeRegs(24, 2, 2, High(2), GB(2))
                         @@ HoleRegs(24, GB(3)), {From(0, 3), From(4, 5)})),
        Holed(Machine(1, One(7) @@ NodeRegs(24, 4, 2, High(5), GB(5))
                         @@ HoleRegs(24, GB(1)), {From(0, 3), From(4, 7)}))}

(* Unequal channels: the low part interleaved or on channel 0.              *)
Unequal ==
  {Machine(1, One(6) @@ NodeRegs(24, 2, 4, High(2), GB(2)), {From(0, 6)}),
   Machine(1, One(4) @@ NodeRegs(24, 1, 3, High(2) \cup Bit6, GB(1)), {From(0, 4)}),
   Machine(1, One(4) @@ NodeRegs(24, 1, 3, High(2) \cup Hash9, GB(1)), {From(0, 4)})}

InterleavedNodes(n, en, s) ==
  LET RECURSIVE ranges(_)
      ranges(k) == IF k = n THEN Nothing
                   ELSE RangeRegs(k, 0, 4 * n, en,
                                  {b \in 0 .. 2 : (k \div 2 ^ b) % 2 = 1}, k)
                        @@ NodeRegs(24 + k, 2, 2, s, {}) @@ ranges(k + 1)
  IN  Machine(n, ranges(0), {From(0, 4 * n)})

Several ==
  {InterleavedNodes(2, {0}, s) : s \in {Bit6, Bit12}}
  \cup {InterleavedNodes(4, {0, 1}, Bit12), InterleavedNodes(8, {0, 1, 2}, Bit12),
        InterleavedNodes(4, {0, 1}, Hash9)}
  \cup {Machine(2, RangeRegs(0, 0, 4, {}, {}, 0) @@ RangeRegs(1, 4, 8, {}, {}, 1)
                   @@ NodeRegs(24, 2, 2, Bit6, {}) @@ NodeRegs(25, 2, 2, Hash6, {}),
                {From(0, 8)}),
        Holed(Machine(2, RangeRegs(0, 0, 5, {}, {}, 0) @@ RangeRegs(1, 5, 9, {}, {}, 1)
                   @@ NodeRegs(24, 2, 2, Bit6, {}) @@ HoleRegs(24, GB(1))
                   @@ NodeRegs(25, 2, 2, Bit6, {}),
                {From(0, 3), From(4, 9)}))}

(* The lowest GB exchanged with the one at g GB.                            *)
SwapRegs(dev, g) ==
  <<dev, 2, \h10C>> :> ({0} \cup Shr(GB(g), 24) \cup Shr(Top(g + 1) \cap (27 .. 33), 16)
                        \cup Shr(GB(1), 7))
Exchange(m, g) ==
  [m EXCEPT !.regs = SwapRegs(24, g) @@ @,
            !.low = {From(0, 1)}, !.high = {From(g, g + 1)}, !.base = GB(g)]

Plain2 == Machine(1, One(4) @@ NodeRegs(24, 2, 2, High(2), GB(2)), {From(0, 4)})
Plain4 == Machine(1, One(8) @@ NodeRegs(24, 4, 4, High(4), GB(4)), {From(0, 8)})

Turns  == InterleavedNodes(2, {0}, Bit6)

Exchanges ==
  {<<Exchange(Plain2, 2), Plain2>>, <<Exchange(Plain4, 4), Plain4>>,
   <<[Exchange(Turns, 2) EXCEPT !.regs = SwapRegs(25, 2) @@ @], Turns>>}

(* With the lowest rank of channel 1 disabled, below a second node.         *)
Partial ==
  LET m == Machine(2, RangeRegs(0, 0, 4, {}, {}, 0) @@ RangeRegs(1, 4, 8, {}, {}, 1)
                      @@ <<24, 2, \h140>> :> {}
                      @@ NodeRegs(24, 2, 2, High(2), GB(2)) @@ NodeRegs(25, 2, 2, Bit6, {}),
                   {From(1, 8)})
  IN  {Exchange(m, 2)}

(* The two ranks of a channel interleaved by bit 13; rank 1 of each channel *)
(* taken over by the spare; no such northbridge.                            *)
Others ==
  {Machine(1, <<24, 2, \h40>> :> {0} @@ <<24, 2, \h44>> :> {0, 5}
              @@ <<24, 2, \h60>> :> ((6 .. 13) \cup (19 .. 22))
              @@ One(2) @@ NodeRegs(24, 2, 0, {}, {}), {From(0, 2)}),
   Machine(1, <<24, 3, \hB0>> :> {1, 3, 4, 8} @@ One(4) @@ NodeRegs(24, 2, 2, Bit6, {}),
           {From(0, 4)}),
   Machine(0, Nothing, {}),
   Machine(1, RangeRegs(0, 0, 4, {}, {}, 1) @@ NodeRegs(24, 2, 2, Bit6, {}), {})}

Decoded ==
  Single \cup Hoisted \cup Unequal \cup Several \cup Partial \cup Others
  \cup UNION {{x[1], x[2]} : x \in Exchanges}

(* ECC enabled, with every scrub rate there is and some that there are not. *)
Scrubbed ==
  {Machine(1, <<24, 3, \h44>> :> {22} @@ <<24, 3, \h58>> :> {b \in 0 .. 7 : (r \div 2 ^ b) % 2 = 1}
              @@ NodeRegs(24, 2, 2, Bit6, {}), {}) : r \in (0 .. 24) \cup {255}}

AllMachines == Decoded \cup Scrubbed

-----------------------------------------------------------------------------
Telling == {6, 9, 12, 13, 14, 15, 16, 19, 23, 27, 29, 30, 31, 32, 33}

Differences == {{b, c} : b, c \in Telling} \cup {{31, 32, b} : b \in Telling}

Firsts == {{}, {6, 13, 29}, {30, 31, 12}, {32, 16, 9}, 6 .. 29, (6 .. 29) \cup {31}}

(* The end of what 48 bits can address, where a range seems to be when      *)
(* every register has all bits set.                                         *)
Ends == {(24 .. 47) \cup {12, 13, 14}, Bits(48), (24 .. 47) \cup (12 .. 14) \cup {23}}

Questions ==
  [m \in AllMachines |->
     IF m \in Scrubbed THEN {}
     ELSE (Ends \X {{}})
          \cup {<<a, Xor(a, d)>> : a \in Firsts, d \in Differences \cup {{}}}]
=============================================================================
