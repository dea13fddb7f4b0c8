# Verification of iohacks

iohacks is a collection of small C programs for FreeBSD that talk to hardware
from user space: through port I/O (`/dev/io`), mapped registers (`/dev/mem`),
the SMBus (`/dev/smb0`), I2C (`/dev/iic0`) and PCI configuration space. There
are no threads and no library; each file is a program of its own. What makes
the programs hard to test is that their state is mostly *not theirs*: it is in
a chip, an index register or a bus that stays as it is between two
invocations, that another invocation may use at the same time, and that a
failed ioctl or a signal leaves half way.

This directory holds TLA+ models of the programs that keep such state, runs of
the model checker TLC on small instances, and proofs checked by TLAPS.

## Inventory

| Component | Files | State and operations | What is hard | What makes it correct |
|---|---|---|---|---|
| Sensor query, bus exchange | `htu21-query.c`, `htu21-query.low-level.c` | START/WRITE/STOP/START/READ/STOP ioctls or I2CRDWR transfers for two values; the buffer `data[3]`, `error`, `retval`; the bus and the sensor's one pending answer | any ioctl fails, retry, fallback on ENODEV, polling without end, killed between command and answer, another invocation in between | prints only its own fresh answers, gives the bus back, exit status, termination |
| Sensor query, checksum | same | the 16-bit register of `calc_crc` | off-by-one in shifts, right for some words only | accepts every intact answer, rejects noise |
| Sensor query, output | same | `raw`, `value`, the two numbers of the printf | zero answer, negative fixed point | the printed number is the sensor's formula |
| Register tuner | `smb_tune_reg.c` | one SMBus register ramped by units; `val`, `oldval`, `inc` | failed read, killed in the ramp, two tuners, loop that ends on equality | no jumps, arrives, ends |
| Fan calibration | `fan_calibrate.c` | pwm registers swept down and up, divisors | exit or signal in the middle of a sweep, boundaries at 0 and 255, bits spread over registers | one fan at most left slowed, each duty sampled twice, ends |
| Super I/O tools | `superio*.c`, `nvt_sio_*.c`, `ite_sio*.c` | key, configuration mode, selected device, selected register | ended inside the key, between index and data, in configuration mode; base address in two bytes | only the wanted registers, right device, never half moved |
| I/O APIC | `ioapic.c`, `ioapic_wr.c` | 64-bit entries as two 32-bit registers behind an index | torn entry, pin range | whole listing, one entry written, destination first |
| Index/data tools | `getcmos*.c`, `getextcmos*.c`, `amdpm2_*.c`, `amdpmio_*.c`, `ithwm*.c`, `amd_intr_map_tool.c` | index and data ports of seven chips | killed between index and data, truncated arguments, listing bounds | the register named, nothing else |
| DRAM address decoder | `amd-addr-decode.c` | `SystemAddr`, the loop over eight DRAM ranges, the channel and its address, the loop over eight chip selects | 32- and 64-bit shifts, an address modified in a loop that goes on, interleave bits taken out that must have been put in, unopened device | memory is found and only memory, no two addresses share a place |
| ECC status | `amd-ecc-info.c` | each register read anew and printed bit by bit | an unopened device reads as all ones, divisions by a shifted period | no report of what was not read, the same ranks as the decoder |
| Argument checks | `amd_gpio_tool.c`, `sio_tool.c` | range and alignment before one access | unsigned wrap-around, truncation after the check | the very register and value, or refused |
| Single-shot SMBus tools | `getreg*.c`, `setreg*.c`, `pwm1_test.c` | one or two transactions | value shown and value overwritten may differ, failed reads | overwrites what it showed |
| SMBus dumps and probes | `spd_dump.c`, `dump_pll.c`, `smb_*test*.c`, `smb_dump_slave.c` | reads and prints | failed reads as -1, which results are printed | complete and in order |
| Raw access | `getio*.c`, `setio*.c`, `hpet.c` | one access, one printf | truncation | reads back what it has set |
| Raw PCI | `getpci.c` | an index and an unaligned read | – | not modelled |

The components do not call one another. They interact through the hardware: two
invocations of the sensor query through the bus and the sensor, two tuners (or
the tuner and the fan calibration, which program the same slave 0x2d) through a
register, two Super I/O or index/data tools through the index register the
first one left behind. The two northbridge programs read the same registers.

## Modules

For each program a step is one access to the hardware (an ioctl, an `outb`, an
`inb`, a word of a mapped page) together with the computation that follows it up
to the next access. Between two steps anything else may happen: another
invocation's step, the sensor's, or the signal that ends the process (`Kill`).

Nothing in the code keeps two invocations apart, so no action of a model does.
Where a property can only be asked of an invocation that nobody disturbs, the
history variable `overlapped` remembers which ones were running at the same time
as another one, and the property names it. History variables (`overlapped`,
`misread`, `before`, `rows`, `run`) are only written by the actions, and read by
the properties.

* `SensorQuery` – abstract specification of the sensor query: each value is
  delivered once, as the sensor's answer to the own request or as a failure
  (or, by a run that shares the sensor, as the answer to somebody else), and the
  exit status says whether both were delivered. Nothing of the bus.
* `HTU21Query` – both query programs. `StartCmd` to `AbortRequest` are the
  ioctls of `request_raw` in the order of the code, with its three error
  paths; `XferHold`, `XferCmd`, `XferPoll` are `transfer_raw`; `CheckTemp` and
  `CheckHum` are `main`. `mode` holds the program and its options, `pc` the next
  ioctl, `error`, `data` and `retval` are the variables of that name. Answers
  are abstracted to whose command they answer and whether the three bytes are
  intact, damaged, or all zero. The controller and the sensor are external.
* `HTU21Crc` – `calc_crc` one turn of the loop at a time, `valid_crc`, the
  sensor's checksum computed independently as a residue of polynomials, and a bus
  that flips bits. Words are sets of bits.
* `HTU21Value` – the statements from the checked bytes to the printf.
* `HTU21Answer` – the composition of the last two: a word on its way from the
  sensor over the bus through `valid_crc` to the printed number.
* `PciConfig` – what the two northbridge programs share: a machine's registers
  and whether `/dev/pci` opens, words of full width as sets of bits, and the
  arithmetic on them (`Less`, `Minus`, shifts that cut).
* `AddrDecode` – `TranslateSysAddrToCS`. `NextRange` and `EnterRange` are the
  turns of its outer loop, with the region swap; `Normalize` computes channel and
  channel address; `FindChipSelect` is the inner loop. The program is run twice
  (`Again`), possibly on the machine set up in another way, because what matters
  is how two answers relate.
* `EccInfo` – `amd-ecc-info.c`; `report` is the set of claims printed.
* `Northbridge` – both of them, one after the other, on one machine.
* `SmbTune` – `smb_tune_reg.c`; the register is shared by all tuners.
* `FanCalibrate` – `fan_calibrate.c`; `rows` counts what was printed at each
  duty the chip really had.
* `SuperIO` – each of seven tools as its sequence `Program(t)` of port accesses,
  run against a chip with a key, a configuration mode and logical devices.
* `IndexedIO` – one operator for each tool giving its sequence of accesses, with
  the truncation to bytes `outb` makes and the checks two of the tools make; the
  I/O APIC tools among them, whose registers are words (`WordBase` for 2^32) and
  whose entries are two of them.
* `DirectIO` – the tools that name their register in each access, one operator
  for each giving its script: SMBus tools and dumps, raw ports, `amd_gpio_tool`,
  `sio_tool`, `hpet`. `TransferFails` is a failed ioctl, which ends some tools and
  gives others a -1 (`ExitsOnRead`); `Change` is somebody else setting the register.
* `MC…` modules give the instances their values; `…Proofs` modules hold theorems.

Operators introduced by a comment "Fault:" are variants of the definition below
them with one plausible mistake. They are not used by any specification; each
property has one that breaks it, which shows that the property can fail.

### What is assumed of the hardware

Code that is not in the repository is modelled from the use made of it.

* I2C controller: `I2CSTART` gives the bus to the caller if nobody else has it,
  `I2CSTOP` releases it unless it fails, `I2CRDWR` needs a free bus and leaves it
  free; any ioctl may fail; a failed write may have reached the sensor, a failed
  read may have filled the buffer. `I2CSTART` is either implemented or always ENODEV.
* HTU21: one measurement at a time, a new command replaces it, a START for
  reading is acknowledged only when the answer is ready, an answer is handed
  over once.
* Its bus: what it flips of the 24 bits is `Typical`, one or two bits, an odd
  number, or a burst of at most eight; the checksum is not made for other errors.
* SMBus slave: a failed write may have been done.
* Super I/O chip: a wrong byte of the key restarts the key, registers from 0x30
  on exist for each device, a locked chip reads 0xff. Whether the ITE chip
  leaves configuration mode for the exit bytes the tools send is not known, and
  both are checked (`Closes`).
* Extended CMOS: the high bit of the index is ignored, which is what one of the
  two tools relies on and the other does not.
* I/O APIC: the low eight bits of the index select a register.
* SMBus slaves and ports in `DirectIO`: a cell holds what was written to it, the
  width of the access apart; a failed block write may have set any first part.
* Northbridge: `Machines` are registers as firmware writes them. The intervals
  `dram`, `hole`, `low`, `high` of a machine say what the firmware meant by them,
  and are read by the properties only.

## Runs

All runs disable the deadlock check because the programs end.

| Run | Shows | Instance |
|---|---|---|
| `HTU21Query` | `TypeOK`, `PrintsOwn`, `Bracketed`, `Released`, `WarnsExactly`, and that `HTU21Query` implements `SensorQuery` | two invocations of either program with any options, at the same time or one after the other, any ioctl failing, each killed anywhere |
| `HTU21Ends` | `HangsOnlyPolling` with nothing assumed of bus and sensor, `Terminates` with a fair sensor | one invocation |
| `HTU21Mixed` | violation of `PrintsRightQuantity` | two invocations, polling |
| `HTU21Answer` | `Congruent` (the loop invariant of `calc_crc`), `PrintsSent`, `PrintsFormula` | every word with the status bit 0 clear undisturbed, both quantities; two words under all errors of up to three bits and all bursts of up to eight |
| `HTU21Negative` | violation of `TwoDecimals` | every 64th word with all status bits |
| `SmbTune` | `TypeOK`, `SettlesOnATarget`, `Gradual`, `Arrives`, `Terminates` | two tuners in any order or at the same time, four register values, targets from -2 to two above the largest |
| `SmbTuneReadFailure` | violation of `NoJump` | one tuner, its first read may fail |
| `FanCalibrate` | `OneFanSlowed`, `Complete`, `DivisorsDocumented`, `Gradual`, `Ends` | three fans, full speed 4, two runs, each divisor bit alone, none and all |
| `SuperIO` | `PrintsRight`, `NeverHalfMoved`, `OnlyWanted`, `Accomplished`, `Relocked` | two invocations for each of the three chips; the ITE chip closes or not |
| `RegisterTools` | `IndexedIO`: `PrintsRight`, `SetsOne`, `NothingTruncated`, `DestinationFirst`; `DirectIO`: `Complete`, `ConfirmedStill`, `ExactOrRefused` | two of 43 index/data command lines, listings up to 40, 24 pins; or one of 174 others, one ioctl failing, one register set by somebody else |
| `Northbridge` | `Unique`, `Mapped`, `SwapExchanges`, `UnopenedNothing`, `TellTale`, `ScrubSpeed`, `AgreesWithReport` | 56 machines, two addresses that differ in one to three telling bits |
| `IoApicPin` | violation of `OnlyTheTable` | pins from -8 to 24 |

### Bounds, and why they are enough

* Two invocations: an invocation sees only the chip or bus state another left
  or changes, and that state has no memory of how many there were.
* `SuperIO` and `RegisterTools` stop a behaviour where two tools meet at one chip
  (the constraint `Undisturbed`): nothing is claimed of tools that overlap, and
  with two invocations there is no later one. Tools for different chips do run
  at the same time in `RegisterTools`.
* `RegisterTools` has tools of `IndexedIO` or of `DirectIO` in a behaviour, not of
  both: their registers are different ones. Slaves have 64 registers in place
  of 256, images 40 bytes in place of 128 and rows of 8 in place of 32, which is
  beyond the places (5, 9, 21, 25, ...) where registers hold 0 and 255;
  `PingRounds` is 4 in place of 10000, `UInt` 2^20 and `ULong` 2^28 in place of 2^32
  and 2^64: the checks only compare with them and wrap around at them.
  `MaxFaults` and `MaxChanges` are 1 (slaves that are not there fail each time).
* Machines of `Northbridge` have one, two, four or eight nodes, ranks of 1 GB,
  each way of selecting a channel (ganged, by bit 6, by the bit above the node
  bits, by the two hashes, by a high range, and the high range with each below it),
  a hole below 4 GB with and without a high range above it, regions exchanged at
  2 GB and at 4 GB, on one node and on two that are interleaved, a disabled rank,
  interleaved ranks, spare ranks, and every scrub rate up to 24. `Telling` has the
  bits that select node, channel, rank or range and their neighbours, the parity
  bits 16 to 20 by two of them; other bits are carried through unchanged. Words are not shortened.
* Register width 4 in place of 256 in `SmbTune` and `FanCalibrate`: the loops
  have no constants but the two ends; the runs include both, and targets beyond
  the ends. For `SmbTune` the proofs cover every width. The listings of the CMOS
  end at 40 in place of 128 (`list_end`), which is beyond both their beginnings.
* `Full` is a duty, `RowsBound = 3` stops the count of rows one above the two
  that are right. `Runs = 2` is a run that was cut short and a run after it.
* `ULong` is 2^20 in place of 2^64, because TLC's numbers have 32 bits; the
  property only needs it to be larger than any fraction. The proof has it
  arbitrary above 1000. The product of raw and scale in `HTU21Value` stays below 2^31.
* The words of the I/O APIC are less than 256 (`WordBase`) in place of 2^32: they
  are only taken apart and compared.
* CRC: both error classes are linear in the word, so two words stand for all under
  noise; intact words are all checked.
* Symmetry is used on invocations only, and not in the liveness runs.

### Fairness

`FairSpec` of `HTU21Query` only assumes that a process that can run is scheduled.
Under it `HangsOnlyPolling` holds: a program that does not end is one that polls
without `-H`. The two polling loops have no limit, so `Terminates` has the
environment they need as its hypothesis, `SensorFairness`: the measurement ends,
and an acknowledgement that is due again and again is not lost for ever (strong
fairness on `PollHit`). `HTU21Ends` has one invocation,
which is then alone with the sensor. `SmbTune` and `FanCalibrate` assume only
that the process is scheduled and that sleeps end; that their loops end is not an
assumption. `Kill` is never fair: nobody has to be killed, or to be left alone.

## Findings

1. Two polling invocations at the same time: the humidity of the one is printed
   as the temperature of the other, with the warning "inconsistency: humidity
   status bit is set" and exit status 0 (`HTU21Mixed`).
2. Values below zero are printed as `%ld.%02lu` of two negative numbers:
   -0.50 becomes `0.18446744073709551566` (`HTU21Negative`).
3. `smb_tune_reg` takes the -1 of a failed read for the value to start from and
   the register jumps to 0 (`SmbTuneReadFailure`, `NoJump`).
4. `ioapic_wr` refuses pin numbers that are too large but not negative ones,
   which reach registers outside the table (`IoApicPin`).

What the models also show, and nothing in the repository speaks against:

* The distance of two exchanged regions is cut to 32 bits
  (`amd-addr-decode.c:145`), so regions 4 GB apart are not exchanged and those
  6 GB apart are taken for 2 GB apart; `SwapExchanges` takes the same distance
  (`Partner`), so that it is a claim about the firmware's exchange below 4 GB only.
* The exchanged address goes on to the next ranges when no rank has it
  (`amd-addr-decode.c:261`). With the ranges of one machine disjoint it is in
  none of them, and `Mapped` holds.
* An address in the hole below 4 GB is given a place; `Mapped` and `Unique` leave
  these out.
* A report made without `/dev/pci` says that ECC is enabled; `TellTale` says by
  what one can tell.
* The offset 2^64 - 4 passes the check of `amd_gpio_tool.c:56`, the only one that
  does not fit (`Wraps`).
* `smb_dump_slave` and `spd_dump` warn of an odd slave and use it; both cut it to
  a byte.

Seen while reading, not modelled: `htu21-query.low-level.c` ignores a single
device argument (lines 181-182); `getpci.c` reads at port 0xcfd, which is not
aligned; `hpet.c` does not check `mmap`; the messages of
`amd_intr_map_tool.c:67`, `amd_gpio_tool.c:73` and `sio_tool.c:61,77` name the
first argument when a later one is wrong.

## Proofs

The theorems hold for every value of the constants that satisfies the
assumptions named in the modules, and have no hypotheses of their own.

`HTU21QueryProofs`, for any number of invocations:

* `TypeCorrect`: `Spec => []TypeOK`.
* `BracketedAlways`, `ReleasedAlways`: invocations may run at the same time.
  Neither property is inductive alone: the retry and abort paths must be known
  never to be entered by an invocation in transfer mode, or the bus could be held
  in a `check` that follows `transfer_raw`. The inductive invariant is
  `BusInv == Bracketed /\ OneTransport /\ OneMode /\ Released`, where
  `OneTransport` separates locations of `request_raw` and `transfer_raw` and
  `OneMode` the hold and the polling paths.
* `WarnsExactlyAlways`: inductive as it stands, with the types: `CheckTemp` and
  `CheckHum` are the only steps that print.
* `PrintsOwnAlways`: an invocation that uses `-H`, or that no other one overlaps
  (`Exclusive`), prints only clean answers to its own requests, whatever others
  do before, after, or beside the one that holds the bus. The inductive invariant
  is `OwnInv`: `Alone`, that an active invocation not marked as overlapped is the
  only one, and for each exclusive invocation `OwnOf`: from command to answer the
  sensor works for it, and what is about to be judged without error is its own
  answer. `BusInv` is needed for `-H`, where it is the bracket that keeps the
  others away. Of other invocations the claim is false (finding 1).

* `Implements`: `Spec => ImplementsQuery`, the refinement of `SensorQuery`. The
  invariant `Ledger` says of a running invocation that the temperature is settled
  when it asks for the humidity, which is not, and that `retval` counts the failure. A step maps so: `Begin` to
  `Share` (together with the invocations it overlaps) or, if nothing opens, to
  `Refuse`, `CheckTemp` to `DeliverTemp`, `CheckHum` to `DeliverHum`, `Kill` to
  `Kill`, every ioctl and every step of the sensor to a stutter. That a delivered
  answer is one `SensorQuery` allows is `PrintsOwnAlways`.

`HTU21AnswerProofs`, for every set of words, every width of a long and every set
of errors of the kinds in `Typical`: `CongruentAlways`, `PrintsSentAlways`, and
`FormulaPrinted` with `AnswerFormula` (the printed text of a value that is not
negative is within a hundredth of the sensor's formula).

* A residue is defined by the powers of x, which are a recursive function. It has
  its equation because a table of the 32 powers satisfies it
  (`XPowEquation`), and from then on only the table is used.
* The residue is linear (`ResidueXor`, because the size of a symmetric
  difference has the parity of the two sizes together), and moving a word up by
  one place is the same as moving its residue up (`ResidueUp`), which can be undone
  (`ResidueShift`).
* With these, one turn of `calc_crc` leaves the residue of register and turns
  left alone: the inductive invariant is `AnswerInv`, which adds to `Congruent` the
  types and that the register has 16 bits. After the last turn the upper byte is the
  residue of the data, so `valid_crc` accepts the three bytes if and only if the
  residue of the bits flipped is empty (`AcceptsMultiples`): whether an answer is
  accepted depends on the disturbance alone.
* No typical disturbance has an empty residue (`Noticed`): the generator is a
  multiple of x + 1, so the residue of an odd number of bits is odd (`OddResidue`); the
  powers of x below 24 differ (`PairNoticed`); and a burst moved down to the lowest
  byte is its own residue (`MovedNoticed`). Four bits far apart may go
  unnoticed, as may any other even number of them.

`SmbTuneProofs`, for any number of tuners and any register width: `TypeCorrect`;
`GradualAlways` and `ArrivesAlways` from `RampInv`: a ramping tuner that is not
marked as overlapped is the only one (`Alone`), the register holds the low byte
of what it last read or wrote, or its read failed and it has not written since
(`Holds`), and it is between its start and its target (`Between`, which also
says that it starts from a byte). `SettlesAlways` has an invariant of its own,
`ShownInv`: from the first tuner's beginning there is one whose last access the
register still shows, unless one was killed; whoever accesses becomes that one.

`FanCalibrateProofs`, for any fans, any duty of full speed (255 in the code, 4 in
the run), any divisor registers and any number of runs: `TypeCorrect`,
`OneFanSlowedAlways`, `CompleteAlways`, `GradualAlways` and
`DivisorsDocumentedAlways` (the three shifts and masks are, for every byte, the
bits the comment names, and from then on nothing changes them). That each duty was
sampled exactly twice is not inductive: the invariant `FanInv` says of every
point of a sweep what has been printed so far (`Counted`: two rows of the fans
before, none of those after, and of the current one those the sweep has passed),
that the fan has the duty of the sweep or the one before it (`InStep`), and that
the loops are where the location says (`Order`).

`SuperIOProofs`, for any number of invocations, any set of command lines of the
seven tools, any contents of the chip, and whether or not the chip knows the exit
byte: `TypeAlways`, `PrintsRightAlways`, `OnlyWantedAlways`, `AccomplishedAlways`,
`RelockedAlways`, `NeverHalfMovedAlways`. A program is a key, a sequence of pairs
of accesses (an index and its data) and an exit, so the argument goes pair by
pair. `Progress` says of a tool that is not overlapped where the chip is after
each access, whatever the tool before had left (this is where a key that was begun,
an index that was selected and a mode that was left open matter), that the
registers are those at the start with what the pairs done have stored (`After`),
and that the values read are those of these pairs (`Read`). `Alone` says that
tools which are not marked as overlapped do run alone. The properties are facts
about `After` and `Read` at the last pair of each of the five bodies.
`NeverHalfMoved` needs one more invariant, `WholeInv`, over all tools that were
ever run, because one tool may be ended when a device is half moved, and the next
must not find it enabled.

`IndexedIOProofs`, for any tools and arguments, word size, pins and number of
invocations: `PrintsRightAlways`, `SetsOneAlways`, `NothingTruncatedAlways`,
`DestinationFirstAlways`. The invariant is again by pairs: at each of them the
index is what the tool wrote, what it printed is a prefix of what it shall
print, and the registers are those from before with the writes made so far. The
tools that read numbers with `strtoul` are assumed to get naturals, `ioapic_wr`,
which keeps an int, any integer.

`DirectIOProofs`, for any command lines with numbers below 2^64, any sizes, failed
accesses and changes by others, slaves whose registers are bytes:
`ConfirmedStillAlways`, `ExactOrRefusedAlways` and `CompleteAlways`. The invariant
(`Invariance`) has a part for each: `Transcript`, that after n accesses a dump has
printed the answers of the first n; `Confirmed`, that a tool which shows a value before it overwrites it has shown the
register's, unless somebody changed it or the read failed; `Verified`, that what a
tool shows last is what the register holds; `Exact`, that a tool which checks its
arguments touches no cell but that of its command line, and that with its value. The arithmetic of the checks
(truncation to 16, 32 and 64 bits) rests on four lemmas about division.

`NorthbridgeProofs`, for any machines and addresses: `UnopenedNothingAlways`,
`TellTaleAlways`, `ScrubSpeedAlways`, `AgreesWithReportAlways`,
`SwapExchangesAlways` and `UniqueAlways`.

* Without `/dev/pci` every range matches the addresses from 2^48 - 2^24 on, and why
  none of them is given a place is an accident of four constants. The invariant
  `Unplaced` follows one bit: an address that matches has the bits 32, 40 and 47
  (`OnesMatch`), no region swap reaches it (`OnesSwap`), the hole taken from it
  borrows from bit 32 at the most, so bit 40 stays and becomes bit 37 when the
  eight nodes are taken out (`OnesCell`), which is bit 29 for the chip selects,
  above the 29 bits of their masks (`OnesChip`).
* `AllFair` says of each claim of the report what it may say. The scrubber's
  periods are 22 numbers, each of which the provers divide.
* `AgreesWithReport` is about two programs, between which the machine may be set
  up in another way: `Order` (the decoder runs after the report, and not when
  that failed), `Lists` (the chip selects enabled are in the report) and `Chosen`
  (what the inner loop found is one of them). Neither program checks that a
  disabled controller has no chip select enabled, or that a reboot leaves them
  alone; that is what firmware does, and the theorem assumes it by name
  (`DisabledAssumption`, `RebootAssumption`).
* `SwapExchanges` is about the decoder on two machines, so `At` is `AddrDecode` with
  its variables as parameters, and `Here` says that a state is that decoder at its
  own machine. What is assumed of the firmware is `ExchangeAssumption`: the ranges do
  not overlap; the lowest 2^k bytes (128 MB to 8 GB) are exchanged with as many at a
  base of k zero bits, by all nodes that have them; without the exchange, the
  other registers are the same. The argument needs the order of words (`LessTotal`,
  `LessTransitive`, which rest on a highest bit), that a word between a base and the
  end of its region has the base's higher bits (`Aligned`), and from these that the
  comparisons in units of 128 MB mean the two regions (`SwapMeant`) and that an
  exchanged address is still in its range and in its turn (`ExchangeInRange`). The
  code changes the address in a loop that goes on: the invariant `Underway` says of
  an address that was changed and not found that no later range has it either, and
  otherwise what the answer will be; `Remembered` says the same of the first run.
  Equal nodes, ranges and swapped addresses give equal channels, addresses in
  them and ranks, because no other register differs (`SameWay`).
* `UniqueAlways` is `[](Straight(machine) => Unique)`. `Straight` asks that the ranges
  do not overlap and each node has one of them, in which one, two, four or eight
  nodes take turns; that there is no hole; that channels which take turns have no
  high range besides; and that an exchange, if any, is below 4 GB. Of the run's 56
  machines 47 are straight, of the 30 whose addresses are decoded 21. The argument goes
  back from the place that two addresses share to the addresses. A node has one
  range, so the addresses are in the same (`OneBlock`). Whether they are in the
  high range follows from the channel, so the same offset was taken from both, and
  two words that differ do so after a subtraction, in their lowest differing bit
  (`MinusTells`). The removed bits come back as well: those of the node are the
  turn of the range (`Within`), and that of the channel follows from the channel
  and, under a hash, from the parity of bits that are known by then (`SameBlock`).
  What remains is that the exchange undoes itself (`SwapTells`). The invariants are
  `Underway` and `Remembered` again. No use is made of what `dram` says: on such
  machines no two blocks that are found share a place. `Unique` compares blocks of 64
  bytes because the decoder drops the bits below.
* Holes, and a high range above channels that take turns, are left out of `Straight`
  because the argument ends there, not because `Unique` is known to fail: different
  offsets are taken below and above, so that it needs the order of the words and not
  their bits alone. Exchanges from 4 GB on are left out because there it does fail:
  one at 6 GB, which is at 2 GB after the cut to 32 bits, gives two blocks one place.

TLC evaluates the three assumptions on the machines of the run.

Two forms in the models serve the provers and change nothing they say: the arms
of a `CASE` exclude one another, and bodies of programs are sequences of pairs
that `Flat` strings together.

Only model-checked: the liveness properties (TLAPS does not prove fairness
arguments with ENABLED); `Unique` on machines that are not straight; and `Mapped`,
which is true of registers whose chip selects fill the ranges: what firmware does
there is given by the list in `MCNorthbridge`.

## Not modelled

The options `-v`, device names, parsing of numbers and the wording of output;
the conversion of a tachometer reading to a speed (floating point); the checksum
variant under `#if`; the truncation of arguments by the Super I/O tools, which have
bytes as arguments here; the overflow of `int` for targets of the tuner within one of
its ends; and the components marked so in the inventory. Invocations that overlap
at one index register are in the models, but nothing is claimed of them: the tools
have no lock and make no promise.

Two things are fixed or in one step that the code does again or in several: whether
`/dev/pci` opens, which each `Get_PCI` tries for itself, and the three reads of the
fan divisors, between which an exit has touched nothing.

## Plan

1. Done: the modules above, in the order of how much can go wrong in the code:
   first `HTU21Query` and its abstract specification, checksum and value, then
   `SmbTune`, `FanCalibrate`, `SuperIO`, `IndexedIO`, then `AddrDecode`, `EccInfo`
   and their composition, `DirectIO`, and `HTU21Answer`.
2. Done: proofs of all safety properties that the list above does not leave to
   TLC, and of the refinement of `SensorQuery`.
3. `Unique` with a hole; a description of how firmware fills ranges with chip
   selects, from which `Mapped` could be proved; `SmbTune` and
   `setreg` on one slave at the same time; device names.
