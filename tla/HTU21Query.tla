----------------------------- MODULE HTU21Query -----------------------------
(***************************************************************************)
(* htu21-query.c and htu21-query.low-level.c: a command line tool that     *)
(* asks an HTU21 sensor on an I2C bus for the temperature and then for the *)
(* humidity.  A step is one ioctl on /dev/iic0, one usleep, or the         *)
(* evaluation of one answer by main(); between two steps the kernel, the   *)
(* sensor and other invocations of the tool may act.                       *)
(*                                                                         *)
(* The controller and the sensor are external.  They are modelled from the *)
(* use the tool makes of them: START .. STOP brackets own the bus, a START *)
(* that reads is acknowledged only when a measurement is ready (that is    *)
(* what the polling loops wait for), a repeated START that reads is held   *)
(* until it is (hold mode), I2CRDWR is a bracket of its own, and any ioctl *)
(* may fail.                                                               *)
(***************************************************************************)
EXTENDS Integers

CONSTANTS
  Proc,       \* invocations of the tool
  NoOne,      \* nobody: the bus is free, or a frame answers no command
  Modes       \* program and options an invocation may be started with

Tools == {"query", "lowlevel"}

ASSUME NoOneAssumption  == NoOne \notin Proc
ASSUME ModesAssumption  ==
  /\ Modes \subseteq [tool : Tools, hold : BOOLEAN, xfer : BOOLEAN]
  /\ \A m \in Modes : m.tool = "lowlevel" => ~m.xfer     \* it has no -x

VARIABLES
  mode,           \* [Proc -> Modes] the program, hold_mode and xfer_mode
  explicitStart,  \* does the controller implement I2CSTART (else: ENODEV)?
  overlapped,     \* [Proc -> BOOLEAN] did it run while another one did?
  pc,             \* [Proc -> Loc] the ioctl or check that comes next
  cur,            \* [Proc -> Quantity] the value main() is asking for
  error,          \* [Proc -> {0,-1}] request_raw's / transfer_raw's error
  data,           \* [Proc -> Frame] main's buffer data[3]
  answer,         \* [Proc -> [Quantity -> Answer]] what main() has printed
  retval,         \* [Proc -> {0,1}] main's exit status so far
  lastStop,       \* [Proc -> {"ok","failed"}] outcome of the last I2CSTOP
  owner,          \* who has the bus between START and STOP, or NoOne
  dir,            \* read/write bit of the address of the last START
  phase,          \* the sensor: "idle", "measuring" or "ready"
  job             \* the command the sensor is working on

config == <<mode, explicitStart, overlapped>>
report == <<cur, answer, retval>>
bus    == <<owner, dir, lastStop>>
sensor == <<phase, job>>
vars   == <<config, pc, error, data, report, bus, sensor>>

Quantity == {"temp", "hum"}
Job      == [by : Proc \cup {NoOne}, kind : Quantity]
NoJob    == [by |-> NoOne, kind |-> "temp"]

(* Three bytes as the tool receives them.  "clean" are the bytes the       *)
(* sensor sent, "corrupt" are bytes whose checksum does not match, "zero"  *)
(* are three zero bytes, for which the checksum does match.                *)
Quality  == {"clean", "corrupt", "zero"}
Frame    == [job : Job, quality : Quality]

(* Bytes no command of this run has produced; valid_crc accepts them, the  *)
(* worst an unwritten buffer can hold.                                     *)
Garbage  == [job |-> NoJob, quality |-> "clean"]

Answer   == [status : {"pending", "printed", "failed"},
             frame : Frame, warned : BOOLEAN]
NoAnswer == [status |-> "pending", frame |-> Garbage, warned |-> FALSE]

Polling  == {"sleep", "xsleep"}
Active   == {"start", "restart", "write", "cmdstop", "rstart", "read", "stop",
             "abort", "xhold", "xcmd", "xpoll", "check"} \cup Polling
Over     == {"exited", "killed"}
Loc      == {"idle"} \cup Active \cup Over

TypeOK ==
  /\ mode \in [Proc -> Modes]
  /\ explicitStart \in BOOLEAN
  /\ overlapped \in [Proc -> BOOLEAN]
  /\ pc \in [Proc -> Loc]
  /\ cur \in [Proc -> Quantity]
  /\ error \in [Proc -> {0, -1}]
  /\ data \in [Proc -> Frame]
  /\ answer \in [Proc -> [Quantity -> Answer]]
  /\ retval \in [Proc -> {0, 1}]
  /\ lastStop \in [Proc -> {"ok", "failed"}]
  /\ owner \in Proc \cup {NoOne}
  /\ dir \in {"w", "r"}
  /\ phase \in {"idle", "measuring", "ready"}
  /\ job \in Job

Init ==
  /\ mode \in [Proc -> Modes]
  /\ explicitStart \in BOOLEAN
  /\ overlapped = [p \in Proc |-> FALSE]
  /\ pc = [p \in Proc |-> "idle"]
  /\ cur = [p \in Proc |-> "temp"]
  /\ error = [p \in Proc |-> 0]
  /\ data = [p \in Proc |-> Garbage]
  /\ answer = [p \in Proc |-> [q \in Quantity |-> NoAnswer]]
  /\ retval = [p \in Proc |-> 0]
  /\ lastStop = [p \in Proc |-> "ok"]
  /\ owner = NoOne
  /\ dir = "w"
  /\ phase = "idle"
  /\ job = NoJob

-----------------------------------------------------------------------------
(* The bus and the sensor.                                                 *)

Own(p) == [by |-> p, kind |-> cur[p]]

(* The ioctl returned e (0 or -1) and control goes on at l.                *)
Goto(p, e, l) ==
  /\ error' = [error EXCEPT ![p] = e]
  /\ pc' = [pc EXCEPT ![p] = l]

(* I2CSTART accepted: p has the bus, addressed for writing or reading.     *)
Started(p, d) ==
  /\ explicitStart
  /\ owner \in {NoOne, p}
  /\ owner' = p
  /\ dir' = d
  /\ UNCHANGED lastStop

(* I2CSTOP: when it fails the bus stays with p.                            *)
Stopped(p, res) ==
  /\ lastStop' = [lastStop EXCEPT ![p] = res]
  /\ owner' = IF res = "ok" /\ owner = p THEN NoOne ELSE owner
  /\ UNCHANGED dir

(* The sensor takes p's command and drops what it was doing.               *)
Commanded(p) ==
  /\ phase' = "measuring"
  /\ job' = Own(p)

(* The sensor hands over its answer once.                                  *)
Answered(p, j) ==
  /\ \E qual \in Quality :
       data' = [data EXCEPT ![p] = [job |-> j, quality |-> qual]]
  /\ phase' = "idle"
  /\ job' = NoJob

(* A transfer that failed may have filled the buffer with anything.        *)
Scrambled(p) == data' \in {data, [data EXCEPT ![p] = Garbage]}

MeasureDone ==
  /\ phase = "measuring"
  /\ phase' = "ready"
  /\ UNCHANGED <<config, pc, error, data, report, bus, job>>
-----------------------------------------------------------------------------
(* main() up to the first request.                                         *)

XferEntry(p) == IF mode[p].hold THEN "xhold" ELSE "xcmd"

(* Where request_raw starts: -x goes straight to transfer_raw.             *)
Entry(p) == IF mode[p].xfer THEN XferEntry(p) ELSE "start"

(* p is about to run: so do, with it, the ones that are running.           *)
Overlap(p) ==
  overlapped' = [q \in Proc |->
    overlapped[q] \/ IF q = p THEN \E r \in Proc : pc[r] \in Active
                              ELSE pc[q] \in Active]

Begin(p) ==
  /\ pc[p] = "idle"
  /\ \/ /\ pc' = [pc EXCEPT ![p] = Entry(p)]
        /\ Overlap(p)
        /\ UNCHANGED retval
     \/ /\ pc' = [pc EXCEPT ![p] = "exited"]       \* open failed: err(1, ..)
        /\ retval' = [retval EXCEPT ![p] = 1]
        /\ UNCHANGED overlapped
  /\ UNCHANGED <<mode, explicitStart, cur, answer, error, data, bus, sensor>>

-----------------------------------------------------------------------------
(* request_raw: START, WRITE the command, (STOP,) START for reading, READ, *)
(* STOP.                                                                   *)

(* Only htu21-query.c reads ENODEV as "use I2CRDWR instead".               *)
StartCmd(p) ==
  /\ pc[p] = "start"
  /\ \/ Started(p, "w") /\ Goto(p, 0, "write")
     \/ /\ mode[p].tool = "query" /\ ~explicitStart
        /\ Goto(p, -1, XferEntry(p))
        /\ UNCHANGED bus
     \/ /\ mode[p].tool = "lowlevel" \/ explicitStart
        /\ Goto(p, -1, "restart")
        /\ UNCHANGED bus
  /\ UNCHANGED <<config, report, data, sensor>>

(* "allow one retry", whatever the error was.                              *)
RestartCmd(p) ==
  /\ pc[p] = "restart"
  /\ \/ Started(p, "w") /\ Goto(p, 0, "write")
     \/ Goto(p, -1, "abort") /\ UNCHANGED bus
  /\ UNCHANGED <<config, report, data, sensor>>

(* Fault: the STOP after the command is issued in hold mode as well.       *)
WriteCmdAlwaysStops(p) ==
  /\ pc[p] = "write"
  /\ \/ Commanded(p) /\ Goto(p, 0, "cmdstop")
     \/ UNCHANGED sensor /\ Goto(p, -1, "abort")
  /\ UNCHANGED <<config, report, data, bus>>

(* The command byte; a failed write may still have reached the sensor.     *)
WriteCmd(p) ==
  /\ pc[p] = "write"
  /\ \/ /\ Commanded(p)
        /\ Goto(p, 0, IF mode[p].hold THEN "rstart" ELSE "cmdstop")
     \/ /\ Commanded(p) \/ UNCHANGED sensor
        /\ Goto(p, -1, "abort")
  /\ UNCHANGED <<config, report, data, bus>>

StopCmd(p) ==
  /\ pc[p] = "cmdstop"
  /\ \/ Stopped(p, "ok") /\ Goto(p, 0, "rstart")
     \/ Stopped(p, "failed") /\ Goto(p, -1, "check")
  /\ UNCHANGED <<config, report, data, sensor>>

(* Fault: a refused START is polled in hold mode as well.                  *)
StartReadAlwaysPolls(p) ==
  /\ pc[p] = "rstart"
  /\ \/ /\ mode[p].hold \/ phase = "ready"
        /\ Started(p, "r") /\ Goto(p, 0, "read")
     \/ Goto(p, -1, "sleep") /\ UNCHANGED bus
  /\ UNCHANGED <<config, report, data, sensor>>

(* Hold mode: a repeated START, which the sensor acknowledges and then     *)
(* stretches.  Otherwise a new START, refused until the answer is ready.   *)
StartRead(p) ==
  /\ pc[p] = "rstart"
  /\ \/ /\ mode[p].hold /\ owner = p
        /\ Started(p, "r") /\ Goto(p, 0, "read")
     \/ /\ mode[p].hold
        /\ Goto(p, -1, "abort") /\ UNCHANGED bus
     \/ /\ ~mode[p].hold /\ phase = "ready"
        /\ Started(p, "r") /\ Goto(p, 0, "read")
     \/ /\ ~mode[p].hold
        /\ Goto(p, -1, "sleep") /\ UNCHANGED bus
  /\ UNCHANGED <<config, report, data, sensor>>

ReadAnswer(p) ==
  /\ pc[p] = "read"
  /\ \/ /\ phase = "ready"
        /\ Answered(p, job)
        /\ Goto(p, 0, "stop")
     \/ /\ Scrambled(p) /\ UNCHANGED sensor
        /\ Goto(p, -1, "stop")
  /\ UNCHANGED <<config, report, bus>>

(* (void)ioctl(fd, I2CSTOP); return (error).                               *)
StopAndReturn(p) ==
  /\ \E res \in {"ok", "failed"} : Stopped(p, res)
  /\ Goto(p, error[p], "check")
  /\ UNCHANGED <<config, report, data, sensor>>

FinalStop(p) == pc[p] = "stop" /\ StopAndReturn(p)

(* Fault: the error paths return without I2CSTOP.                          *)
AbortWithoutStop(p) ==
  /\ pc[p] = "abort"
  /\ Goto(p, error[p], "check")
  /\ UNCHANGED <<config, report, data, bus, sensor>>

AbortRequest(p) == pc[p] = "abort" /\ StopAndReturn(p)

-----------------------------------------------------------------------------
(* transfer_raw: the same request as one or two I2CRDWR transfers.         *)

XferHold(p) ==
  /\ pc[p] = "xhold"
  /\ \/ /\ owner = NoOne
        /\ Answered(p, Own(p))
        /\ Goto(p, 0, "check")
     \/ /\ (owner = NoOne /\ Commanded(p)) \/ UNCHANGED sensor
        /\ Scrambled(p)
        /\ Goto(p, -1, "check")
  /\ UNCHANGED <<config, report, bus>>

XferCmd(p) ==
  /\ pc[p] = "xcmd"
  /\ \/ /\ owner = NoOne
        /\ Commanded(p)
        /\ Goto(p, 0, "xpoll")
     \/ /\ (owner = NoOne /\ Commanded(p)) \/ UNCHANGED sensor
        /\ Goto(p, -1, "check")
  /\ UNCHANGED <<config, report, data, bus>>

(* No acknowledgement: sleep and poll again; any other error ends it.      *)
XferPoll(p) ==
  /\ pc[p] = "xpoll"
  /\ \/ /\ owner = NoOne /\ phase = "ready"
        /\ Answered(p, job)
        /\ Goto(p, 0, "check")
     \/ /\ Goto(p, -1, "xsleep")
        /\ UNCHANGED <<data, sensor>>
     \/ /\ Scrambled(p) /\ UNCHANGED sensor
        /\ Goto(p, -1, "check")
  /\ UNCHANGED <<config, report, bus>>

(* Fault: after the sleep the whole request is made again.                 *)
WakeAndCommand(p) ==
  /\ \/ pc[p] = "sleep"  /\ pc' = [pc EXCEPT ![p] = "start"]
     \/ pc[p] = "xsleep" /\ pc' = [pc EXCEPT ![p] = "xcmd"]
  /\ UNCHANGED <<config, error, data, report, bus, sensor>>

Wake(p) ==
  /\ \/ pc[p] = "sleep"  /\ pc' = [pc EXCEPT ![p] = "rstart"]
     \/ pc[p] = "xsleep" /\ pc' = [pc EXCEPT ![p] = "xpoll"]
  /\ UNCHANGED <<config, error, data, report, bus, sensor>>

-----------------------------------------------------------------------------
(* main(): what is printed for an answer, and the exit status.             *)

(* Bit 1 of the low byte: set by the sensor in a humidity answer.          *)
HumidityBit(f) == f.quality = "clean" /\ f.job.kind = "hum"

(* Fault: the error of request_raw is not looked at.                       *)
AcceptableDespiteError(p) == data[p].quality = "clean"

(* error == 0, valid_crc and raw != 0.                                     *)
Acceptable(p) == error[p] = 0 /\ data[p].quality = "clean"

(* Fault: the humidity branch tests the bit like the temperature branch.   *)
InconsistentSameTest(p) ==
  /\ error[p] = 0
  /\ data[p].quality # "corrupt"
  /\ HumidityBit(data[p])

(* The "inconsistency" warnings come after the checksum, before raw == 0.  *)
Inconsistent(p) ==
  /\ error[p] = 0
  /\ data[p].quality # "corrupt"
  /\ HumidityBit(data[p]) # (cur[p] = "hum")

(* Fault: the exit status counts the failures.                             *)
JudgedCounting(p) ==
  /\ answer' = [answer EXCEPT ![p][cur[p]] =
       [status |-> IF Acceptable(p) THEN "printed" ELSE "failed",
        frame  |-> IF Acceptable(p) THEN data[p] ELSE Garbage,
        warned |-> Inconsistent(p)]]
  /\ retval' = [retval EXCEPT ![p] = IF Acceptable(p) THEN @ ELSE @ + 1]

(* Fault: the exit status is that of the last value only.                  *)
JudgedLastOnly(p) ==
  /\ answer' = [answer EXCEPT ![p][cur[p]] =
       [status |-> IF Acceptable(p) THEN "printed" ELSE "failed",
        frame  |-> IF Acceptable(p) THEN data[p] ELSE Garbage,
        warned |-> Inconsistent(p)]]
  /\ retval' = [retval EXCEPT ![p] = IF Acceptable(p) THEN 0 ELSE 1]

Judged(p) ==
  /\ answer' = [answer EXCEPT ![p][cur[p]] =
       [status |-> IF Acceptable(p) THEN "printed" ELSE "failed",
        frame  |-> IF Acceptable(p) THEN data[p] ELSE Garbage,
        warned |-> Inconsistent(p)]]
  /\ retval' = [retval EXCEPT ![p] = IF Acceptable(p) THEN @ ELSE 1]

CheckTemp(p) ==
  /\ pc[p] = "check" /\ cur[p] = "temp"
  /\ Judged(p)
  /\ cur' = [cur EXCEPT ![p] = "hum"]
  /\ pc' = [pc EXCEPT ![p] = Entry(p)]
  /\ UNCHANGED <<config, error, data, bus, sensor>>

(* When a process ends its variables are gone, the descriptor is closed    *)
(* and the bus is given back.                                              *)
Closed(p) ==
  /\ owner' = IF owner = p THEN NoOne ELSE owner
  /\ lastStop' = [lastStop EXCEPT ![p] = "ok"]
  /\ error' = [error EXCEPT ![p] = 0]
  /\ data' = [data EXCEPT ![p] = Garbage]
  /\ UNCHANGED dir

CheckHum(p) ==
  /\ pc[p] = "check" /\ cur[p] = "hum"
  /\ Judged(p)
  /\ pc' = [pc EXCEPT ![p] = "exited"]
  /\ Closed(p)
  /\ UNCHANGED <<config, cur, sensor>>

(* A signal ends the invocation between two steps.                         *)
Kill(p) ==
  /\ pc[p] \in Active
  /\ pc' = [pc EXCEPT ![p] = "killed"]
  /\ Closed(p)
  /\ UNCHANGED <<config, report, sensor>>

-----------------------------------------------------------------------------
Step(p) ==
  \/ StartCmd(p) \/ RestartCmd(p) \/ WriteCmd(p) \/ StopCmd(p)
  \/ StartRead(p) \/ ReadAnswer(p) \/ FinalStop(p) \/ AbortRequest(p)
  \/ XferHold(p) \/ XferCmd(p) \/ XferPoll(p) \/ Wake(p)
  \/ CheckTemp(p) \/ CheckHum(p)

Next ==
  \/ \E p \in Proc : Begin(p) \/ Step(p) \/ Kill(p)
  \/ MeasureDone

Spec == Init /\ [][Next]_vars

(* The scheduler runs every invocation that has something to do.           *)
ToolFairness == \A p \in Proc : WF_vars(Step(p))

FairSpec == Spec /\ ToolFairness

(* The environment the polling loops rely on: a measurement ends, and a    *)
(* poll of a sensor that is ready is not refused for ever.                 *)
PollHit(p) == (StartRead(p) \/ XferPoll(p)) /\ error'[p] = 0

SensorFairness ==
  /\ WF_vars(MeasureDone)
  /\ \A p \in Proc : SF_vars(PollHit(p))

-----------------------------------------------------------------------------
(* Every data phase is inside a bracket this invocation opened, and with   *)
(* the address bit it needs: I2CWRITE after a START for writing, I2CREAD   *)
(* after a (repeated) START for reading (request_raw).                     *)
Bracketed ==
  \A p \in Proc :
    /\ pc[p] \in {"write", "cmdstop"} => owner = p /\ dir = "w"
    /\ pc[p] = "rstart" /\ mode[p].hold => owner = p /\ dir = "w"
    /\ pc[p] \in {"read", "stop"} => owner = p /\ dir = "r"

(* When request_raw returns, by any of its paths, the bus is released;     *)
(* the only way to return with it is that the last I2CSTOP itself failed.  *)
Released ==
  \A p \in Proc : pc[p] = "check" /\ owner = p => lastStop[p] = "failed"

(* The sensor has one answer and does not know who asked for it, so to get *)
(* the own one takes hold mode, which keeps the bus from the command to    *)
(* the answer, or nobody else at it during the whole run.                  *)
Exclusive(p) == mode[p].hold \/ ~overlapped[p]

(* A value is then printed only from clean bytes of the measurement this   *)
(* run asked for: never another quantity, an earlier request, a killed or  *)
(* concurrent invocation, or an unwritten buffer.                          *)
PrintsOwn ==
  \A p \in Proc, q \in Quantity :
    Exclusive(p) /\ answer[p][q].status = "printed" =>
      answer[p][q].frame = [job |-> [by |-> p, kind |-> q], quality |-> "clean"]

(* main() prints a value of the wrong quantity at most with the            *)
(* "inconsistency" warning, and never warns about a right one.             *)
WarnsExactly ==
  \A p \in Proc, q \in Quantity :
    answer[p][q].status = "printed" =>
      (answer[p][q].warned <=> answer[p][q].frame.job.kind # q)

(* What "Temperature:" and "Humidity:" in the output claim of the value.   *)
PrintsRightQuantity ==
  \A p \in Proc, q \in Quantity :
    answer[p][q].status = "printed" => answer[p][q].frame.job.kind = q

(* With nothing assumed of the sensor or the bus, an invocation that is    *)
(* never over is one that polls for ever, and only without -H: every other *)
(* path of request_raw, transfer_raw and main ends.                        *)
HangsOnlyPolling ==
  \A p \in Proc :
    \/ []<>(pc[p] \in Polling /\ ~mode[p].hold)
    \/ <>[](pc[p] \notin Active)

(* With a sensor that measures and an answer that is not refused for ever, *)
(* an invocation that was started ends.                                    *)
Terminates ==
  SensorFairness => \A p \in Proc : pc[p] \in Active ~> pc[p] \in Over

(* The exchange implements the abstract promise to the caller: with -H or  *)
(* without another invocation the own answer or none, and an exit status   *)
(* that accounts for both values.                                          *)
GivenFor(p, q) ==
  IF answer[p][q].status # "printed" THEN answer[p][q].status
  ELSE IF answer[p][q].frame.job = [by |-> p, kind |-> q] THEN "own" ELSE "foreign"

StatusOf(p) ==
  IF pc[p] = "exited" THEN IF retval[p] = 0 THEN "success" ELSE "failure"
  ELSE IF pc[p] = "killed" THEN "killed" ELSE "running"

Abstract == INSTANCE SensorQuery WITH
  delivered <- [p \in Proc |-> [q \in Quantity |-> GivenFor(p, q)]],
  status    <- [p \in Proc |-> StatusOf(p)],
  shared    <- [p \in Proc |-> ~Exclusive(p)]

ImplementsQuery == Abstract!Spec
=============================================================================
