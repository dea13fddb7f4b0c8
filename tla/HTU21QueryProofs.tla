-------------------------- MODULE HTU21QueryProofs --------------------------
(***************************************************************************)
(* Proofs about HTU21Query for any set of invocations, any options and any *)
(* interleaving of them with the sensor and with signals.                  *)
(***************************************************************************)
EXTENDS HTU21Query, TLAPS

USE DEF config, report, bus, sensor

-----------------------------------------------------------------------------
(* What the helpers of the actions do to the types, one lemma for each.    *)

(* An ioctl's result and the next location are in their sets.              *)
LEMMA GotoTyped ==
  ASSUME TypeOK, NEW p \in Proc, NEW e \in {0, -1}, NEW l \in Loc, Goto(p, e, l)
  PROVE  error' \in [Proc -> {0, -1}] /\ pc' \in [Proc -> Loc]
BY DEF TypeOK, Goto

(* A STOP, whatever comes of it, leaves the bus with somebody or nobody.   *)
LEMMA StoppedTyped ==
  ASSUME TypeOK, NEW p \in Proc, NEW res \in {"ok", "failed"}, Stopped(p, res)
  PROVE  /\ lastStop' \in [Proc -> {"ok", "failed"}]
         /\ owner' \in Proc \cup {NoOne}
         /\ dir' \in {"w", "r"}
BY DEF TypeOK, Stopped

(* A START leaves the bus with the invocation.                             *)
LEMMA StartedTyped ==
  ASSUME TypeOK, NEW p \in Proc, NEW d \in {"w", "r"}, Started(p, d)
  PROVE  /\ lastStop' \in [Proc -> {"ok", "failed"}]
         /\ owner' \in Proc \cup {NoOne}
         /\ dir' \in {"w", "r"}
BY DEF TypeOK, Started

(* The command of an invocation is a job of the sensor.                    *)
LEMMA OwnTyped ==
  ASSUME TypeOK, NEW p \in Proc
  PROVE  Own(p) \in Job
BY DEF TypeOK, Own, Job

(* The sensor works on the command of an invocation.                       *)
LEMMA CommandedTyped ==
  ASSUME TypeOK, NEW p \in Proc, Commanded(p)
  PROVE  phase' \in {"idle", "measuring", "ready"} /\ job' \in Job
BY OwnTyped DEF TypeOK, Commanded

(* A read fills the buffer with a frame.                                   *)
LEMMA AnsweredTyped ==
  ASSUME TypeOK, NEW p \in Proc, NEW j \in Job, Answered(p, j)
  PROVE  /\ data' \in [Proc -> Frame]
         /\ phase' \in {"idle", "measuring", "ready"} /\ job' \in Job
<1>1. PICK qual \in Quality : data' = [data EXCEPT ![p] = [job |-> j, quality |-> qual]]
  BY DEF Answered
<1>2. [job |-> j, quality |-> qual] \in Frame
  BY DEF Frame
<1>3. data' \in [Proc -> Frame]
  BY <1>1, <1>2 DEF TypeOK
<1>4. NoJob \in Job
  BY DEF NoJob, Job, Quantity
<1>5. QED
  BY <1>3, <1>4 DEF Answered

(* Bytes nobody asked for are a frame, too.                                *)
LEMMA GarbageTyped == Garbage \in Frame
BY DEF Garbage, Frame, NoJob, Job, Quantity, Quality

(* A failed read leaves a frame, be it garbage.                            *)
LEMMA ScrambledTyped ==
  ASSUME TypeOK, NEW p \in Proc, Scrambled(p)
  PROVE  data' \in [Proc -> Frame]
BY GarbageTyped DEF Scrambled, TypeOK

(* A process that ends leaves the bus with somebody else or nobody.        *)
LEMMA ClosedTyped ==
  ASSUME TypeOK, NEW p \in Proc, Closed(p)
  PROVE  /\ lastStop' \in [Proc -> {"ok", "failed"}]
         /\ owner' \in Proc \cup {NoOne}
         /\ dir' \in {"w", "r"}
         /\ error' \in [Proc -> {0, -1}]
         /\ data' \in [Proc -> Frame]
BY GarbageTyped DEF Closed, TypeOK

(* main() goes on at the first step of a request.                          *)
LEMMA EntryTyped ==
  ASSUME NEW p \in Proc
  PROVE  Entry(p) \in Loc /\ XferEntry(p) \in Loc
BY DEF Entry, XferEntry, Loc, Active

(* The verdict on an answer is an answer and an exit status.               *)
LEMMA JudgedTyped ==
  ASSUME TypeOK, NEW p \in Proc, Judged(p)
  PROVE  answer' \in [Proc -> [Quantity -> Answer]] /\ retval' \in [Proc -> {0, 1}]
<1> DEFINE a == [status |-> IF Acceptable(p) THEN "printed" ELSE "failed",
                 frame  |-> IF Acceptable(p) THEN data[p] ELSE Garbage,
                 warned |-> Inconsistent(p)]
<1>1. a \in Answer
  <2>1. Inconsistent(p) \in BOOLEAN
    BY DEF Inconsistent
  <2>2. data[p] \in Frame /\ Garbage \in Frame
    BY GarbageTyped DEF TypeOK
  <2>3. QED
    BY <2>1, <2>2 DEF Answer
<1>2. [answer[p] EXCEPT ![cur[p]] = a] \in [Quantity -> Answer]
  BY <1>1 DEF TypeOK
<1>3. answer' = [answer EXCEPT ![p] = [answer[p] EXCEPT ![cur[p]] = a]]
  BY DEF Judged
<1>4. answer' \in [Proc -> [Quantity -> Answer]]
  BY <1>2, <1>3 DEF TypeOK
<1>5. retval' \in [Proc -> {0, 1}]
  BY DEF Judged, TypeOK
<1>6. QED
  BY <1>4, <1>5

(* It is written down for the one quantity that main() is asking for.      *)
LEMMA JudgedAnswer ==
  ASSUME TypeOK, NEW p \in Proc, Judged(p)
  PROVE  /\ answer'[p][cur[p]] =
              [status |-> IF Acceptable(p) THEN "printed" ELSE "failed",
               frame  |-> IF Acceptable(p) THEN data[p] ELSE Garbage,
               warned |-> Inconsistent(p)]
         /\ \A r \in Proc, q \in Quantity :
              r # p \/ q # cur[p] => answer'[r][q] = answer[r][q]
<1> DEFINE a == [status |-> IF Acceptable(p) THEN "printed" ELSE "failed",
                 frame  |-> IF Acceptable(p) THEN data[p] ELSE Garbage,
                 warned |-> Inconsistent(p)]
<1>1. answer' = [answer EXCEPT ![p] = [answer[p] EXCEPT ![cur[p]] = a]]
  BY DEF Judged
<1> HIDE DEF a
<1>2. answer'[p][cur[p]] = a
  BY <1>1 DEF TypeOK
<1>3. \A r \in Proc, q \in Quantity :
        r # p \/ q # cur[p] => answer'[r][q] = answer[r][q]
  BY <1>1 DEF TypeOK
<1>4. QED
  BY <1>2, <1>3 DEF a

-----------------------------------------------------------------------------
(* Every variable keeps its type: the program is only at locations it has, *)
(* and buffers, answers and the exit status hold the values declared.      *)
THEOREM TypeCorrect == Spec => []TypeOK
<1>1. Init => TypeOK
  BY DEF Init, TypeOK, Loc, Quantity, Frame, Garbage, NoJob, Job, Quality,
         NoAnswer, Answer
<1>2. TypeOK /\ [Next]_vars => TypeOK'
  <2> SUFFICES ASSUME TypeOK, [Next]_vars
               PROVE  TypeOK'
    OBVIOUS
  <2> USE GotoTyped, EntryTyped DEF TypeOK, Loc, Active, Polling, Over
  <2>1. ASSUME NEW p \in Proc, Begin(p) PROVE TypeOK'
    <3>1. overlapped' \in [Proc -> BOOLEAN]
      BY <2>1 DEF Begin, Overlap
    <3>2. pc' \in [Proc -> Loc] /\ retval' \in [Proc -> {0, 1}]
      <4>1. Entry(p) \in Loc /\ "exited" \in Loc
        OBVIOUS
      <4>2. \E l \in Loc : pc' = [pc EXCEPT ![p] = l]
        BY <2>1, <4>1 DEF Begin
      <4>3. pc' \in [Proc -> Loc]
        BY <4>2
      <4>4. retval' \in [Proc -> {0, 1}]
        BY <2>1 DEF Begin
      <4>5. QED
        BY <4>3, <4>4
    <3>3. UNCHANGED <<mode, explicitStart, cur, answer, error, data, bus, sensor>>
      BY <2>1 DEF Begin
    <3>4. QED
      BY <3>1, <3>2, <3>3 DEF bus, sensor
  <2>2. ASSUME NEW p \in Proc, StartCmd(p) PROVE TypeOK'
    BY <2>2, StartedTyped DEF StartCmd
  <2>3. ASSUME NEW p \in Proc, RestartCmd(p) PROVE TypeOK'
    BY <2>3, StartedTyped DEF RestartCmd
  <2>4. ASSUME NEW p \in Proc, WriteCmd(p) PROVE TypeOK'
    BY <2>4, CommandedTyped DEF WriteCmd
  <2>5. ASSUME NEW p \in Proc, StopCmd(p) PROVE TypeOK'
    BY <2>5, StoppedTyped DEF StopCmd
  <2>6. ASSUME NEW p \in Proc, StartRead(p) PROVE TypeOK'
    BY <2>6, StartedTyped DEF StartRead
  <2>7. ASSUME NEW p \in Proc, ReadAnswer(p) PROVE TypeOK'
    BY <2>7, AnsweredTyped, ScrambledTyped DEF ReadAnswer
  <2>8. ASSUME NEW p \in Proc, FinalStop(p) PROVE TypeOK'
    BY <2>8, StoppedTyped DEF FinalStop, StopAndReturn
  <2>9. ASSUME NEW p \in Proc, AbortRequest(p) PROVE TypeOK'
    BY <2>9, StoppedTyped DEF AbortRequest, StopAndReturn
  <2>10. ASSUME NEW p \in Proc, XferHold(p) PROVE TypeOK'
    BY <2>10, OwnTyped, AnsweredTyped, ScrambledTyped, CommandedTyped
       DEF XferHold
  <2>11. ASSUME NEW p \in Proc, XferCmd(p) PROVE TypeOK'
    BY <2>11, CommandedTyped DEF XferCmd
  <2>12. ASSUME NEW p \in Proc, XferPoll(p) PROVE TypeOK'
    BY <2>12, AnsweredTyped, ScrambledTyped DEF XferPoll
  <2>13. ASSUME NEW p \in Proc, Wake(p) PROVE TypeOK'
    BY <2>13 DEF Wake
  <2>14. ASSUME NEW p \in Proc, CheckTemp(p) PROVE TypeOK'
    BY <2>14, JudgedTyped DEF CheckTemp, Quantity
  <2>15. ASSUME NEW p \in Proc, CheckHum(p) PROVE TypeOK'
    BY <2>15, JudgedTyped, ClosedTyped DEF CheckHum
  <2>16. ASSUME NEW p \in Proc, Kill(p) PROVE TypeOK'
    BY <2>16, ClosedTyped DEF Kill
  <2>17. CASE MeasureDone
    BY <2>17 DEF MeasureDone
  <2>18. CASE UNCHANGED vars
    BY <2>18 DEF vars
  <2>19. QED
    BY <2>1, <2>2, <2>3, <2>4, <2>5, <2>6, <2>7, <2>8, <2>9, <2>10, <2>11,
       <2>12, <2>13, <2>14, <2>15, <2>16, <2>17, <2>18 DEF Next, Step
<1>3. QED
  BY <1>1, <1>2, PTL DEF Spec
-----------------------------------------------------------------------------
(* The bus: Bracketed is inductive together with the types, Released needs *)
(* to know that an invocation uses I2CSTART or I2CRDWR for the whole of    *)
(* its life, so that one that only transfers never has the bus to release. *)

RawLoc  == {"start", "restart", "write", "cmdstop", "rstart", "read", "stop",
            "abort", "sleep"}
XferLoc == {"xhold", "xcmd", "xpoll", "xsleep"}

(* An invocation asked for -x, or refused I2CSTART, is never in a bracket. *)
OneTransport ==
  \A p \in Proc :
    /\ pc[p] \in RawLoc => ~mode[p].xfer
    /\ pc[p] \in XferLoc => mode[p].xfer \/ ~explicitStart
    /\ mode[p].xfer \/ ~explicitStart => owner # p

(* The STOP after the command and the polling are only without hold mode.  *)
OneMode ==
  \A p \in Proc :
    pc[p] \in {"cmdstop", "sleep", "xcmd", "xpoll", "xsleep"} => ~mode[p].hold

BusInv == Bracketed /\ OneTransport /\ OneMode /\ Released

(* The bus invariant holds before any invocation begins.                   *)
LEMMA BusInvInit == Init => BusInv
BY NoOneAssumption DEF Init, BusInv, Bracketed, OneTransport, OneMode, Released,
     RawLoc, XferLoc

(* Each step of each invocation, the sensor's step and a signal keep it.   *)
LEMMA BusInvNext == TypeOK /\ BusInv /\ [Next]_vars => BusInv'
<1> SUFFICES ASSUME TypeOK, BusInv, [Next]_vars
             PROVE  BusInv'
  OBVIOUS
<1> USE NoOneAssumption DEF TypeOK, BusInv, Bracketed, OneTransport, OneMode,
        Released, RawLoc, XferLoc, Goto, Started, Stopped
<1>1. ASSUME NEW q \in Proc, Begin(q) PROVE BusInv'
  <2>1. Bracketed'
    BY <1>1 DEF Begin, Entry, XferEntry
  <2>2. OneTransport'
    BY <1>1 DEF Begin, Entry, XferEntry
  <2>3. OneMode'
    BY <1>1 DEF Begin, Entry, XferEntry
  <2>4. Released'
    BY <1>1 DEF Begin, Entry, XferEntry
  <2>5. QED
    BY <2>1, <2>2, <2>3, <2>4
<1>2. ASSUME NEW q \in Proc, StartCmd(q) PROVE BusInv'
  BY <1>2 DEF StartCmd, XferEntry
<1>3. ASSUME NEW q \in Proc, RestartCmd(q) PROVE BusInv'
  BY <1>3 DEF RestartCmd
<1>4. ASSUME NEW q \in Proc, WriteCmd(q) PROVE BusInv'
  BY <1>4 DEF WriteCmd
<1>5. ASSUME NEW q \in Proc, StopCmd(q) PROVE BusInv'
  BY <1>5 DEF StopCmd
<1>6. ASSUME NEW q \in Proc, StartRead(q) PROVE BusInv'
  BY <1>6 DEF StartRead
<1>7. ASSUME NEW q \in Proc, ReadAnswer(q) PROVE BusInv'
  BY <1>7 DEF ReadAnswer
<1>8. ASSUME NEW q \in Proc, FinalStop(q) PROVE BusInv'
  BY <1>8 DEF FinalStop, StopAndReturn
<1>9. ASSUME NEW q \in Proc, AbortRequest(q) PROVE BusInv'
  BY <1>9 DEF AbortRequest, StopAndReturn
<1>10. ASSUME NEW q \in Proc, XferHold(q) PROVE BusInv'
  BY <1>10 DEF XferHold
<1>11. ASSUME NEW q \in Proc, XferCmd(q) PROVE BusInv'
  BY <1>11 DEF XferCmd
<1>12. ASSUME NEW q \in Proc, XferPoll(q) PROVE BusInv'
  BY <1>12 DEF XferPoll
<1>13. ASSUME NEW q \in Proc, Wake(q) PROVE BusInv'
  BY <1>13 DEF Wake
<1>14. ASSUME NEW q \in Proc, CheckTemp(q) PROVE BusInv'
  BY <1>14 DEF CheckTemp, Entry, XferEntry
<1>15. ASSUME NEW q \in Proc, CheckHum(q) PROVE BusInv'
  BY <1>15 DEF CheckHum, Closed
<1>16. ASSUME NEW q \in Proc, Kill(q) PROVE BusInv'
  BY <1>16 DEF Kill, Closed
<1>17. CASE MeasureDone
  BY <1>17 DEF MeasureDone
<1>18. CASE UNCHANGED vars
  BY <1>18 DEF vars
<1>19. QED
  BY <1>1, <1>2, <1>3, <1>4, <1>5, <1>6, <1>7, <1>8, <1>9, <1>10, <1>11,
     <1>12, <1>13, <1>14, <1>15, <1>16, <1>17, <1>18 DEF Next, Step

(* Every I2CWRITE and I2CREAD of every invocation is inside a bracket it   *)
(* opened itself, with the address bit the transfer needs.                 *)
THEOREM BracketedAlways == Spec => []Bracketed
<1>1. BusInv => Bracketed
  BY DEF BusInv
<1>2. QED
  BY <1>1, TypeCorrect, BusInvInit, BusInvNext, PTL DEF Spec

(* request_raw never returns with the bus unless its I2CSTOP failed.       *)
THEOREM ReleasedAlways == Spec => []Released
<1>1. BusInv => Released
  BY DEF BusInv
<1>2. QED
  BY <1>1, TypeCorrect, BusInvInit, BusInvNext, PTL DEF Spec
-----------------------------------------------------------------------------
(* Whose answer is printed: what one invocation is owed, has read and has  *)
(* printed.  From the command to the answer the sensor works for it, and   *)
(* what main() is about to judge without an error is the answer asked for. *)

OwnOf(p) ==
  /\ pc[p] \in {"cmdstop", "rstart", "sleep", "read", "xpoll", "xsleep"} =>
       phase # "idle" /\ job = Own(p)
  /\ pc[p] = "abort" => error[p] = -1
  /\ pc[p] \in {"stop", "check"} /\ error[p] = 0 => data[p].job = Own(p)
  /\ \A x \in Quantity : answer[p][x].status = "printed" =>
       answer[p][x].frame = [job |-> [by |-> p, kind |-> x], quality |-> "clean"]

(* An invocation that has not overlapped another is alone while it runs.   *)
Alone ==
  \A p, r \in Proc :
    pc[p] \in Active /\ ~overlapped[p] /\ pc[r] \in Active => p = r

OwnInv == Alone /\ \A p \in Proc : Exclusive(p) => OwnOf(p)

(* Nothing has been asked or printed when the tools begin.                 *)
LEMMA OwnInvInit == Init => OwnInv
BY DEF Init, OwnInv, OwnOf, Alone, Active, Polling, NoAnswer

(* No step of another invocation reaches the sensor in between.            *)
LEMMA Undisturbed ==
  ASSUME TypeOK, BusInv, Alone, NEW p \in Proc, Exclusive(p), NEW q \in Proc, q # p,
         pc[p] \in {"cmdstop", "rstart", "sleep", "read", "xpoll", "xsleep"},
         Begin(q) \/ Step(q) \/ Kill(q)
  PROVE  UNCHANGED sensor
<1>1. CASE ~overlapped[p]
  <2>1. pc[q] \notin Active
    BY <1>1 DEF Alone, Active, Polling
  <2>2. QED
    BY <2>1 DEF Begin, Step, StartCmd, RestartCmd, WriteCmd, StopCmd, StartRead,
       ReadAnswer, FinalStop, AbortRequest, XferHold, XferCmd, XferPoll, Wake,
       CheckTemp, CheckHum, Kill, Active, Polling
<1>2. CASE mode[p].hold
  <2>1. owner = p /\ owner # q /\ owner # NoOne
    BY <1>2, NoOneAssumption DEF BusInv, Bracketed, OneMode
  <2>2. pc[q] \notin {"write", "read"}
    BY <2>1 DEF BusInv, Bracketed
  <2>3. QED
    BY <2>1, <2>2 DEF Begin, Step, StartCmd, RestartCmd, WriteCmd, StopCmd,
       StartRead, ReadAnswer, FinalStop, StopAndReturn, AbortRequest, XferHold,
       XferCmd, XferPoll, Wake, CheckTemp, CheckHum, Kill
<1>3. QED
  BY <1>1, <1>2 DEF Exclusive

(* An invocation never becomes exclusive again.                            *)
LEMMA ExclusiveBefore ==
  ASSUME TypeOK, [Next]_vars, NEW p \in Proc, Exclusive(p)'
  PROVE  Exclusive(p)
<1>1. ASSUME NEW q \in Proc, Begin(q) PROVE Exclusive(p)
  BY <1>1 DEF Begin, Overlap, Exclusive, TypeOK
<1>2. CASE UNCHANGED config
  BY <1>2 DEF Exclusive
<1>3. QED
  BY <1>1, <1>2 DEF Next, Step, StartCmd, RestartCmd, WriteCmd, StopCmd, StartRead,
     ReadAnswer, FinalStop, StopAndReturn, AbortRequest, XferHold, XferCmd,
     XferPoll, Wake, CheckTemp, CheckHum, Kill, MeasureDone, vars

(* Who begins while another one runs marks both.                           *)
LEMMA AloneNext == TypeOK /\ Alone /\ [Next]_vars => Alone'
<1> SUFFICES ASSUME TypeOK, Alone, [Next]_vars, NEW p \in Proc, NEW r \in Proc,
                    pc'[p] \in Active, ~overlapped'[p], pc'[r] \in Active
             PROVE  p = r
  BY DEF Alone
<1>1. ASSUME NEW q \in Proc, Begin(q) PROVE p = r
  <2>1. \A x \in Proc : x # q => pc'[x] = pc[x]
    BY <1>1 DEF Begin, TypeOK
  <2>2. CASE Overlap(q)
    BY <1>1, <2>1, <2>2 DEF Overlap
  <2>3. CASE pc'[q] = "exited" /\ UNCHANGED overlapped
    BY <2>1, <2>3 DEF Alone, Active, Polling
  <2>4. QED
    BY <1>1, <2>2, <2>3 DEF Begin, TypeOK
<1>2. ASSUME NEW q \in Proc, Step(q) \/ Kill(q) PROVE p = r
  <2>1. pc[q] \in Active /\ UNCHANGED overlapped
    BY <1>2 DEF Step, StartCmd, RestartCmd, WriteCmd, StopCmd, StartRead,
       ReadAnswer, FinalStop, StopAndReturn, AbortRequest, XferHold, XferCmd,
       XferPoll, Wake, CheckTemp, CheckHum, Kill, Active, Polling
  <2>2. \A x \in Proc : x # q => pc'[x] = pc[x]
    BY <1>2 DEF Step, StartCmd, RestartCmd, WriteCmd, StopCmd, StartRead,
       ReadAnswer, FinalStop, StopAndReturn, AbortRequest, XferHold, XferCmd,
       XferPoll, Wake, CheckTemp, CheckHum, Kill, Goto, TypeOK
  <2>3. QED
    BY <2>1, <2>2 DEF Alone
<1>3. CASE MeasureDone
  BY <1>3 DEF MeasureDone, Alone
<1>4. CASE UNCHANGED vars
  BY <1>4 DEF vars, Alone
<1>5. QED
  BY <1>1, <1>2, <1>3, <1>4 DEF Next

(* A step of an invocation changes nothing of another one.                 *)
LEMMA OthersKept ==
  ASSUME TypeOK, NEW p \in Proc, NEW q \in Proc, q # p,
         Begin(q) \/ Step(q) \/ Kill(q)
  PROVE  /\ pc'[p] = pc[p] /\ cur'[p] = cur[p] /\ error'[p] = error[p]
         /\ data'[p] = data[p] /\ answer'[p] = answer[p]
<1>1. pc'[p] = pc[p] /\ error'[p] = error[p]
  BY DEF TypeOK, Begin, Step, Kill, StartCmd, RestartCmd, WriteCmd, StopCmd, StartRead,
       ReadAnswer, FinalStop, StopAndReturn, AbortRequest, XferHold, XferCmd,
       XferPoll, Wake, CheckTemp, CheckHum, Goto, Closed
<1>2. cur'[p] = cur[p]
  BY DEF TypeOK, Begin, Step, Kill, StartCmd, RestartCmd, WriteCmd, StopCmd, StartRead,
       ReadAnswer, FinalStop, StopAndReturn, AbortRequest, XferHold, XferCmd,
       XferPoll, Wake, CheckTemp, CheckHum
<1>3. data'[p] = data[p]
  BY DEF TypeOK, Begin, Step, Kill, StartCmd, RestartCmd, WriteCmd, StopCmd, StartRead,
       ReadAnswer, FinalStop, StopAndReturn, AbortRequest, XferHold, XferCmd,
       XferPoll, Wake, CheckTemp, CheckHum, Answered, Scrambled,
       Closed
<1>4. answer'[p] = answer[p]
  BY DEF TypeOK, Begin, Step, Kill, StartCmd, RestartCmd, WriteCmd, StopCmd, StartRead,
       ReadAnswer, FinalStop, StopAndReturn, AbortRequest, XferHold, XferCmd,
       XferPoll, Wake, CheckTemp, CheckHum, Judged
<1>5. QED
  BY <1>1, <1>2, <1>3, <1>4

(* What main() prints is what it has read, and that is its own.            *)
LEMMA JudgedOwn ==
  ASSUME TypeOK, NEW p \in Proc, OwnOf(p), pc[p] = "check", Judged(p),
         NEW x \in Quantity, answer'[p][x].status = "printed"
  PROVE  answer'[p][x].frame = [job |-> [by |-> p, kind |-> x], quality |-> "clean"]
<1> DEFINE a == [status |-> IF Acceptable(p) THEN "printed" ELSE "failed",
                 frame  |-> IF Acceptable(p) THEN data[p] ELSE Garbage,
                 warned |-> Inconsistent(p)]
<1>1. answer'[p] = [answer[p] EXCEPT ![cur[p]] = a]
  BY DEF Judged, TypeOK
<1>2. CASE x = cur[p]
  <2>1. answer'[p][x] = a
    BY <1>1, <1>2 DEF TypeOK
  <2>2. Acceptable(p) /\ answer'[p][x].frame = data[p]
    BY <2>1
  <2>3. data[p].job = [by |-> p, kind |-> x] /\ data[p].quality = "clean"
    BY <1>2, <2>2 DEF OwnOf, Acceptable, Own
  <2>4. data[p] \in Frame
    BY DEF TypeOK
  <2>5. QED
    BY <2>2, <2>3, <2>4 DEF Frame
<1>3. CASE x # cur[p]
  BY <1>1, <1>3 DEF OwnOf, TypeOK
<1>4. QED
  BY <1>2, <1>3

(* Its own steps keep that.                                                *)
LEMMA OwnStep ==
  ASSUME TypeOK, NEW p \in Proc, OwnOf(p), Begin(p) \/ Step(p) \/ Kill(p)
  PROVE  OwnOf(p)'
<1> USE DEF TypeOK, OwnOf, Goto, Own, Loc, Active, Polling, Over
<1>1. CASE Begin(p)
  BY <1>1 DEF Begin, Entry, XferEntry
<1>2. CASE StartCmd(p)
  BY <1>2 DEF StartCmd, XferEntry
<1>3. CASE RestartCmd(p)
  BY <1>3 DEF RestartCmd
<1>4. CASE WriteCmd(p)
  BY <1>4 DEF WriteCmd, Commanded
<1>5. CASE StopCmd(p)
  BY <1>5 DEF StopCmd
<1>6. CASE StartRead(p)
  BY <1>6 DEF StartRead
<1>7. CASE ReadAnswer(p)
  BY <1>7 DEF ReadAnswer, Answered, Scrambled
<1>8. CASE FinalStop(p)
  BY <1>8 DEF FinalStop, StopAndReturn
<1>9. CASE AbortRequest(p)
  BY <1>9 DEF AbortRequest, StopAndReturn
<1>10. CASE XferHold(p)
  BY <1>10 DEF XferHold, Answered, Scrambled, Commanded
<1>11. CASE XferCmd(p)
  BY <1>11 DEF XferCmd, Commanded
<1>12. CASE XferPoll(p)
  BY <1>12 DEF XferPoll, Answered, Scrambled
<1>13. CASE Wake(p)
  BY <1>13 DEF Wake
<1>14. CASE CheckTemp(p)
  <2>1. pc'[p] \in {"start", "xhold", "xcmd"}
    BY <1>14 DEF CheckTemp, Entry, XferEntry
  <2>2. QED
    BY <1>14, <2>1, JudgedOwn DEF CheckTemp
<1>15. CASE CheckHum(p)
  <2>1. pc'[p] = "exited"
    BY <1>15 DEF CheckHum
  <2>2. QED
    BY <1>15, <2>1, JudgedOwn DEF CheckHum
<1>16. CASE Kill(p)
  BY <1>16 DEF Kill
<1>17. QED
  BY <1>1, <1>2, <1>3, <1>4, <1>5, <1>6, <1>7, <1>8, <1>9, <1>10, <1>11,
     <1>12, <1>13, <1>14, <1>15, <1>16 DEF Step
(* Every step keeps the invariant of every exclusive invocation.           *)
LEMMA OwnInvNext == TypeOK /\ BusInv /\ OwnInv /\ [Next]_vars => OwnInv'
<1> SUFFICES ASSUME TypeOK, BusInv, OwnInv, [Next]_vars
             PROVE  OwnInv'
  OBVIOUS
<1>1. Alone'
  BY AloneNext DEF OwnInv
<1>2. ASSUME NEW p \in Proc, Exclusive(p)' PROVE OwnOf(p)'
  <2>1. Exclusive(p) /\ OwnOf(p)
    BY <1>2, ExclusiveBefore DEF OwnInv
  <2>2. CASE Begin(p) \/ Step(p) \/ Kill(p)
    BY <2>1, <2>2, OwnStep
  <2>3. ASSUME NEW q \in Proc, q # p, Begin(q) \/ Step(q) \/ Kill(q)
        PROVE  OwnOf(p)'
    <3>1. /\ pc'[p] = pc[p] /\ cur'[p] = cur[p] /\ error'[p] = error[p]
          /\ data'[p] = data[p] /\ answer'[p] = answer[p]
      BY <2>3, OthersKept
    <3>2. pc[p] \in {"cmdstop", "rstart", "sleep", "read", "xpoll", "xsleep"}
            => UNCHANGED sensor
      BY <2>1, <2>3, Undisturbed DEF OwnInv
    <3>3. QED
      BY <2>1, <3>1, <3>2 DEF OwnOf, Own
  <2>4. CASE MeasureDone
    BY <2>1, <2>4 DEF MeasureDone, OwnOf, Own
  <2>5. CASE UNCHANGED vars
    BY <2>1, <2>5 DEF vars, OwnOf, Own
  <2>6. QED
    BY <2>2, <2>3, <2>4, <2>5 DEF Next
<1>3. QED
  BY <1>1, <1>2 DEF OwnInv

(* A value printed by an invocation in hold mode, or by one that was alone *)
(* during its run, is clean and is the answer to its own request for the   *)
(* quantity it is printed as.                                              *)
THEOREM PrintsOwnAlways == Spec => []PrintsOwn
<1>1. Spec => [](TypeOK /\ BusInv)
  BY TypeCorrect, BusInvInit, BusInvNext, PTL DEF Spec
<1>2. TypeOK /\ BusInv /\ OwnInv /\ [Next]_vars => OwnInv'
  BY OwnInvNext
<1>3. OwnInv => PrintsOwn
  BY DEF OwnInv, OwnOf, PrintsOwn
<1>4. QED
  BY <1>1, <1>2, <1>3, OwnInvInit, PTL DEF Spec

-----------------------------------------------------------------------------
(* Why the warnings are right: at any time, of every printed answer.       *)

(* main() warns about exactly the printed values whose low byte shows the  *)
(* other quantity, whoever asked for them.                                 *)
THEOREM WarnsExactlyAlways == Spec => []WarnsExactly
<1>1. Init => WarnsExactly
  BY DEF Init, WarnsExactly, NoAnswer
<1>2. TypeOK /\ WarnsExactly /\ [Next]_vars => WarnsExactly'
  <2> SUFFICES ASSUME TypeOK, WarnsExactly, [Next]_vars
               PROVE  WarnsExactly'
    OBVIOUS
  <2>1. CASE UNCHANGED answer
    BY <2>1 DEF WarnsExactly
  <2>2. ASSUME NEW p \in Proc, Judged(p) PROVE WarnsExactly'
    <3> SUFFICES ASSUME NEW r \in Proc, NEW q \in Quantity,
                        answer'[r][q].status = "printed"
                 PROVE  answer'[r][q].warned <=> answer'[r][q].frame.job.kind # q
      BY DEF WarnsExactly
    <3>1. CASE r # p \/ q # cur[p]
      <4>1. answer'[r][q] = answer[r][q]
        BY <2>2, <3>1, JudgedAnswer
      <4>2. QED
        BY <4>1 DEF WarnsExactly
    <3>2. CASE r = p /\ q = cur[p]
      <4>1. /\ Acceptable(p)
            /\ answer'[r][q].frame = data[p]
            /\ answer'[r][q].warned = Inconsistent(p)
        <5>1. answer'[r][q] =
                [status |-> IF Acceptable(p) THEN "printed" ELSE "failed",
                 frame  |-> IF Acceptable(p) THEN data[p] ELSE Garbage,
                 warned |-> Inconsistent(p)]
          BY <2>2, <3>2, JudgedAnswer
        <5>2. QED
          BY <5>1
      <4>2. data[p].job.kind \in Quantity
        BY DEF TypeOK, Frame, Job
      <4>3. data[p].quality = "clean" /\ error[p] = 0
        BY <4>1 DEF Acceptable
      <4>4. Inconsistent(p) <=> ((data[p].job.kind = "hum") # (cur[p] = "hum"))
        BY <4>3 DEF Inconsistent, HumidityBit
      <4>5. Inconsistent(p) <=> data[p].job.kind # cur[p]
        BY <4>2, <4>4 DEF TypeOK, Quantity
      <4>6. QED
        BY <3>2, <4>1, <4>5
    <3>3. QED
      BY <3>1, <3>2
  <2>3. QED
    BY <2>1, <2>2 DEF Next, Begin, Step, Kill, StartCmd, RestartCmd, WriteCmd,
       StopCmd, StartRead, ReadAnswer, FinalStop, StopAndReturn, AbortRequest,
       XferHold, XferCmd, XferPoll, Wake, CheckTemp, CheckHum, MeasureDone, vars
<1>3. QED
  BY <1>1, <1>2, TypeCorrect, PTL DEF Spec

-----------------------------------------------------------------------------
(* That the exchange on the bus implements the promise to the caller.      *)

(* While an invocation runs, what it has printed and its exit status so    *)
(* far go with the quantity it is asking for.                              *)
LedgerOf(p) ==
  pc[p] \in {"idle"} \cup Active =>
    /\ pc[p] = "idle" => cur[p] = "temp"
    /\ answer[p]["temp"].status = "pending" <=> cur[p] = "temp"
    /\ answer[p]["hum"].status = "pending"
    /\ retval[p] = IF answer[p]["temp"].status = "failed" THEN 1 ELSE 0

Ledger == \A p \in Proc : LedgerOf(p)

(* main() leaves nothing pending, and counts what has failed.              *)
LEMMA JudgedStatus ==
  ASSUME TypeOK, NEW p \in Proc, Judged(p)
  PROVE  /\ answer'[p][cur[p]].status = IF Acceptable(p) THEN "printed" ELSE "failed"
         /\ retval'[p] = IF Acceptable(p) THEN retval[p] ELSE 1
         /\ \A r \in Proc : r # p => retval'[r] = retval[r]
<1>1. answer'[p][cur[p]] =
        [status |-> IF Acceptable(p) THEN "printed" ELSE "failed",
         frame  |-> IF Acceptable(p) THEN data[p] ELSE Garbage,
         warned |-> Inconsistent(p)]
  BY JudgedAnswer
<1>2. answer'[p][cur[p]].status = IF Acceptable(p) THEN "printed" ELSE "failed"
  BY <1>1
<1>3. /\ retval'[p] = IF Acceptable(p) THEN retval[p] ELSE 1
      /\ \A r \in Proc : r # p => retval'[r] = retval[r]
  BY DEF Judged, TypeOK
<1>4. QED
  BY <1>2, <1>3

(* The steps that neither begin, judge nor end leave caller and status     *)
(* alone.                                                                  *)
LEMMA QuietStep ==
  ASSUME TypeOK, NEW p \in Proc, Step(p), ~CheckTemp(p), ~CheckHum(p)
  PROVE  /\ pc[p] \in Active /\ pc'[p] \in Active
         /\ \A r \in Proc : r # p => pc'[r] = pc[r]
         /\ UNCHANGED <<config, report>>
<1> USE DEF Active, Polling
<1>1. pc[p] \in Active /\ UNCHANGED <<config, report>>
  BY DEF Step, StartCmd, RestartCmd, WriteCmd, StopCmd, StartRead, ReadAnswer,
         FinalStop, StopAndReturn, AbortRequest, XferHold, XferCmd, XferPoll, Wake
<1>2. \E l \in Active : pc' = [pc EXCEPT ![p] = l]
  <2>1. XferEntry(p) \in Active
    BY DEF XferEntry
  <2>2. ASSUME NEW e, NEW l \in Active, Goto(p, e, l)
        PROVE  \E x \in Active : pc' = [pc EXCEPT ![p] = x]
    BY <2>2 DEF Goto
  <2>3. CASE Wake(p)
    BY <2>3 DEF Wake
  <2>4. \/ Wake(p)
        \/ \E e \in {0, -1, error[p]}, l \in Active : Goto(p, e, l)
    BY <2>1 DEF Step, StartCmd, RestartCmd, WriteCmd, StopCmd, StartRead,
       ReadAnswer, FinalStop, StopAndReturn, AbortRequest, XferHold, XferCmd, XferPoll
  <2>5. QED
    BY <2>2, <2>3, <2>4
<1>3. QED
  BY <1>1, <1>2 DEF TypeOK

(* Every step keeps the ledger of the invocation that makes it.            *)
LEMMA LedgerNext == TypeOK /\ Ledger /\ [Next]_vars => Ledger'
<1> SUFFICES ASSUME TypeOK, Ledger, [Next]_vars, NEW r \in Proc
             PROVE  LedgerOf(r)'
  BY DEF Ledger
<1>1. LedgerOf(r)
  BY DEF Ledger
<1>2. ASSUME UNCHANGED <<cur, answer, retval>>, pc'[r] \in Over \/ pc'[r] = pc[r]
                                         \/ (pc[r] \in Active /\ pc'[r] \in Active)
      PROVE  LedgerOf(r)'
  BY <1>1, <1>2 DEF LedgerOf, Over, Active, Polling
<1>3. ASSUME NEW p \in Proc, Begin(p) PROVE LedgerOf(r)'
  <2>1. CASE r # p
    BY <1>1, <1>3, <2>1 DEF LedgerOf, Begin, TypeOK
  <2>2. CASE r = p /\ pc'[r] = "exited"
    BY <2>2 DEF LedgerOf, Active, Polling
  <2>3. CASE r = p /\ pc'[r] # "exited"
    <3>1. pc[r] = "idle" /\ pc'[r] = Entry(r) /\ UNCHANGED <<cur, answer, retval>>
      BY <1>3, <2>3 DEF Begin, TypeOK
    <3>2. pc'[r] # "idle"
      BY <3>1 DEF Entry, XferEntry
    <3>3. QED
      BY <1>1, <3>1, <3>2 DEF LedgerOf
  <2>4. QED
    BY <2>1, <2>2, <2>3
<1>4. ASSUME NEW p \in Proc, CheckTemp(p) PROVE LedgerOf(r)'
  <2>1. CASE r # p
    <3>1. /\ pc'[r] = pc[r] /\ cur'[r] = cur[r] /\ retval'[r] = retval[r]
          /\ \A q \in Quantity : answer'[r][q] = answer[r][q]
      BY <1>4, <2>1, JudgedStatus, JudgedAnswer DEF CheckTemp, TypeOK
    <3>2. QED
      BY <1>1, <3>1 DEF LedgerOf, Quantity
  <2>2. CASE r = p
    <3>1. pc[p] = "check" /\ cur[p] = "temp" /\ cur'[p] = "hum" /\ pc'[p] # "idle"
      BY <1>4 DEF CheckTemp, TypeOK, Entry, XferEntry
    <3>2. /\ answer'[p]["temp"].status = IF Acceptable(p) THEN "printed" ELSE "failed"
          /\ answer'[p]["hum"] = answer[p]["hum"]
          /\ retval'[p] = IF Acceptable(p) THEN retval[p] ELSE 1
      BY <1>4, <3>1, JudgedStatus, JudgedAnswer DEF CheckTemp, Quantity
    <3>3. retval[p] = 0 /\ answer[p]["hum"].status = "pending"
      BY <1>1, <2>2, <3>1 DEF LedgerOf, Active
    <3>4. QED
      BY <2>2, <3>1, <3>2, <3>3 DEF LedgerOf
  <2>3. QED
    BY <2>1, <2>2
<1>5. ASSUME NEW p \in Proc, CheckHum(p) PROVE LedgerOf(r)'
  <2>1. CASE r # p
    <3>1. /\ pc'[r] = pc[r] /\ cur'[r] = cur[r] /\ retval'[r] = retval[r]
          /\ \A q \in Quantity : answer'[r][q] = answer[r][q]
      BY <1>5, <2>1, JudgedStatus, JudgedAnswer DEF CheckHum, TypeOK
    <3>2. QED
      BY <1>1, <3>1 DEF LedgerOf, Quantity
  <2>2. CASE r = p
    <3>1. pc'[r] = "exited"
      BY <1>5, <2>2 DEF CheckHum, TypeOK
    <3>2. QED
      BY <3>1 DEF LedgerOf, Active, Polling
  <2>3. QED
    BY <2>1, <2>2
<1>6. ASSUME NEW p \in Proc, Step(p), ~CheckTemp(p), ~CheckHum(p) PROVE LedgerOf(r)'
  BY <1>2, <1>6, QuietStep
<1>7. ASSUME NEW p \in Proc, Kill(p) PROVE LedgerOf(r)'
  BY <1>2, <1>7 DEF Kill, TypeOK, Over
<1>8. CASE MeasureDone
  BY <1>2, <1>8 DEF MeasureDone
<1>9. CASE UNCHANGED vars
  BY <1>2, <1>9 DEF vars
<1>10. QED
  BY <1>3, <1>4, <1>5, <1>6, <1>7, <1>8, <1>9 DEF Next

(* An answer that stays the same is the same to the caller.                *)
LEMMA GivenKept ==
  ASSUME NEW r \in Proc, NEW q \in Quantity, answer'[r][q] = answer[r][q]
  PROVE  GivenFor(r, q)' = GivenFor(r, q)
BY DEF GivenFor

(* What main() gives its caller when it judges: the own answer, or a       *)
(* failure, or, if it shares the sensor, somebody else's answer.           *)
LEMMA JudgedGiven ==
  ASSUME TypeOK, PrintsOwn', UNCHANGED config,
         NEW p \in Proc, NEW q \in Quantity, q = cur[p], Judged(p)
  PROVE  /\ GivenFor(p, q)' \in {"own", "failed"}
                \cup IF ~Exclusive(p) THEN {"foreign"} ELSE {}
         /\ GivenFor(p, q)' = "failed" <=> ~Acceptable(p)
         /\ \A r \in Proc, x \in Quantity :
              r # p \/ x # q => GivenFor(r, x)' = GivenFor(r, x)
<1>1. answer'[p][q].status = IF Acceptable(p) THEN "printed" ELSE "failed"
  BY JudgedStatus
<1>2. Exclusive(p)' <=> Exclusive(p)
  BY DEF Exclusive
<1>3. /\ GivenFor(p, q)' \in {"own", "failed"}
              \cup IF ~Exclusive(p) THEN {"foreign"} ELSE {}
      /\ GivenFor(p, q)' = "failed" <=> ~Acceptable(p)
  <2>1. CASE Acceptable(p)
    <3>1. answer'[p][q].status = "printed"
      BY <1>1, <2>1
    <3>2. GivenFor(p, q)' \in {"own", "foreign"}
      BY <3>1 DEF GivenFor
    <3>3. Exclusive(p) =>
            answer'[p][q].frame = [job |-> [by |-> p, kind |-> q], quality |-> "clean"]
      BY <1>2, <3>1 DEF PrintsOwn, Exclusive
    <3>4. Exclusive(p) => answer'[p][q].frame.job = [by |-> p, kind |-> q]
      BY <3>3
    <3>5. Exclusive(p) => GivenFor(p, q)' = "own"
      BY <3>1, <3>4 DEF GivenFor
    <3>6. QED
      BY <2>1, <3>2, <3>5
  <2>2. CASE ~Acceptable(p)
    <3>1. GivenFor(p, q)' = "failed"
      BY <1>1, <2>2 DEF GivenFor
    <3>2. QED
      BY <2>2, <3>1
  <2>3. QED
    BY <2>1, <2>2
<1>4. ASSUME NEW r \in Proc, NEW x \in Quantity, r # p \/ x # q
      PROVE  GivenFor(r, x)' = GivenFor(r, x)
  BY <1>4, JudgedAnswer, GivenKept
<1>5. QED
  BY <1>3, <1>4

(* A delivery changes one entry of what has been given.                    *)
LEMMA DeliveredOne ==
  ASSUME NEW p \in Proc, NEW q \in Quantity,
         \A r \in Proc, x \in Quantity :
           r # p \/ x # q => GivenFor(r, x)' = GivenFor(r, x)
  PROVE  [r \in Proc |-> [x \in Quantity |-> GivenFor(r, x)]]'
           = [[r \in Proc |-> [x \in Quantity |-> GivenFor(r, x)]]
                EXCEPT ![p][q] = GivenFor(p, q)']
<1> DEFINE D == [r \in Proc |-> [x \in Quantity |-> GivenFor(r, x)]]
<1>1. \A r \in Proc : r # p => D'[r] = D[r]
  OBVIOUS
<1>2. D'[p] = [D[p] EXCEPT ![q] = GivenFor(p, q)']
  OBVIOUS
<1>3. D' = [D EXCEPT ![p] = [D[p] EXCEPT ![q] = GivenFor(p, q)']]
  BY <1>1, <1>2
<1>4. QED
  BY <1>3

(* One step of the exchange is one of the promise, or none: a start may    *)
(* make invocations share the sensor or be refused, each judgement is a    *)
(* delivery, the humidity's with the exit status, and a signal is one.     *)
LEMMA ImplementsNext ==
  ASSUME TypeOK, Ledger, PrintsOwn', [Next]_vars
  PROVE  [Abstract!Next]_(Abstract!vars)
<1> USE DEF Abstract!Next, Abstract!vars
<1> DEFINE D == [p \in Proc |-> [q \in Quantity |-> GivenFor(p, q)]]
           T == [p \in Proc |-> StatusOf(p)]
           H == [p \in Proc |-> ~Exclusive(p)]
<1>1. ASSUME UNCHANGED answer PROVE UNCHANGED D
  BY <1>1 DEF GivenFor
<1>2. ASSUME UNCHANGED config PROVE UNCHANGED H
  BY <1>2 DEF Exclusive
<1>3. ASSUME NEW p \in Proc, Begin(p) PROVE Abstract!Next
  <2>1. pc[p] = "idle" /\ UNCHANGED D
    BY <1>1, <1>3 DEF Begin
  <2>2. CASE pc' = [pc EXCEPT ![p] = Entry(p)] /\ Overlap(p) /\ UNCHANGED retval
    <3> DEFINE S == {q \in Proc : ~Exclusive(q)' /\ Exclusive(q)}
    <3>1. \A q \in Proc : Exclusive(q)' => Exclusive(q)
      BY <1>3, ExclusiveBefore DEF Next
    <3>2. \A q \in S : pc[q] \in Active \/ q = p
      BY <1>3, <2>2 DEF Begin, Overlap, Exclusive, TypeOK
    <3>3. S \in SUBSET {q \in Proc : T[q] = "running"}
      BY <2>1, <3>2 DEF StatusOf, Active, Polling
    <3>4. H' = [q \in Proc |-> H[q] \/ q \in S]
      BY <3>1
    <3>5. UNCHANGED T
      <4>1. Entry(p) \notin {"exited", "killed"}
        BY DEF Entry, XferEntry
      <4>2. \A q \in Proc : StatusOf(q)' = StatusOf(q)
        BY <2>1, <2>2, <4>1 DEF StatusOf, TypeOK
      <4>3. QED
        BY <4>2
    <3>6. Abstract!Share
      BY <2>1, <3>3, <3>4, <3>5 DEF Abstract!Share
    <3>7. QED
      BY <3>6
  <2>3. CASE /\ pc' = [pc EXCEPT ![p] = "exited"]
             /\ retval' = [retval EXCEPT ![p] = 1]
             /\ UNCHANGED overlapped
    <3>1. UNCHANGED H
      BY <1>2, <1>3, <2>3 DEF Begin
    <3>2. T[p] = "running" /\ \A q \in Abstract!Quantity : D[p][q] = "pending"
      BY <2>1 DEF Ledger, LedgerOf, StatusOf, GivenFor, Quantity, Abstract!Quantity
    <3>3. T' = [T EXCEPT ![p] = "failure"]
      <4>1. StatusOf(p)' = "failure"
        BY <2>3 DEF StatusOf, TypeOK
      <4>2. \A q \in Proc : q # p => StatusOf(q)' = StatusOf(q)
        BY <2>3 DEF StatusOf, TypeOK
      <4>3. QED
        BY <4>1, <4>2
    <3>4. Abstract!Refuse(p)
      BY <2>1, <3>1, <3>2, <3>3 DEF Abstract!Refuse
    <3>5. QED
      BY <3>4
  <2>4. QED
    BY <1>3, <2>2, <2>3 DEF Begin
<1>4. ASSUME NEW p \in Proc, CheckTemp(p) PROVE Abstract!Next
  <2>1. pc[p] = "check" /\ cur[p] = "temp" /\ Judged(p) /\ UNCHANGED config
    BY <1>4 DEF CheckTemp
  <2>2. "temp" \in Quantity
    BY DEF Quantity
  <2>3. UNCHANGED H
    BY <1>2, <2>1
  <2>4. UNCHANGED T
    <3>1. Entry(p) \notin {"exited", "killed"}
      BY DEF Entry, XferEntry
    <3>2. \A q \in Proc : StatusOf(q)' = StatusOf(q)
      BY <1>4, <2>1, <3>1, JudgedStatus DEF CheckTemp, StatusOf, TypeOK
    <3>3. QED
      BY <3>2
  <2>5. T[p] = "running" /\ D[p]["temp"] = "pending"
    BY <2>1, <2>2 DEF Ledger, LedgerOf, StatusOf, GivenFor, Active
  <2>6. D' = [D EXCEPT ![p]["temp"] = GivenFor(p, "temp")']
    BY <2>1, <2>2, JudgedGiven, DeliveredOne
  <2>7. GivenFor(p, "temp")' \in Abstract!Outcome(p)
    BY <2>1, <2>2, JudgedGiven DEF Abstract!Outcome
  <2>8. Abstract!DeliverTemp(p)
    BY <2>3, <2>4, <2>5, <2>6, <2>7 DEF Abstract!DeliverTemp
  <2>9. QED
    BY <2>8
<1>5. ASSUME NEW p \in Proc, CheckHum(p) PROVE Abstract!Next
  <2>1. /\ pc[p] = "check" /\ cur[p] = "hum" /\ Judged(p) /\ UNCHANGED config
        /\ pc' = [pc EXCEPT ![p] = "exited"]
    BY <1>5 DEF CheckHum
  <2>2. "hum" \in Quantity /\ "temp" \in Quantity
    BY DEF Quantity
  <2>3. UNCHANGED H
    BY <1>2, <2>1
  <2>4. /\ T[p] = "running" /\ D[p]["hum"] = "pending" /\ D[p]["temp"] # "pending"
        /\ retval[p] = IF D[p]["temp"] = "failed" THEN 1 ELSE 0
    BY <2>1, <2>2 DEF Ledger, LedgerOf, StatusOf, GivenFor, Active
  <2>5. D' = [D EXCEPT ![p]["hum"] = GivenFor(p, "hum")']
    BY <2>1, <2>2, JudgedGiven, DeliveredOne
  <2>6. GivenFor(p, "hum")' \in Abstract!Outcome(p)
    BY <2>1, <2>2, JudgedGiven DEF Abstract!Outcome
  <2>7. StatusOf(p)' = IF GivenFor(p, "hum")' # "failed" /\ D[p]["temp"] # "failed"
                       THEN "success" ELSE "failure"
    <3>1. GivenFor(p, "hum")' = "failed" <=> ~Acceptable(p)
      BY <2>1, <2>2, JudgedGiven
    <3>2. retval'[p] = IF Acceptable(p) THEN retval[p] ELSE 1
      BY <2>1, JudgedStatus
    <3>3. pc'[p] = "exited"
      BY <2>1 DEF TypeOK
    <3>4. QED
      BY <2>4, <3>1, <3>2, <3>3 DEF StatusOf
  <2>8. T' = [T EXCEPT ![p] = StatusOf(p)']
    <3>1. \A q \in Proc : q # p => StatusOf(q)' = StatusOf(q)
      BY <2>1, JudgedStatus DEF StatusOf, TypeOK
    <3>2. QED
      BY <3>1
  <2>9. Abstract!DeliverHum(p)
    BY <2>3, <2>4, <2>5, <2>6, <2>7, <2>8 DEF Abstract!DeliverHum
  <2>10. QED
    BY <2>9
<1>6. ASSUME NEW p \in Proc, Kill(p) PROVE Abstract!Next
  <2>1. pc[p] \in Active /\ pc' = [pc EXCEPT ![p] = "killed"]
        /\ UNCHANGED <<config, answer, retval>>
    BY <1>6 DEF Kill
  <2>2. T[p] = "running"
    BY <2>1 DEF StatusOf, Active, Polling
  <2>3. T' = [T EXCEPT ![p] = "killed"]
    BY <2>1 DEF StatusOf, TypeOK
  <2>4. Abstract!Kill(p)
    BY <1>1, <1>2, <2>1, <2>2, <2>3 DEF Abstract!Kill
  <2>5. QED
    BY <2>4
<1>7. ASSUME NEW p \in Proc, Step(p), ~CheckTemp(p), ~CheckHum(p)
      PROVE  UNCHANGED Abstract!vars
  <2>1. /\ pc[p] \in Active /\ pc'[p] \in Active
        /\ \A r \in Proc : r # p => pc'[r] = pc[r]
        /\ UNCHANGED <<config, report>>
    BY <1>7, QuietStep
  <2>2. \A q \in Proc : StatusOf(q)' = StatusOf(q)
    BY <2>1 DEF StatusOf, Active, Polling
  <2>3. UNCHANGED T
    BY <2>2
  <2>4. QED
    BY <1>1, <1>2, <2>1, <2>3
<1>8. CASE MeasureDone \/ UNCHANGED vars
  <2>1. UNCHANGED <<config, answer, retval, pc>>
    BY <1>8 DEF MeasureDone, vars
  <2>2. UNCHANGED T
    BY <2>1 DEF StatusOf
  <2>3. QED
    BY <1>1, <1>2, <2>1, <2>2
<1>9. QED
  BY <1>3, <1>4, <1>5, <1>6, <1>7, <1>8 DEF Next

(* The exchange, with any number of invocations, any options, failures and *)
(* signals, gives its callers what SensorQuery promises them: in order the *)
(* own answer or a failure, an answer of somebody else only to those that  *)
(* share the sensor without -H, and an exit status that accounts for both. *)
THEOREM Implements == Spec => ImplementsQuery
<1>1. Init => Abstract!Init
  <2> SUFFICES ASSUME Init PROVE Abstract!Init
    OBVIOUS
  <2>1. \A p \in Proc, q \in Quantity : GivenFor(p, q) = "pending"
    BY DEF Init, GivenFor, NoAnswer
  <2>2. \A p \in Proc : StatusOf(p) = "running"
    BY DEF Init, StatusOf
  <2>3. \A p \in Proc : Exclusive(p)
    BY DEF Init, Exclusive
  <2>4. [p \in Proc |-> [q \in Quantity |-> GivenFor(p, q)]]
          = [p \in Proc |-> [q \in Quantity |-> "pending"]]
    BY <2>1
  <2>5. [p \in Proc |-> StatusOf(p)] = [p \in Proc |-> "running"]
    BY <2>2
  <2>6. [p \in Proc |-> ~Exclusive(p)] = [p \in Proc |-> FALSE]
    BY <2>3, Zenon
  <2>7. QED
    BY <2>4, <2>5, <2>6 DEF Abstract!Init, Abstract!Quantity, Quantity
<1>2. Init => Ledger
  BY DEF Init, Ledger, LedgerOf, NoAnswer, Quantity
<1>3. Spec => []TypeOK /\ []PrintsOwn
  BY TypeCorrect, PrintsOwnAlways, PTL
<1>4. TypeOK /\ Ledger /\ [Next]_vars => Ledger'
  BY LedgerNext
<1>5. TypeOK /\ Ledger /\ PrintsOwn' /\ [Next]_vars => [Abstract!Next]_(Abstract!vars)
  BY ImplementsNext
<1>6. QED
  BY <1>1, <1>2, <1>3, <1>4, <1>5, PTL DEF Spec, ImplementsQuery, Abstract!Spec
=============================================================================
