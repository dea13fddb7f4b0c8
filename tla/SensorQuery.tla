---------------------------- MODULE SensorQuery ----------------------------
(***************************************************************************)
(* What one run of the HTU21 query tool promises its caller, with nothing  *)
(* of the bus left: for the temperature and then the humidity it delivers  *)
(* either the sensor's answer to its own request or a failure, each once,  *)
(* and the exit status says whether both values were delivered.  A run     *)
(* that shares the sensor with another may be given that one's answer.     *)
(***************************************************************************)
CONSTANT Proc        \* invocations of the tool

VARIABLES
  delivered,         \* [Proc -> [Quantity -> what the caller has been given]]
  status,            \* [Proc -> how the invocation stands]
  shared             \* [Proc -> BOOLEAN] has it shared the sensor?

vars == <<delivered, status, shared>>

Quantity == {"temp", "hum"}

Init ==
  /\ delivered = [p \in Proc |-> [q \in Quantity |-> "pending"]]
  /\ status = [p \in Proc |-> "running"]
  /\ shared = [p \in Proc |-> FALSE]

(* Some of the runs get in each other's way.                               *)
Share ==
  /\ \E S \in SUBSET {p \in Proc : status[p] = "running"} :
       shared' = [p \in Proc |-> shared[p] \/ p \in S]
  /\ UNCHANGED <<delivered, status>>

Outcome(p) == {"own", "failed"} \cup IF shared[p] THEN {"foreign"} ELSE {}

(* The temperature is settled first, the run goes on whatever came of it.  *)
DeliverTemp(p) ==
  /\ status[p] = "running"
  /\ delivered[p]["temp"] = "pending"
  /\ \E res \in Outcome(p) :
       delivered' = [delivered EXCEPT ![p]["temp"] = res]
  /\ UNCHANGED <<status, shared>>

(* The humidity ends the run; the exit status accounts for both.           *)
DeliverHum(p) ==
  /\ status[p] = "running"
  /\ delivered[p]["temp"] # "pending"
  /\ delivered[p]["hum"] = "pending"
  /\ \E res \in Outcome(p) :
       /\ delivered' = [delivered EXCEPT ![p]["hum"] = res]
       /\ status' = [status EXCEPT ![p] =
            IF res # "failed" /\ delivered[p]["temp"] # "failed"
            THEN "success" ELSE "failure"]
  /\ UNCHANGED shared

(* The device cannot be opened: nothing is delivered.                      *)
Refuse(p) ==
  /\ status[p] = "running"
  /\ \A q \in Quantity : delivered[p][q] = "pending"
  /\ status' = [status EXCEPT ![p] = "failure"]
  /\ UNCHANGED <<delivered, shared>>

Kill(p) ==
  /\ status[p] = "running"
  /\ status' = [status EXCEPT ![p] = "killed"]
  /\ UNCHANGED <<delivered, shared>>

Next ==
  \/ Share
  \/ \E p \in Proc : DeliverTemp(p) \/ DeliverHum(p) \/ Refuse(p) \/ Kill(p)

Spec == Init /\ [][Next]_vars
=============================================================================
