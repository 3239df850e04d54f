---------------------------- MODULE SensorHealth ----------------------------
(***************************************************************************)
(* The offline mark of sensor nodes in the backend.  A cron job runs       *)
(* checkSensorsHealth every minute without waiting for the run before: it  *)
(* SELECTs the silent sensors once, then sends a push message and sets the *)
(* mark for one after the other, with an await for each.  POST /htl-logs   *)
(* stores a reading and clears the mark in one transaction (READ           *)
(* COMMITTED), whose UPDATE names only a node that is marked.              *)
(*                                                                         *)
(* The age of a sensor is the time since its last committed reading, no    *)
(* more than MaxAge, its owner's sensor_health_check_interval; a sensor    *)
(* that never reported has that age.                                       *)
(***************************************************************************)
EXTENDS Integers, Sequences, SequencesExt

CONSTANTS Sensors,
          Sweeps,        \* runs of checkSensorsHealth that may overlap
          MaxAge

ASSUME SensorsAssumption == IsFiniteSet(Sensors)
ASSUME AgeAssumption == MaxAge \in Nat \ {0}

VARIABLES
  age,        \* per sensor, see above
  is_offline, \* Sensor_nodes.is_offline
  report,     \* the transaction storing a reading: "none", "plain", or
              \* "clearing" when its UPDATE found the mark set
  sweep,      \* the sensors each run still has to handle
  pushed,     \* the run has sent the push for the first of them
  told,       \* ghost: a push was sent since the last reading
  refused,    \* ghost: the last step of a run was its failure
  disorder    \* ghost: a run has failed, or begun during another one

healthVars == <<age, is_offline, report, sweep, pushed, told, refused, disorder>>

HealthInit ==
  /\ age = [s \in Sensors |-> MaxAge] /\ is_offline = [s \in Sensors |-> FALSE]
  /\ report = [s \in Sensors |-> "none"]
  /\ sweep = [w \in Sweeps |-> <<>>] /\ pushed = [w \in Sweeps |-> FALSE]
  /\ told = [s \in Sensors |-> FALSE] /\ refused = FALSE
  /\ disorder = FALSE
-------------------------------------------------------------------------------
(* POST /htl-logs for a sensor node.                                       *)

(* INSERT and UPDATE, not committed yet.  The UPDATE locks a marked row.   *)
StoreReading(s) ==
  /\ report[s] = "none"
  /\ report' = [report EXCEPT ![s] = IF is_offline[s] THEN "clearing" ELSE "plain"]
  /\ UNCHANGED <<age, is_offline, sweep, pushed, told, refused, disorder>>

(* The row keeps its mark when the UPDATE found none, also if a run has    *)
(* set it since.                                                           *)
CommitReading(s) ==
  /\ report[s] # "none"
  /\ age' = [age EXCEPT ![s] = 0]
  /\ is_offline' = [is_offline EXCEPT ![s] = @ /\ report[s] = "plain"]
  /\ told' = [told EXCEPT ![s] = FALSE]
  /\ report' = [report EXCEPT ![s] = "none"]
  /\ UNCHANGED <<sweep, pushed, refused, disorder>>
-------------------------------------------------------------------------------
(* checkSensorsHealth.                                                     *)

(* Mutant: the wrong half of is_offline.                                   *)
SilentFlipped == {s \in Sensors : is_offline[s] /\ age[s] = MaxAge}

Silent == {s \in Sensors : ~is_offline[s] /\ age[s] = MaxAge}

(* The query names no order.                                               *)
BeginSweep(w) ==
  /\ sweep[w] = <<>>
  /\ \E list \in SetToSeqs(Silent) : sweep' = [sweep EXCEPT ![w] = list]
  /\ refused' = FALSE
  /\ disorder' = (disorder \/ \E v \in Sweeps : sweep[v] # <<>>)
  /\ UNCHANGED <<age, is_offline, report, pushed, told>>

Push(w) ==
  /\ sweep[w] # <<>> /\ ~pushed[w]
  /\ pushed' = [pushed EXCEPT ![w] = TRUE]
  /\ told' = [told EXCEPT ![Head(sweep[w])] = TRUE]
  /\ refused' = FALSE
  /\ UNCHANGED <<age, is_offline, report, sweep, disorder>>

(* Mutant: the UPDATE finds no row.                                        *)
MarkNothing(w) ==
  /\ pushed[w] /\ report[Head(sweep[w])] # "clearing"
  /\ sweep' = [sweep EXCEPT ![w] = Tail(@)]
  /\ pushed' = [pushed EXCEPT ![w] = FALSE]
  /\ refused' = FALSE
  /\ UNCHANGED <<age, is_offline, report, told, disorder>>

(* The UPDATE waits for a transaction that holds the row.                  *)
MarkOffline(w) ==
  /\ pushed[w] /\ report[Head(sweep[w])] # "clearing"
  /\ is_offline' = [is_offline EXCEPT ![Head(sweep[w])] = TRUE]
  /\ sweep' = [sweep EXCEPT ![w] = Tail(@)]
  /\ pushed' = [pushed EXCEPT ![w] = FALSE]
  /\ refused' = FALSE
  /\ UNCHANGED <<age, report, told, disorder>>

(* An exception, from the push or from the UPDATE, ends the run.           *)
SweepFails(w) ==
  /\ sweep[w] # <<>>
  /\ sweep' = [sweep EXCEPT ![w] = <<>>]
  /\ pushed' = [pushed EXCEPT ![w] = FALSE]
  /\ refused' = TRUE /\ disorder' = TRUE
  /\ UNCHANGED <<age, is_offline, report, told>>

Tick ==
  /\ age' = [s \in Sensors |-> IF age[s] = MaxAge THEN MaxAge ELSE age[s] + 1]
  /\ UNCHANGED <<is_offline, report, sweep, pushed, told, refused, disorder>>
-------------------------------------------------------------------------------
Continue(w) == Push(w) \/ MarkOffline(w) \/ SweepFails(w)

HealthNext ==
  \/ Tick
  \/ \E s \in Sensors : StoreReading(s) \/ CommitReading(s)
  \/ \E w \in Sweeps : BeginSweep(w) \/ Continue(w)

HealthSpec == HealthInit /\ [][HealthNext]_healthVars

(* Time passes, the cron job fires, and every await is answered, though    *)
(* not at once; UPDATEs waiting for a row get it in turn, hence strong     *)
(* fairness for them.  Sensors need not report.                            *)
HealthFairSpec ==
  /\ HealthSpec /\ WF_healthVars(Tick)
  /\ \A s \in Sensors : WF_healthVars(CommitReading(s))
  /\ \A w \in Sweeps : WF_healthVars(BeginSweep(w)) /\ SF_healthVars(Continue(w))
-------------------------------------------------------------------------------
HealthTypeOK ==
  /\ age \in [Sensors -> 0..MaxAge] /\ is_offline \in [Sensors -> BOOLEAN]
  /\ report \in [Sensors -> {"none", "plain", "clearing"}]
  /\ sweep \in [Sweeps -> Seq(Sensors)] /\ pushed \in [Sweeps -> BOOLEAN]
  /\ \A w \in Sweeps : /\ pushed[w] => sweep[w] # <<>>
                       /\ IsInjective(sweep[w])
  /\ told \in [Sensors -> BOOLEAN] /\ refused \in BOOLEAN
  /\ disorder \in BOOLEAN

(* As long as runs neither overlap nor fail they send one push for a       *)
(* silence, however the readings of the sensor race with the run.          *)
OnePushPerSilence ==
  [][\A w \in Sweeps : Push(w) /\ ~disorder => ~told[Head(sweep[w])]]_healthVars

(* A sensor that goes on reporting within its interval is online in the    *)
(* end, although a run may mark it from a stale list, and a reading may    *)
(* miss a mark set between its UPDATE and its COMMIT.                      *)
(* And one that has fallen silent for good is marked for good, unless runs *)
(* keep failing: one owner's refused push stands in the way of all.        *)
MarksSettle ==
  \A s \in Sensors :
    /\ <>[](age[s] < MaxAge) => <>[]~is_offline[s]
    /\ <>[](age[s] = MaxAge /\ report[s] = "none")
         => <>[]is_offline[s] \/ []<>refused
===============================================================================
