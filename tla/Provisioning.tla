---------------------------- MODULE Provisioning ----------------------------
(***************************************************************************)
(* GET /devices/zones/full: what the server answers to a controller that   *)
(* asks for its zones.  The answer is put together from one SELECT of the  *)
(* zones and two more for each of them, outside a transaction, while users *)
(* move devices and sensors and change limits and nodes report.            *)
(***************************************************************************)
EXTENDS Naturals, FiniteSets, Nodes

CONSTANTS Zone, Quantity,
          Value,      \* limits and readings, numbers other than 0
          Null, NoZone,
          MaxWrites   \* writes of users and nodes, a bound of the model

ASSUME ValueAssumption == Value \subseteq Nat \ {0}
ASSUME SensorAssumption == 0 \notin Sensor
ASSUME WritesAssumption == MaxWrites \in Nat
ASSUME NullAssumption == Null \notin Nat /\ NoZone \notin Zone

Limits == [up : Value \cup {Null}, down : Value \cup {Null}]
Unlimited == [up |-> Null, down |-> Null]

VARIABLES
  announced,   \* the controller's row is there
  token,       \* its device_token is the one the controller sends
  zones,       \* the zones of the controller
  sensorZone, deviceZone,    \* id_zone of Sensor_nodes and End_devices
  limits,      \* the six limits of an end device
  newest,      \* the latest row of htl_logs of a sensor
  writes,      \* writes so far, the clock of the log
  request,     \* the request under way
  result,      \* what it has put together
  dirty        \* ghost: rows written since it began

rows == <<announced, token, zones, sensorZone, deviceZone, limits, newest>>
answerVars == <<rows, writes, request, result, dirty>>

Idle == [at |-> "idle"]

AnswerInit ==
  /\ announced = FALSE /\ token = FALSE
  /\ zones \in SUBSET Zone
  /\ sensorZone \in [Sensor -> Zone \cup {NoZone}]
  /\ deviceZone \in [Device -> Zone \cup {NoZone}]
  /\ limits = [d \in Device |-> [q \in Quantity |-> Unlimited]]
  /\ newest = [s \in Sensor |-> [time |-> 0, value |-> 0]]
  /\ writes = 0 /\ request = Idle /\ result = <<>> /\ dirty = {}
------------------------------------------------------------------------------
(* The request.                                                            *)

(* POST /devices, the first request of a controller.                       *)
Announce ==
  /\ ~announced /\ announced' = TRUE
  /\ UNCHANGED <<token, zones, sensorZone, deviceZone, limits, newest,
                 writes, request, result, dirty>>

(* Nothing in the repository writes device_token: it is put into the       *)
(* database by hand.                                                       *)
SetToken ==
  /\ announced /\ ~token /\ token' = TRUE
  /\ UNCHANGED <<announced, zones, sensorZone, deviceZone, limits, newest,
                 writes, request, result, dirty>>

(* authenticateDevice: 403 without a row of that token.                    *)
RefuseController ==
  /\ request = Idle /\ ~token
  /\ request' = [at |-> "refused"] /\ result' = <<>>
  /\ UNCHANGED <<rows, writes, dirty>>

(* The zones, in the order the database has them.                          *)
SelectZones ==
  /\ request.at \in {"idle", "refused", "answered"} /\ token
  /\ request' = [at |-> "next", todo |-> zones, listed |-> zones]
  /\ result' = <<>> /\ dirty' = {}
  /\ UNCHANGED <<rows, writes>>

(* The latest reading of a sensor that is in the zone now; zeros and the   *)
(* id 0 if there is none.                                                  *)
NoReading == [sensor |-> 0, value |-> 0]

Latest(z) ==
  LET here == {s \in Sensor : sensorZone[s] = z /\ newest[s].time > 0} IN
  IF here = {} THEN NoReading
  ELSE LET s == CHOOSE s \in here :
                  \A t \in here : newest[t].time <= newest[s].time
       IN [sensor |-> s, value |-> newest[s].value]

SelectReading ==
  /\ request.at = "next"
  /\ \E z \in request.todo :
       request' = [at |-> "devices", todo |-> request.todo \ {z},
                   listed |-> request.listed, zone |-> z, reading |-> Latest(z)]
  /\ UNCHANGED <<rows, writes, result, dirty>>

(* A limit that is not set goes out as 0.                                  *)
OrZero(x) == IF x = Null THEN 0 ELSE x

(* Mutant: only devices with both limits.                                  *)
ListedBoth(z, q) ==
  {[device |-> d, up |-> OrZero(limits[d][q].up),
    down |-> OrZero(limits[d][q].down)] :
     d \in {d \in Device : deviceZone[d] = z /\ limits[d][q].up # Null
                             /\ limits[d][q].down # Null}}

(* The devices of the zone that have a limit of that quantity.             *)
Listed(z, q) ==
  {[device |-> d, up |-> OrZero(limits[d][q].up),
    down |-> OrZero(limits[d][q].down)] :
     d \in {d \in Device : deviceZone[d] = z /\ limits[d][q] # Unlimited}}

SelectDevices ==
  /\ request.at = "devices"
  /\ LET z == request.zone IN
       result' = [y \in (DOMAIN result) \cup {z} |->
                    IF y = z THEN [reading |-> request.reading,
                                   devices |-> [q \in Quantity |-> Listed(z, q)]]
                    ELSE result[y]]
  /\ request' = [at |-> "next", todo |-> request.todo,
                 listed |-> request.listed]
  /\ UNCHANGED <<rows, writes, dirty>>

Answer ==
  /\ request.at = "next" /\ request.todo = {}
  /\ request' = [at |-> "answered", listed |-> request.listed]
  /\ UNCHANGED <<rows, writes, result, dirty>>

(* The database fails: 500, of which the controller reads no zones.        *)
Fail ==
  /\ request.at \in {"next", "devices"}
  /\ request' = Idle /\ result' = <<>>
  /\ UNCHANGED <<rows, writes, dirty>>
------------------------------------------------------------------------------
(* The writes.                                                             *)

Wrote(what) ==
  /\ writes < MaxWrites /\ writes' = writes + 1
  /\ dirty' = dirty \cup {what}
  /\ UNCHANGED <<announced, token, request, result>>

(* POST /htl-logs.                                                         *)
LogReading(s, v) ==
  /\ Wrote(s)
  /\ newest' = [newest EXCEPT ![s] = [time |-> writes + 1, value |-> v]]
  /\ UNCHANGED <<zones, sensorZone, deviceZone, limits>>

(* POST /users/assign-zone and its withdrawal with the zone.               *)
MoveSensor(s, z) ==
  /\ Wrote(s)
  /\ sensorZone' = [sensorZone EXCEPT ![s] = z]
  /\ UNCHANGED <<zones, deviceZone, limits, newest>>

(* POST /users/end-devices/assign-zone and its withdrawal.                 *)
MoveDevice(d, z) ==
  /\ Wrote(d)
  /\ deviceZone' = [deviceZone EXCEPT ![d] = z]
  /\ UNCHANGED <<zones, sensorZone, limits, newest>>

(* POST /users/end-devices/update-params: 403 for a device in no zone; a   *)
(* limit left out is set to NULL.                                          *)
UpdateParams(d, new) ==
  /\ deviceZone[d] # NoZone
  /\ Wrote(d)
  /\ limits' = [limits EXCEPT ![d] = new]
  /\ UNCHANGED <<zones, sensorZone, deviceZone, newest>>

(* POST /users/zones/assign-controller: to another controller or to this.  *)
AssignController(z) ==
  /\ Wrote(z)
  /\ zones' = IF z \in zones THEN zones \ {z} ELSE zones \cup {z}
  /\ UNCHANGED <<sensorZone, deviceZone, limits, newest>>
------------------------------------------------------------------------------
AnyWrite ==
  \/ \E s \in Sensor, v \in Value : LogReading(s, v)
  \/ \E s \in Sensor, z \in Zone \cup {NoZone} : MoveSensor(s, z)
  \/ \E d \in Device, z \in Zone \cup {NoZone} : MoveDevice(d, z)
  \/ \E d \in Device, new \in [Quantity -> Limits] : UpdateParams(d, new)
  \/ \E z \in Zone : AssignController(z)

Request == SelectZones \/ SelectReading \/ SelectDevices \/ Answer

AnswerNext ==
  Announce \/ SetToken \/ RefuseController \/ Request \/ Fail \/ AnyWrite

AnswerSpec == AnswerInit /\ [][AnswerNext]_answerVars
------------------------------------------------------------------------------
Entry == [device : Device, up : Value \cup {0}, down : Value \cup {0}]

AnswerTypeOK ==
  /\ announced \in BOOLEAN /\ token \in BOOLEAN
  /\ zones \subseteq Zone
  /\ sensorZone \in [Sensor -> Zone \cup {NoZone}]
  /\ deviceZone \in [Device -> Zone \cup {NoZone}]
  /\ limits \in [Device -> [Quantity -> Limits]]
  /\ newest \in [Sensor -> [time : 0..MaxWrites, value : Value \cup {0}]]
  /\ writes \in 0..MaxWrites
  /\ request.at \in {"idle", "refused", "next", "devices", "answered"}
  /\ DOMAIN result \subseteq Zone
  /\ \A z \in DOMAIN result :
       /\ result[z].reading \in {NoReading} \cup [sensor : Sensor, value : Value]
       /\ \A q \in Quantity : result[z].devices[q] \subseteq Entry
  /\ dirty \subseteq Sensor \cup Device \cup Zone

DeviceIsExact ==
  \A d \in Device \ dirty, z \in request.listed, q \in Quantity :
    {e \in result[z].devices[q] : e.device = d}
      = IF deviceZone[d] # z \/ limits[d][q] = Unlimited THEN {}
        ELSE {[device |-> d, up |-> OrZero(limits[d][q].up),
               down |-> OrZero(limits[d][q].down)]}

ReadingIsTheZones ==
  dirty \cap Sensor = {} =>
    \A z \in request.listed :
      LET r == result[z].reading IN
      IF r.sensor = 0
        THEN \A s \in Sensor : sensorZone[s] = z => newest[s].time = 0
        ELSE /\ sensorZone[r.sensor] = z /\ newest[r.sensor].value = r.value
             /\ \A s \in Sensor : sensorZone[s] = z =>
                  newest[s].time <= newest[r.sensor].time

(* What is said of an end device that nobody touched while the answer was  *)
(* put together is exact, whatever happened to everything else: it is in   *)
(* the list of a quantity of a listed zone iff it is in that zone and has  *)
(* a limit of that quantity, and with its limits.  Only a device somebody  *)
(* moved meanwhile can be in two zones at once or in none.  And if no      *)
(* sensor was touched, the reading of each zone is the latest of the       *)
(* sensors that are in the zone.                                           *)
UntouchedIsExact ==
  request.at = "answered" => DeviceIsExact /\ ReadingIsTheZones
==============================================================================
