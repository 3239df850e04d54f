------------------------------ MODULE Inventory ------------------------------
(***************************************************************************)
(* The rows of the backend's database that say what belongs to whom and    *)
(* what stands where, and the routes of users.js that change them.         *)
(*                                                                         *)
(* A request is answered by one handler.  Its first SELECT is the action   *)
(* that starts it; every later statement is a step of its own, because     *)
(* each is awaited and the pool runs them in transactions of their own:    *)
(* between any two of them other requests run, the statement may fail, or  *)
(* the server may stop.  A handler that gives up (4xx) changes nothing and *)
(* is not a step.                                                          *)
(*                                                                         *)
(* The repository holds no schema.  world.keys says whether the database   *)
(* refuses a statement that would leave a reference to a missing row.      *)
(***************************************************************************)
EXTENDS Naturals, Sequences

CONSTANTS
  User, Greenhouse,
  Zone,         \* ids of zones; a serial, never given twice
  Board,        \* controllers with a device_id
  Sensor, Device,
  Request,      \* requests that may be under way at the same time
  Null,         \* the value NULL
  Absent,       \* there is no such row
  World         \* the installations this is tried in, see Worlds

ASSUME ZoneAssumption == Zone \subseteq Nat
ASSUME NullAssumption == /\ Null # Absent /\ {Null, Absent} \cap User = {}
                         /\ {Null, Absent} \cap Zone = {}
                         /\ Null \notin Board \cup Greenhouse
                         /\ Absent \notin [gh : Greenhouse,
                                         ctl : Board \cup Greenhouse \cup {Null}]
ASSUME BoardAssumption == Board \cap Greenhouse = {}
ASSUME ItemAssumption == Sensor \cap Device = {}     \* rows of two tables

Item == Sensor \cup Device

(* How many requests overlap, what there is at most, whether the router    *)
(* /sensor-nodes is used too, whether there are foreign keys.              *)
Worlds == [clients : SUBSET Request, greenhouses : SUBSET Greenhouse,
           items : SUBSET Item, legacy : BOOLEAN, keys : BOOLEAN]

ASSUME WorldAssumption == World \subseteq Worlds

(* POST /greenhouses also inserts a controller without a device_id, which  *)
(* is named here after the greenhouse it came with.                        *)
Controller == Board \cup Greenhouse

VARIABLES
  world,        \* the installation; it does not change
  greenhouse,   \* Greenhouses.id_user
  controller,   \* Greenhouse_controllers.id_user
  zone,         \* Zones: id_greenhouse and id_greenhouse_controller
  alarms,       \* zones with a row in Zone_alarm_states
  place,        \* id_zone of Sensor_nodes and of End_devices
  hub,          \* id_greenhouse_controller of the same
  logged,       \* sensors with rows in htl_logs
  spent,        \* ids given out by the serials
  req           \* what each request still has to do

rows == <<greenhouse, controller, zone, alarms, place, hub, logged, spent>>
vars == <<world, rows, req>>

ZoneRow == [gh : Greenhouse, ctl : Controller \cup {Null}]

Statement ==
  ({"own"} \X Controller) \cup ({"zoneOf"} \X Sensor \X Controller)
    \cup ({"place"} \X Item \X (Zone \cup {Null}))
    \cup ({"move"} \X Sensor \X Zone)
    \cup ({"openZone"} \X Zone \X Greenhouse)
    \cup ({"clearSensors", "clearDevices", "dropZones"} \X SUBSET Zone)
    \cup ({"listZones", "drop", "openSpare"} \X Greenhouse)
    \cup ({"forget", "remove"} \X Item)
    \cup ({"report"} \X Item \X Controller \X BOOLEAN)
    \cup ({"setOwner"} \X Board) \cup ({"bareZone"} \X Zone \X Greenhouse)

ForeignKeys == world.keys
OneAtATime == \A q, r \in world.clients : q = r

Idle == [user |-> Null, todo |-> <<>>]

Init ==
  /\ world \in World
  /\ greenhouse = [g \in Greenhouse |-> Absent]
  /\ controller = [c \in Controller |-> Absent]
  /\ zone = [z \in Zone |-> Absent] /\ alarms = {}
  /\ place = [i \in Item |-> Absent] /\ hub = [i \in Item |-> Null]
  /\ logged = {} /\ spent = {}
  /\ req = [r \in Request |-> Idle]
------------------------------------------------------------------------------
(* The joins the handlers check ownership with.                            *)
OwnsZone(u, z) == zone[z] # Absent /\ greenhouse[zone[z].gh] = u

HoldsItem(u, i) == place[i] \in Zone /\ OwnsZone(u, place[i])

ThroughController(u, i) ==
  /\ place[i] \in Zone /\ zone[place[i]] # Absent
  /\ zone[place[i]].ctl # Null /\ controller[zone[place[i]].ctl] = u

(* A handler got past its checks and has these statements to run.          *)
Start(r, u, todo) ==
  /\ req[r] = Idle
  /\ req' = [req EXCEPT ![r] = [user |-> u, todo |-> todo]]

(* The request's next statement is st; the rest, or something else, is     *)
(* left to do afterwards.                                                  *)
At(r, st) == req[r].todo # <<>> /\ Head(req[r].todo) = st

Left(r, todo) ==
  req' = [req EXCEPT ![r] = IF todo = <<>> THEN Idle
                            ELSE [@ EXCEPT !.todo = todo]]

Go(r) == Left(r, Tail(req[r].todo))
------------------------------------------------------------------------------
(* Mutant: the owner is tested first and set by a statement of its own, as *)
(* the older router does it.                                               *)
AssignSettled(r, u, b) ==
  /\ controller[b] # Absent
  /\ controller' = [controller EXCEPT ![b] = u]
  /\ UNCHANGED <<greenhouse, zone, alarms, place, hub, logged, spent, req>>

(* One UPDATE tests and sets: WHERE ... AND id_user IS NULL.               *)
Assign(r, u, b) ==
  /\ req[r] = Idle /\ controller[b] = Null
  /\ controller' = [controller EXCEPT ![b] = u]
  /\ UNCHANGED <<greenhouse, zone, alarms, place, hub, logged, spent, req>>

RemoveController(r, u, b) ==
  /\ req[r] = Idle /\ controller[b] = u
  /\ controller' = [controller EXCEPT ![b] = Null]
  /\ UNCHANGED <<greenhouse, zone, alarms, place, hub, logged, spent, req>>

(* The first of two INSERTs.                                               *)
CreateGreenhouse(r, u, g) ==
  /\ g \notin spent
  /\ greenhouse' = [greenhouse EXCEPT ![g] = u]
  /\ spent' = spent \cup {g}
  /\ Start(r, u, <<<<"openSpare", g>>>>)
  /\ UNCHANGED <<controller, zone, alarms, place, hub, logged>>

(* The serial gives the smallest id not given before.                      *)
CreateZone(r, u, z, g) ==
  /\ greenhouse[g] = u
  /\ z \notin spent /\ \A y \in Zone \ spent : z <= y
  /\ spent' = spent \cup {z}
  /\ Start(r, u, <<<<"openZone", z, g>>>>)
  /\ UNCHANGED <<greenhouse, controller, zone, alarms, place, hub, logged>>

DeleteZone(r, u, z) ==
  /\ OwnsZone(u, z)
  /\ Start(r, u, << <<"clearSensors", {z}>>, <<"clearDevices", {z}>>,
                    <<"dropZones", {z}>> >>)
  /\ UNCHANGED rows

DeleteGreenhouse(r, u, g) ==
  /\ greenhouse[g] = u
  /\ Start(r, u, <<<<"listZones", g>>>>)
  /\ UNCHANGED rows

(* No check: any zone, any controller, or none when the body names none;   *)
(* an id there is no row for only if no key is in the way.                 *)
AssignZoneController(r, z, c) ==
  /\ req[r] = Idle /\ zone[z] # Absent
  /\ ForeignKeys /\ c # Null => controller[c] # Absent
  /\ zone' = [zone EXCEPT ![z].ctl = c]
  /\ UNCHANGED <<greenhouse, controller, alarms, place, hub, logged, spent,
                 req>>

(* Mutant: any zone will do, as for its controller.                        *)
PutAnywhere(r, u, i, z) ==
  /\ zone[z] # Absent
  /\ Start(r, u, <<<<"place", i, z>>>>)
  /\ UNCHANGED rows

(* Only the zone is checked; the item is the one the user picked from the  *)
(* list of unassigned ones.                                                *)
PutInZone(r, u, i, z) ==
  /\ OwnsZone(u, z)
  /\ Start(r, u, <<<<"place", i, z>>>>)
  /\ UNCHANGED rows

SensorAssignZone(r, u, s, z) == s \in Sensor /\ PutInZone(r, u, s, z)
DeviceAssignZone(r, u, d, z) == d \in Device /\ PutInZone(r, u, d, z)

TakeOutOfZone(r, u, i) ==
  /\ HoldsItem(u, i)
  /\ Start(r, u, <<<<"place", i, Null>>>>)
  /\ UNCHANGED rows

SensorUnassignZone(r, u, s) == s \in Sensor /\ TakeOutOfZone(r, u, s)
DeviceUnassignZone(r, u, d) == d \in Device /\ TakeOutOfZone(r, u, d)

(* Three SELECTs: the sensor, the new controller, its first zone.          *)
ChangeController(r, u, s, c) ==
  /\ ThroughController(u, s)
  /\ Start(r, u, << <<"own", c>>, <<"zoneOf", s, c>> >>)
  /\ UNCHANGED rows

(* Mutant: the sensor goes first.                                          *)
DeleteSensorFirst(r, u, s) ==
  /\ s \in Sensor /\ HoldsItem(u, s)
  /\ Start(r, u, << <<"remove", s>>, <<"forget", s>> >>)
  /\ UNCHANGED rows

DeleteSensor(r, u, s) ==
  /\ s \in Sensor /\ HoldsItem(u, s)
  /\ Start(r, u, << <<"forget", s>>, <<"remove", s>> >>)
  /\ UNCHANGED rows

DeleteDevice(r, u, d) ==
  /\ d \in Device /\ (HoldsItem(u, d) \/ place[d] = Null)
  /\ Start(r, u, <<<<"remove", d>>>>)
  /\ UNCHANGED rows

(* POST /devices: the controller is known from now on, without an owner.   *)
Announce(r, b) ==
  /\ req[r] = Idle /\ controller[b] = Absent
  /\ controller' = [controller EXCEPT ![b] = Null]
  /\ UNCHANGED <<greenhouse, zone, alarms, place, hub, logged, spent, req>>

(* POST /htl-logs has looked for the node and writes it, if it found none, *)
(* with the reading when it commits.                                       *)
Report(r, i, b) ==
  /\ controller[b] # Absent
  /\ Start(r, Null, <<<<"report", i, b, place[i] = Absent>>>>)
  /\ UNCHANGED rows
------------------------------------------------------------------------------
(* The statements after the first.                                         *)

(* INSERT INTO Greenhouse_controllers (id_user).                           *)
OpenSpare(r, g) ==
  /\ At(r, <<"openSpare", g>>)
  /\ controller' = [controller EXCEPT ![g] = req[r].user]
  /\ Go(r)
  /\ UNCHANGED <<greenhouse, zone, alarms, place, hub, logged, spent>>

(* COMMIT of the zone and of its alarm state.                              *)
OpenZone(r, z, g) ==
  /\ At(r, <<"openZone", z, g>>)
  /\ ForeignKeys => greenhouse[g] # Absent
  /\ zone' = [zone EXCEPT ![z] = [gh |-> g, ctl |-> Null]]
  /\ alarms' = alarms \cup {z}
  /\ Go(r)
  /\ UNCHANGED <<greenhouse, controller, place, hub, logged, spent>>

(* UPDATE ... SET id_zone: of no row when the item is gone.                *)
Update(r, i, z) ==
  /\ ForeignKeys /\ z # Null => zone[z] # Absent \/ place[i] = Absent
  /\ place' = [place EXCEPT ![i] = IF @ = Absent THEN Absent ELSE z]
  /\ Go(r)
  /\ UNCHANGED <<greenhouse, controller, zone, alarms, hub, logged, spent>>

Place(r, i, z) == At(r, <<"place", i, z>>) /\ Update(r, i, z)

Move(r, s, z) == At(r, <<"move", s, z>>) /\ Update(r, s, z)

Clear(r, what, kind, Z) ==
  /\ At(r, <<what, Z>>)
  /\ place' = [i \in Item |->
                 IF i \in kind /\ place[i] \in Z THEN Null ELSE place[i]]
  /\ Go(r)
  /\ UNCHANGED <<greenhouse, controller, zone, alarms, hub, logged, spent>>

ClearSensors(r, Z) == Clear(r, "clearSensors", Sensor, Z)
ClearDevices(r, Z) == Clear(r, "clearDevices", Device, Z)

DropZones(r, Z) ==
  /\ At(r, <<"dropZones", Z>>)
  /\ ForeignKeys => \A i \in Item : place[i] \notin Z
  /\ zone' = [z \in Zone |-> IF z \in Z THEN Absent ELSE zone[z]]
  /\ Go(r)
  /\ UNCHANGED <<greenhouse, controller, alarms, place, hub, logged, spent>>

ZonesIn(g) == {z \in Zone : zone[z] # Absent /\ zone[z].gh = g}

(* Mutant: devices keep their zone.                                        *)
ListZonesOnly(r, g) ==
  /\ At(r, <<"listZones", g>>)
  /\ Left(r, << <<"clearSensors", ZonesIn(g)>>, <<"dropZones", ZonesIn(g)>>,
                <<"drop", g>> >>)
  /\ UNCHANGED rows

(* The ids of the zones are read once; nothing is done for no zone.        *)
ListZones(r, g) ==
  /\ At(r, <<"listZones", g>>)
  /\ Left(r, IF ZonesIn(g) = {} THEN <<<<"drop", g>>>>
             ELSE << <<"clearSensors", ZonesIn(g)>>,
                     <<"clearDevices", ZonesIn(g)>>,
                     <<"dropZones", ZonesIn(g)>>, <<"drop", g>> >>)
  /\ UNCHANGED rows

DropGreenhouse(r, g) ==
  /\ At(r, <<"drop", g>>)
  /\ ForeignKeys => ZonesIn(g) = {}
  /\ greenhouse' = [greenhouse EXCEPT ![g] = Absent]
  /\ Go(r)
  /\ UNCHANGED <<controller, zone, alarms, place, hub, logged, spent>>

OwnController(r, c) ==
  /\ At(r, <<"own", c>>)
  /\ Left(r, IF controller[c] = req[r].user THEN Tail(req[r].todo) ELSE <<>>)
  /\ UNCHANGED rows

(* ORDER BY id_zone LIMIT 1.                                               *)
FirstZone(r, s, c) ==
  /\ At(r, <<"zoneOf", s, c>>)
  /\ LET Z == {z \in Zone : zone[z] # Absent /\ zone[z].ctl = c} IN
       Left(r, IF Z = {} THEN <<>>
               ELSE <<<<"move", s, CHOOSE z \in Z : \A y \in Z : z <= y>>>>)
  /\ UNCHANGED rows

Forget(r, s) ==
  /\ At(r, <<"forget", s>>)
  /\ logged' = logged \ {s}
  /\ Go(r)
  /\ UNCHANGED <<greenhouse, controller, zone, alarms, place, hub, spent>>

Remove(r, i) ==
  /\ At(r, <<"remove", i>>)
  /\ ForeignKeys => i \notin logged
  /\ place' = [place EXCEPT ![i] = Absent]
  /\ hub' = [hub EXCEPT ![i] = Null]
  /\ Go(r)
  /\ UNCHANGED <<greenhouse, controller, zone, alarms, logged, spent>>

(* The ids of nodes are their primary key.                                 *)
Commit(r, i, b, new) ==
  /\ At(r, <<"report", i, b, new>>)
  /\ IF new THEN place[i] = Absent ELSE ForeignKeys => place[i] # Absent
  /\ place' = [place EXCEPT ![i] = IF new THEN Null ELSE @]
  /\ hub' = [hub EXCEPT ![i] = IF new THEN b ELSE @]
  /\ logged' = IF i \in Sensor THEN logged \cup {i} ELSE logged
  /\ Go(r)
  /\ UNCHANGED <<greenhouse, controller, zone, alarms, spent>>

(* A statement fails, because of a key or for any other reason: the answer *)
(* is 500 and what was done before stays done.                             *)
Fail(r) == req[r] # Idle /\ Left(r, <<>>) /\ UNCHANGED rows
------------------------------------------------------------------------------
Handle(r) ==
  \/ \E u \in User :
       \/ \E b \in Board : Assign(r, u, b) \/ RemoveController(r, u, b)
       \/ \E g \in world.greenhouses :
            \/ CreateGreenhouse(r, u, g) \/ DeleteGreenhouse(r, u, g)
            \/ \E z \in Zone : CreateZone(r, u, z, g)
       \/ \E z \in Zone :
            \/ DeleteZone(r, u, z)
            \/ \E i \in Item : \/ SensorAssignZone(r, u, i, z)
                               \/ DeviceAssignZone(r, u, i, z)
       \/ \E i \in Item :
            \/ SensorUnassignZone(r, u, i) \/ DeviceUnassignZone(r, u, i)
            \/ DeleteSensor(r, u, i) \/ DeleteDevice(r, u, i)
       \/ \E s \in Sensor, c \in Controller : ChangeController(r, u, s, c)
  \/ \E z \in Zone, c \in Controller \cup {Null} :
       AssignZoneController(r, z, c)
  \/ \E b \in Board : Announce(r, b) \/ \E i \in world.items : Report(r, i, b)

Run(r) ==
  \/ \E g \in Greenhouse :
       \/ OpenSpare(r, g) \/ ListZones(r, g) \/ DropGreenhouse(r, g)
       \/ \E z \in Zone : OpenZone(r, z, g)
  \/ \E i \in Item, z \in Zone \cup {Null} : Place(r, i, z)
  \/ \E s \in Sensor, z \in Zone : Move(r, s, z)
  \/ \E Z \in SUBSET Zone :
       ClearSensors(r, Z) \/ ClearDevices(r, Z) \/ DropZones(r, Z)
  \/ \E c \in Controller :
       OwnController(r, c) \/ \E s \in Sensor : FirstZone(r, s, c)
  \/ \E i \in Item :
       \/ Forget(r, i) \/ Remove(r, i)
       \/ \E b \in Board, new \in BOOLEAN : Commit(r, i, b, new)
  \/ Fail(r)

Next == /\ \E r \in world.clients : Handle(r) \/ Run(r)
        /\ UNCHANGED world

Spec == Init /\ [][Next]_vars
------------------------------------------------------------------------------
TypeOK ==
  /\ world \in World
  /\ greenhouse \in [Greenhouse -> User \cup {Absent}]
  /\ controller \in [Controller -> User \cup {Null, Absent}]
  /\ zone \in [Zone -> ZoneRow \cup {Absent}] /\ alarms \subseteq Zone
  /\ place \in [Item -> Zone \cup {Null, Absent}]
  /\ hub \in [Item -> Controller \cup {Null}]
  /\ logged \subseteq Sensor /\ spent \subseteq Greenhouse \cup Zone
  /\ req \in [Request -> [user : User \cup {Null}, todo : Seq(Statement)]]
------------------------------------------------------------------------------
(* What the routes that only read show a user.                             *)
UnassignedSensors(u) ==
  {s \in Sensor : place[s] = Null /\ hub[s] # Null /\ controller[hub[s]] = u}

UnassignedDevices(u) ==
  {d \in Device : place[d] = Null /\ hub[d] # Null /\ controller[hub[d]] = u}

GreenhousesOf(u) == {g \in Greenhouse : greenhouse[g] = u}

ZonesOf(u, g) == {z \in ZonesIn(g) : greenhouse[g] = u}

AllZones(u) == {z \in Zone : OwnsZone(u, z)}

GreenhouseSensors(u, g) ==
  {s \in Sensor : greenhouse[g] = u /\ place[s] \in ZonesIn(g)}

GreenhouseDevices(g) == {d \in Device : place[d] \in ZonesIn(g)}

(* A node that has reported can be found by its owner: in the list of one  *)
(* of his greenhouses, or in the list of unassigned nodes of the owner of  *)
(* the controller it reported through, if that has one.  Deletions keep    *)
(* this true at every step, by the order of their statements, also when    *)
(* one of them fails, as long as no other request comes between them.      *)
NodesCanBeFound ==
  OneAtATime => \A i \in Item : place[i] # Absent =>
    \/ \E u \in User :
         \/ i \in UnassignedSensors(u) \cup UnassignedDevices(u)
         \/ \E g \in GreenhousesOf(u) :
              i \in GreenhouseSensors(u, g) \cup GreenhouseDevices(g)
    \/ place[i] = Null /\ controller[hub[i]] = Null

(* As long as no requests overlap, no zone is left behind without its      *)
(* greenhouse, no reading without its sensor.  And however they do, no     *)
(* zone is without its alarm state: zone_alarms.js only ever updates that  *)
(* row, and would never raise an alarm.  (Zones of the older router have   *)
(* none.)                                                                  *)
NothingLeftBehind ==
  /\ OneAtATime =>
       /\ \A z \in Zone : zone[z] # Absent => \E u \in User : z \in AllZones(u)
       /\ \A s \in logged : place[s] # Absent
  /\ ~world.legacy => \A z \in Zone : zone[z] # Absent => z \in alarms

(* What a handler has found out about zones and greenhouses before it runs *)
(* st for u: they are his, or gone by now.                                 *)
ZonesAreHis(u, st) ==
  LET Mine(z) == zone[z] = Absent \/ OwnsZone(u, z)
      His(g) == greenhouse[g] \in {u, Absent}
  IN /\ st[1] = "place" /\ st[3] # Null => Mine(st[3])
     /\ st[1] \in {"clearSensors", "clearDevices", "dropZones"} =>
          \A z \in st[2] : Mine(z)
     /\ st[1] \in {"listZones", "drop"} => His(st[2])
     /\ st[1] \in {"openZone", "bareZone"} => His(st[3])

(* What it has found out about nodes and controllers: the node is his to   *)
(* take out, move or delete, the controller is free, a reported node is    *)
(* new or not.                                                             *)
NodesAreHis(u, st) ==
  /\ st[1] = "place" /\ st[3] = Null => HoldsItem(u, st[2])
  /\ st[1] \in {"forget", "remove"} =>
       HoldsItem(u, st[2]) \/ (st[2] \in Device /\ place[st[2]] = Null)
  /\ st[1] \in {"zoneOf", "move"} => ThroughController(u, st[2])
  /\ st[1] = "move" => /\ zone[st[3]] # Absent /\ zone[st[3]].ctl # Null
                       /\ controller[zone[st[3]].ctl] = u
  /\ st[1] = "setOwner" => controller[st[2]] = Null
  /\ st[1] = "report" => (st[4] <=> place[st[2]] = Absent)

(* What a handler has checked about zones and greenhouses is still true    *)
(* when its statement runs, or the row it speaks of is gone, whatever      *)
(* other requests did meanwhile, if the database lets no reference dangle. *)
(* What it has checked about nodes and controllers is not: another user    *)
(* may have put the node into a zone of his before it is taken out of its  *)
(* zone, moved or deleted, and the older router may set the owner of a     *)
(* controller somebody else has just taken.  It is as long as no other     *)
(* request comes between; then the rest is too, without foreign keys.      *)
ChecksStayTrue ==
  /\ ForeignKeys \/ OneAtATime =>
       \A r \in Request : \A n \in DOMAIN req[r].todo :
         ZonesAreHis(req[r].user, req[r].todo[n])
  /\ OneAtATime =>
       \A r \in Request : \A n \in DOMAIN req[r].todo :
         NodesAreHis(req[r].user, req[r].todo[n])

(* A controller changes hands only after its owner has given it back, also *)
(* when users take it at the same time; through the older router only as   *)
(* long as they do not: what it has tested may have changed when it sets   *)
(* the owner (sensor_nodes.js:363).                                        *)
Settled == world.legacy => OneAtATime

ControllerCustody ==
  INSTANCE Custody WITH Thing <- Controller, Free <- Null,
    holder <- [c \in Controller |->
                 IF controller[c] # Absent /\ Settled THEN controller[c] ELSE Null]

ControllersAreInCustody == ControllerCustody!Spec
==============================================================================
