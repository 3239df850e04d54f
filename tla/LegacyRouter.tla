----------------------------- MODULE LegacyRouter -----------------------------
(***************************************************************************)
(* The router /sensor-nodes (routes/sensor_nodes.js), an older copy of     *)
(* /users that app.js still mounts beside it, on the same rows.  Most of   *)
(* its handlers are those of users.js word for word; two are older: a      *)
(* controller is assigned by a SELECT and an UPDATE that does not repeat   *)
(* the test, and a zone is inserted without its alarm state.  It has no    *)
(* handler to take an item out of a zone or to delete one.                 *)
(***************************************************************************)
EXTENDS Inventory

OldAssign(r, u, b) ==
  /\ controller[b] = Null
  /\ Start(r, u, <<<<"setOwner", b>>>>)
  /\ UNCHANGED rows

(* The token that is to follow is never made: jwt is not imported, and the *)
(* answer is 500 although the controller has its owner.                    *)
SetOwner(r, b) ==
  /\ At(r, <<"setOwner", b>>)
  /\ controller' = [controller EXCEPT ![b] = req[r].user]
  /\ Go(r)
  /\ UNCHANGED <<greenhouse, zone, alarms, place, hub, logged, spent>>

(* One INSERT and no transaction.                                          *)
OldCreateZone(r, u, z, g) ==
  /\ greenhouse[g] = u
  /\ z \notin spent /\ \A y \in Zone \ spent : z <= y
  /\ spent' = spent \cup {z}
  /\ Start(r, u, <<<<"bareZone", z, g>>>>)
  /\ UNCHANGED <<greenhouse, controller, zone, alarms, place, hub, logged>>

BareZone(r, z, g) ==
  /\ At(r, <<"bareZone", z, g>>)
  /\ ForeignKeys => greenhouse[g] # Absent
  /\ zone' = [zone EXCEPT ![z] = [gh |-> g, ctl |-> Null]]
  /\ Go(r)
  /\ UNCHANGED <<greenhouse, controller, alarms, place, hub, logged, spent>>

(* The handlers the two routers share.                                     *)
OldCreateGreenhouse(r, u, g) == CreateGreenhouse(r, u, g)
OldChangeController(r, u, s, c) == ChangeController(r, u, s, c)
OldSensorAssignZone(r, u, s, z) == SensorAssignZone(r, u, s, z)
OldDeviceAssignZone(r, u, d, z) == DeviceAssignZone(r, u, d, z)
OldDeleteZone(r, u, z) == DeleteZone(r, u, z)
OldAssignZoneController(r, z, c) == AssignZoneController(r, z, c)
-------------------------------------------------------------------------------
OldHandle(r) ==
  \/ \E u \in User :
       \/ \E b \in Board : OldAssign(r, u, b)
       \/ \E g \in world.greenhouses :
            \/ OldCreateGreenhouse(r, u, g)
            \/ \E z \in Zone : OldCreateZone(r, u, z, g)
       \/ \E s \in Sensor, c \in Controller : OldChangeController(r, u, s, c)
       \/ \E z \in Zone :
            \/ OldDeleteZone(r, u, z)
            \/ \E i \in Item : \/ OldSensorAssignZone(r, u, i, z)
                               \/ OldDeviceAssignZone(r, u, i, z)
  \/ \E z \in Zone, c \in Controller \cup {Null} :
       OldAssignZoneController(r, z, c)

OldRun(r) ==
  \/ \E b \in Board : SetOwner(r, b)
  \/ \E z \in Zone, g \in Greenhouse : BareZone(r, z, g)

OldNext == /\ world.legacy
           /\ \E r \in world.clients : OldHandle(r) \/ OldRun(r)
           /\ UNCHANGED world

BothNext == Next \/ OldNext

BothSpec == Init /\ [][BothNext]_vars
===============================================================================
