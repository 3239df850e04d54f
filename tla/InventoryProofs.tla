---------------------------- MODULE InventoryProofs ----------------------------
(***************************************************************************)
(* Theorems about the rows and the handlers of both routers, for any users,*)
(* rows and number of requests under way.                                  *)
(***************************************************************************)
EXTENDS LegacyRouter, WellFoundedInduction, SequenceTheorems, TLAPS

ReqType == [Request -> [user : User \cup {Null}, todo : Seq(Statement)]]
-------------------------------------------------------------------------------
(* Of numbers there is a least: < is well-founded.                         *)
LEMMA LeastNumber ==
  ASSUME NEW T \in SUBSET Nat, T # {}
  PROVE  \E x \in T : \A y \in T : x <= y
<1> DEFINE R == {p \in Nat \X Nat : p[1] < p[2]}
<1>1. IsWellFoundedOn(R, Nat)
  <2>1. R = OpToRel(<, Nat) BY DEF OpToRel
  <2> QED BY <2>1, NatLessThanWellFounded
<1> HIDE DEF R
<1>2. PICK x \in T : \A y \in T : ~(<<y, x>> \in R) BY <1>1, WFMin
<1>3. ASSUME NEW y \in T PROVE x <= y
  <2>1. ~(y < x) BY <1>2 DEF R
  <2> QED BY <2>1
<1> QED BY <1>3

LEMMA TheWorld ==
  ASSUME TypeOK
  PROVE  /\ world.clients \subseteq Request /\ world.greenhouses \subseteq Greenhouse
         /\ world.items \subseteq Item
BY WorldAssumption DEF TypeOK, Worlds

(* What a handler has to do is made of statements.                         *)
LEMMA Starting ==
  ASSUME TypeOK, NEW r \in Request, NEW u \in User \cup {Null},
         NEW todo \in Seq(Statement), Start(r, u, todo)
  PROVE  req' \in ReqType
BY DEF Start, TypeOK, ReqType

LEMMA Leaving ==
  ASSUME TypeOK, NEW r \in Request, NEW todo \in Seq(Statement), Left(r, todo)
  PROVE  req' \in ReqType
<1>1. Idle \in [user : User \cup {Null}, todo : Seq(Statement)]
  BY EmptySeq DEF Idle
<1>2. req[r] \in [user : User \cup {Null}, todo : Seq(Statement)]
  BY DEF TypeOK
<1>3. [req[r] EXCEPT !.todo = todo] \in [user : User \cup {Null}, todo : Seq(Statement)]
  BY <1>2
<1> QED BY <1>1, <1>3 DEF Left, TypeOK, ReqType

LEMMA Doing ==
  ASSUME TypeOK, NEW r \in Request, NEW st, At(r, st)
  PROVE  /\ st \in Statement /\ Tail(req[r].todo) \in Seq(Statement)
         /\ req[r].todo \in Seq(Statement) /\ req[r].todo # <<>>
         /\ req[r].todo[1] = st /\ req[r].user \in User \cup {Null}
         /\ Go(r) => req' \in ReqType
<1>1. /\ req[r].todo \in Seq(Statement) /\ req[r].todo # <<>> /\ Head(req[r].todo) = st
      /\ req[r].user \in User \cup {Null}
  BY DEF At, TypeOK
<1>2. /\ st \in Statement /\ Tail(req[r].todo) \in Seq(Statement) /\ req[r].todo[1] = st
  BY <1>1, HeadTailProperties
<1> QED BY <1>1, <1>2, Leaving DEF Go
-------------------------------------------------------------------------------
(* Handlers that are done after their first statement.                     *)
LEMMA AtOnceTypes ==
  ASSUME TypeOK, NEW r \in world.clients,
         \/ \E u \in User, b \in Board : Assign(r, u, b) \/ RemoveController(r, u, b)
         \/ \E z \in Zone, c \in Controller \cup {Null} : AssignZoneController(r, z, c)
         \/ \E b \in Board : Announce(r, b)
  PROVE  /\ greenhouse' \in [Greenhouse -> User \cup {Absent}]
         /\ controller' \in [Controller -> User \cup {Null, Absent}]
         /\ zone' \in [Zone -> ZoneRow \cup {Absent}]
         /\ UNCHANGED <<alarms, place, hub, logged, spent, req>>
<1>1. Board \subseteq Controller BY DEF Controller
<1>2. ASSUME NEW u \in User, NEW b \in Board, Assign(r, u, b) \/ RemoveController(r, u, b)
      PROVE  /\ controller' \in [Controller -> User \cup {Null, Absent}]
             /\ UNCHANGED <<greenhouse, zone, alarms, place, hub, logged, spent, req>>
  BY <1>1, <1>2 DEF Assign, RemoveController, TypeOK
<1>3. ASSUME NEW z \in Zone, NEW c \in Controller \cup {Null}, AssignZoneController(r, z, c)
      PROVE  /\ zone' \in [Zone -> ZoneRow \cup {Absent}]
             /\ UNCHANGED <<greenhouse, controller, alarms, place, hub, logged, spent, req>>
  <2>1. zone[z] \in ZoneRow BY <1>3 DEF AssignZoneController, TypeOK
  <2>2. [zone[z] EXCEPT !.ctl = c] \in ZoneRow BY <2>1 DEF ZoneRow
  <2> QED BY <1>3, <2>2 DEF AssignZoneController, TypeOK
<1>4. ASSUME NEW b \in Board, Announce(r, b)
      PROVE  /\ controller' \in [Controller -> User \cup {Null, Absent}]
             /\ UNCHANGED <<greenhouse, zone, alarms, place, hub, logged, spent, req>>
  BY <1>1, <1>4 DEF Announce, TypeOK
<1> QED BY <1>2, <1>3, <1>4 DEF TypeOK

(* The sequences handlers start with.                                      *)
LEMMA Sequences ==
  /\ \A a \in Statement : <<a>> \in Seq(Statement)
  /\ \A a, b \in Statement : <<a, b>> \in Seq(Statement)
  /\ \A a, b, c \in Statement : <<a, b, c>> \in Seq(Statement)
  /\ \A a, b, c, d \in Statement : <<a, b, c, d>> \in Seq(Statement)
OBVIOUS

LEMMA Statements ==
  /\ \A c \in Controller : <<"own", c>> \in Statement
  /\ \A s \in Sensor, c \in Controller : <<"zoneOf", s, c>> \in Statement
  /\ \A i \in Item, z \in Zone \cup {Null} : <<"place", i, z>> \in Statement
  /\ \A s \in Sensor, z \in Zone : <<"move", s, z>> \in Statement
  /\ \A z \in Zone, g \in Greenhouse : /\ <<"openZone", z, g>> \in Statement
                                       /\ <<"bareZone", z, g>> \in Statement
  /\ \A Z \in SUBSET Zone : /\ <<"clearSensors", Z>> \in Statement
                            /\ <<"clearDevices", Z>> \in Statement
                            /\ <<"dropZones", Z>> \in Statement
  /\ \A g \in Greenhouse : /\ <<"listZones", g>> \in Statement
                           /\ <<"drop", g>> \in Statement
                           /\ <<"openSpare", g>> \in Statement
  /\ \A i \in Item : <<"forget", i>> \in Statement /\ <<"remove", i>> \in Statement
  /\ \A i \in Item, b \in Controller, new \in BOOLEAN : <<"report", i, b, new>> \in Statement
  /\ \A b \in Board : <<"setOwner", b>> \in Statement
BY DEF Statement

(* Handlers whose first statement is a SELECT.                             *)
Selecting(r) ==
  \/ \E u \in User :
       \/ \E g \in world.greenhouses : DeleteGreenhouse(r, u, g)
       \/ \E z \in Zone : \/ DeleteZone(r, u, z)
                          \/ \E i \in Item : PutInZone(r, u, i, z)
       \/ \E i \in Item : \/ TakeOutOfZone(r, u, i)
                          \/ DeleteSensor(r, u, i) \/ DeleteDevice(r, u, i)
       \/ \E s \in Sensor, c \in Controller : ChangeController(r, u, s, c)
  \/ \E b \in Board, i \in world.items : Report(r, i, b)

(* Handlers that take a number of a serial.                                *)
Creating(r) ==
  \E u \in User, g \in world.greenhouses :
     \/ CreateGreenhouse(r, u, g)
     \/ \E z \in Zone : CreateZone(r, u, z, g) \/ OldCreateZone(r, u, z, g)

AtOnce(r) ==
  \/ \E u \in User, b \in Board : Assign(r, u, b) \/ RemoveController(r, u, b)
  \/ \E z \in Zone, c \in Controller \cup {Null} : AssignZoneController(r, z, c)
  \/ \E b \in Board : Announce(r, b)

LEMMA HandlersHere ==
  ASSUME NEW r, Handle(r)
  PROVE  AtOnce(r) \/ Selecting(r) \/ Creating(r)
BY DEF AtOnce, Selecting, Creating, Handle, SensorAssignZone, DeviceAssignZone,
   SensorUnassignZone, DeviceUnassignZone

LEMMA OldHandlersAre ==
  ASSUME NEW r, OldHandle(r)
  PROVE  \/ AtOnce(r) \/ Selecting(r) \/ Creating(r)
         \/ \E u \in User, b \in Board : OldAssign(r, u, b)
BY DEF AtOnce, Selecting, Creating, OldHandle, OldCreateGreenhouse, OldChangeController,
   OldSensorAssignZone, OldDeviceAssignZone, OldDeleteZone, OldAssignZoneController,
   SensorAssignZone, DeviceAssignZone

LEMMA SelectingTypes ==
  ASSUME TypeOK, NEW r \in world.clients, Selecting(r)
  PROVE  req' \in ReqType /\ UNCHANGED rows
<1>0. r \in Request /\ Sensor \subseteq Item /\ Board \subseteq Controller
  BY TheWorld DEF Item, Controller
<1>1. ASSUME NEW u \in User, NEW g \in Greenhouse, DeleteGreenhouse(r, u, g)
      PROVE  req' \in ReqType /\ UNCHANGED rows
  <2>1. <<<<"listZones", g>>>> \in Seq(Statement) BY Sequences, Statements
  <2> QED BY <1>0, <1>1, <2>1, Starting DEF DeleteGreenhouse
<1>2. ASSUME NEW u \in User, NEW z \in Zone, DeleteZone(r, u, z)
      PROVE  req' \in ReqType /\ UNCHANGED rows
  <2>1. << <<"clearSensors", {z}>>, <<"clearDevices", {z}>>, <<"dropZones", {z}>> >>
          \in Seq(Statement)
    BY Sequences, Statements
  <2> QED BY <1>0, <1>2, <2>1, Starting DEF DeleteZone
<1>3. ASSUME NEW u \in User, NEW z \in Zone, NEW i \in Item, PutInZone(r, u, i, z)
      PROVE  req' \in ReqType /\ UNCHANGED rows
  <2>1. <<<<"place", i, z>>>> \in Seq(Statement) BY Sequences, Statements
  <2> QED BY <1>0, <1>3, <2>1, Starting DEF PutInZone
<1>4. ASSUME NEW u \in User, NEW i \in Item, TakeOutOfZone(r, u, i)
      PROVE  req' \in ReqType /\ UNCHANGED rows
  <2>1. <<<<"place", i, Null>>>> \in Seq(Statement) BY Sequences, Statements
  <2> QED BY <1>0, <1>4, <2>1, Starting DEF TakeOutOfZone
<1>5. ASSUME NEW u \in User, NEW i \in Item, DeleteSensor(r, u, i)
      PROVE  req' \in ReqType /\ UNCHANGED rows
  <2>1. << <<"forget", i>>, <<"remove", i>> >> \in Seq(Statement)
    BY Sequences, Statements
  <2> QED BY <1>0, <1>5, <2>1, Starting DEF DeleteSensor
<1>6. ASSUME NEW u \in User, NEW i \in Item, DeleteDevice(r, u, i)
      PROVE  req' \in ReqType /\ UNCHANGED rows
  <2>1. <<<<"remove", i>>>> \in Seq(Statement) BY Sequences, Statements
  <2> QED BY <1>0, <1>6, <2>1, Starting DEF DeleteDevice
<1>7. ASSUME NEW u \in User, NEW s \in Sensor, NEW c \in Controller,
             ChangeController(r, u, s, c)
      PROVE  req' \in ReqType /\ UNCHANGED rows
  <2>1. << <<"own", c>>, <<"zoneOf", s, c>> >> \in Seq(Statement)
    BY Sequences, Statements
  <2> QED BY <1>0, <1>7, <2>1, Starting DEF ChangeController
<1>8. ASSUME NEW b \in Board, NEW i \in Item, Report(r, i, b)
      PROVE  req' \in ReqType /\ UNCHANGED rows
  <2>1. <<<<"report", i, b, place[i] = Absent>>>> \in Seq(Statement)
    BY <1>0, Sequences, Statements
  <2> QED BY <1>0, <1>8, <2>1, Starting DEF Report
<1> QED BY <1>1, <1>2, <1>3, <1>4, <1>5, <1>6, <1>7, <1>8, TheWorld DEF Selecting

LEMMA OldAssignTypes ==
  ASSUME TypeOK, NEW r \in world.clients, NEW u \in User, NEW b \in Board,
         OldAssign(r, u, b)
  PROVE  req' \in ReqType /\ UNCHANGED rows
<1>1. <<<<"setOwner", b>>>> \in Seq(Statement) BY Sequences, Statements
<1> QED BY <1>1, TheWorld, Starting DEF OldAssign

LEMMA CreatingTypes ==
  ASSUME TypeOK, NEW r \in world.clients, Creating(r)
  PROVE  /\ req' \in ReqType /\ greenhouse' \in [Greenhouse -> User \cup {Absent}]
         /\ spent' \subseteq Greenhouse \cup Zone
         /\ UNCHANGED <<controller, zone, alarms, place, hub, logged>>
<1>0. r \in Request /\ world.greenhouses \subseteq Greenhouse BY TheWorld
<1>1. PICK u \in User, g \in Greenhouse :
        \/ CreateGreenhouse(r, u, g)
        \/ \E z \in Zone : CreateZone(r, u, z, g) \/ OldCreateZone(r, u, z, g)
  BY <1>0 DEF Creating
<1>2. CASE CreateGreenhouse(r, u, g)
  <2>1. <<<<"openSpare", g>>>> \in Seq(Statement) BY Sequences, Statements
  <2> QED BY <1>0, <1>2, <2>1, Starting DEF CreateGreenhouse, TypeOK
<1>3. ASSUME NEW z \in Zone, CreateZone(r, u, z, g) \/ OldCreateZone(r, u, z, g)
      PROVE  /\ req' \in ReqType /\ spent' = spent \cup {z}
             /\ UNCHANGED <<greenhouse, controller, zone, alarms, place, hub, logged>>
  <2>1. /\ <<<<"openZone", z, g>>>> \in Seq(Statement)
        /\ <<<<"bareZone", z, g>>>> \in Seq(Statement)
    BY Sequences, Statements
  <2> QED BY <1>0, <1>3, <2>1, Starting DEF CreateZone, OldCreateZone
<1> QED BY <1>1, <1>2, <1>3 DEF TypeOK
-------------------------------------------------------------------------------
(* The statements.                                                         *)
Rows ==
  /\ greenhouse \in [Greenhouse -> User \cup {Absent}]
  /\ controller \in [Controller -> User \cup {Null, Absent}]
  /\ zone \in [Zone -> ZoneRow \cup {Absent}] /\ alarms \subseteq Zone
  /\ place \in [Item -> Zone \cup {Null, Absent}]
  /\ hub \in [Item -> Controller \cup {Null}]
  /\ logged \subseteq Sensor /\ spent \subseteq Greenhouse \cup Zone

LEMMA TypeIs == TypeOK <=> world \in World /\ Rows /\ req \in ReqType
BY DEF TypeOK, Rows, ReqType

(* Statements that change no row but what is left to do.                   *)
LEMMA LookingTypes ==
  ASSUME TypeOK, NEW r \in world.clients,
         \/ \E g \in Greenhouse : ListZones(r, g)
         \/ \E c \in Controller : OwnController(r, c) \/ \E s \in Sensor : FirstZone(r, s, c)
         \/ Fail(r)
  PROVE  req' \in ReqType /\ UNCHANGED rows
<1>0. r \in Request BY TheWorld
<1>1. ASSUME NEW g \in Greenhouse, ListZones(r, g)
      PROVE  req' \in ReqType /\ UNCHANGED rows
  <2> DEFINE Z == ZonesIn(g)
             todo == IF Z = {} THEN <<<<"drop", g>>>>
                     ELSE << <<"clearSensors", Z>>, <<"clearDevices", Z>>,
                             <<"dropZones", Z>>, <<"drop", g>> >>
  <2>1. Z \in SUBSET Zone BY DEF ZonesIn
  <2> HIDE DEF Z
  <2>2. todo \in Seq(Statement) BY <2>1, Sequences, Statements
  <2>3. Left(r, todo) /\ UNCHANGED rows BY <1>1 DEF ListZones, Z
  <2> HIDE DEF todo
  <2> QED BY <1>0, <2>2, <2>3, Leaving
<1>2. ASSUME NEW c \in Controller, OwnController(r, c)
      PROVE  req' \in ReqType /\ UNCHANGED rows
  <2>1. /\ Tail(req[r].todo) \in Seq(Statement) /\ <<>> \in Seq(Statement)
    BY <1>0, <1>2, Doing, EmptySeq DEF OwnController
  <2> QED BY <1>0, <1>2, <2>1, Leaving DEF OwnController
<1>3. ASSUME NEW s \in Sensor, NEW c \in Controller, FirstZone(r, s, c)
      PROVE  req' \in ReqType /\ UNCHANGED rows
  <2> DEFINE Z == {z \in Zone : zone[z] # Absent /\ zone[z].ctl = c}
             first == CHOOSE z \in Z : \A y \in Z : z <= y
             todo == IF Z = {} THEN <<>> ELSE <<<<"move", s, first>>>>
  <2>1. Left(r, todo) /\ UNCHANGED rows BY <1>3 DEF FirstZone
  <2>2. todo \in Seq(Statement)
    <3>1. CASE Z = {} BY <3>1, EmptySeq
    <3>2. CASE Z # {}
      <4>1. Z \in SUBSET Nat BY ZoneAssumption
      <4>2. \E z \in Z : \A y \in Z : z <= y
        <5> HIDE DEF Z
        <5> QED BY <3>2, <4>1, LeastNumber
      <4>3. first \in Z BY <4>2
      <4>4. first \in Zone BY <4>3
      <4> HIDE DEF first
      <4> QED BY <3>2, <4>4, Sequences, Statements
    <3> QED BY <3>1, <3>2
  <2> HIDE DEF todo
  <2> QED BY <1>0, <2>1, <2>2, Leaving
<1>4. CASE Fail(r)
  BY <1>0, <1>4, Leaving, EmptySeq DEF Fail
<1> QED BY <1>1, <1>2, <1>3, <1>4

Writing(r) ==
  \/ \E g \in Greenhouse : OpenSpare(r, g) \/ DropGreenhouse(r, g)
  \/ \E z \in Zone, g \in Greenhouse : OpenZone(r, z, g) \/ BareZone(r, z, g)
  \/ \E i \in Item, z \in Zone \cup {Null} : Place(r, i, z)
  \/ \E s \in Sensor, z \in Zone : Move(r, s, z)
  \/ \E Z \in SUBSET Zone : ClearSensors(r, Z) \/ ClearDevices(r, Z) \/ DropZones(r, Z)
  \/ \E i \in Item : Forget(r, i) \/ Remove(r, i)
  \/ \E i \in Item, b \in Board, new \in BOOLEAN : Commit(r, i, b, new)
  \/ \E b \in Board : SetOwner(r, b)

Looking(r) ==
  \/ \E g \in Greenhouse : ListZones(r, g)
  \/ \E c \in Controller : OwnController(r, c) \/ \E s \in Sensor : FirstZone(r, s, c)
  \/ Fail(r)

LEMMA StatementsAre ==
  ASSUME NEW r, Run(r) \/ OldRun(r)
  PROVE  Writing(r) \/ Looking(r)
BY DEF Run, OldRun, Writing, Looking

(* Each runs the statement at the head and leaves the rest.                *)
LEMMA WritingGoesOn ==
  ASSUME NEW r, Writing(r)
  PROVE  Go(r) /\ \E st : At(r, st)
<1>1. Go(r)
  BY DEF Writing, OpenSpare, DropGreenhouse, OpenZone, BareZone, Place, Move, Update,
     ClearSensors, ClearDevices, Clear, DropZones, Forget, Remove, Commit, SetOwner
<1>2. \E st : At(r, st)
  BY DEF Writing, OpenSpare, DropGreenhouse, OpenZone, BareZone, Place, Move,
     ClearSensors, ClearDevices, Clear, DropZones, Forget, Remove, Commit, SetOwner
<1> QED BY <1>1, <1>2

LEMMA WritingTypes ==
  ASSUME TypeOK, NEW r \in world.clients, Writing(r)
  PROVE  req' \in ReqType /\ Rows'
<1>0. r \in Request /\ Rows BY TheWorld, TypeIs
<1>1. req' \in ReqType BY <1>0, WritingGoesOn, Doing
<1>2. req[r].user \in User \cup {Null} BY <1>0 DEF TypeOK
<1>3. Greenhouse \subseteq Controller /\ Board \subseteq Controller /\ Sensor \subseteq Item
  BY DEF Controller, Item
<1>4. ASSUME NEW g \in Greenhouse, OpenSpare(r, g) PROVE Rows'
  BY <1>0, <1>2, <1>3, <1>4 DEF OpenSpare, Rows
<1>5. ASSUME NEW g \in Greenhouse, DropGreenhouse(r, g) PROVE Rows'
  BY <1>0, <1>5 DEF DropGreenhouse, Rows
<1>6. ASSUME NEW z \in Zone, NEW g \in Greenhouse, OpenZone(r, z, g) \/ BareZone(r, z, g)
      PROVE  Rows'
  <2>1. [gh |-> g, ctl |-> Null] \in ZoneRow BY DEF ZoneRow
  <2>2. zone' = [zone EXCEPT ![z] = [gh |-> g, ctl |-> Null]]
    BY <1>6 DEF OpenZone, BareZone
  <2>3. alarms' \subseteq Zone
    BY <1>0, <1>6 DEF OpenZone, BareZone, Rows
  <2>4. UNCHANGED <<greenhouse, controller, place, hub, logged, spent>>
    BY <1>6 DEF OpenZone, BareZone
  <2> QED BY <1>0, <2>1, <2>2, <2>3, <2>4 DEF Rows
<1>7. ASSUME NEW i \in Item, NEW z \in Zone \cup {Null}, Update(r, i, z) PROVE Rows'
  BY <1>0, <1>7 DEF Update, Rows
<1>8. ASSUME NEW kind, NEW what, NEW Z, Clear(r, what, kind, Z) PROVE Rows'
  BY <1>0, <1>8 DEF Clear, Rows
<1>9. ASSUME NEW Z \in SUBSET Zone, DropZones(r, Z) PROVE Rows'
  BY <1>0, <1>9 DEF DropZones, Rows
<1>10. ASSUME NEW i \in Item, Forget(r, i) \/ Remove(r, i) PROVE Rows'
  BY <1>0, <1>10 DEF Forget, Remove, Rows
<1>11. ASSUME NEW i \in Item, NEW b \in Board, NEW new \in BOOLEAN, Commit(r, i, b, new)
       PROVE  Rows'
  <2>1. /\ place' \in [Item -> Zone \cup {Null, Absent}]
        /\ hub' \in [Item -> Controller \cup {Null}]
    BY <1>0, <1>3, <1>11 DEF Commit, Rows
  <2>2. logged' \subseteq Sensor /\ UNCHANGED <<greenhouse, controller, zone, alarms, spent>>
    BY <1>0, <1>11 DEF Commit, Rows
  <2> QED BY <1>0, <2>1, <2>2 DEF Rows
<1>12. ASSUME NEW b \in Board, SetOwner(r, b) PROVE Rows'
  BY <1>0, <1>2, <1>3, <1>12 DEF SetOwner, Rows
<1> QED BY <1>1, <1>3, <1>4, <1>5, <1>6, <1>7, <1>8, <1>9, <1>10, <1>11, <1>12
        DEF Writing, Place, Move, ClearSensors, ClearDevices
-------------------------------------------------------------------------------
(* The steps of the whole.                                                 *)
LEMMA StepsAre ==
  ASSUME TypeOK, BothNext
  PROVE  /\ world' = world
         /\ \E r \in world.clients :
              \/ AtOnce(r) \/ Selecting(r) \/ Creating(r) \/ Looking(r) \/ Writing(r)
              \/ world.legacy /\ \E u \in User, b \in Board : OldAssign(r, u, b)
<1>1. world' = world BY DEF BothNext, Next, OldNext
<1>2. \E r \in world.clients :
        Handle(r) \/ Run(r) \/ (world.legacy /\ (OldHandle(r) \/ OldRun(r)))
  BY DEF BothNext, Next, OldNext
<1>3. PICK r \in world.clients :
        Handle(r) \/ Run(r) \/ (world.legacy /\ (OldHandle(r) \/ OldRun(r)))
  BY <1>2
<1>4. Run(r) \/ OldRun(r) => Writing(r) \/ Looking(r) BY StatementsAre
<1>5. Handle(r) => AtOnce(r) \/ Selecting(r) \/ Creating(r) BY HandlersHere
<1>6. OldHandle(r) => \/ AtOnce(r) \/ Selecting(r) \/ Creating(r)
                      \/ \E u \in User, b \in Board : OldAssign(r, u, b)
  BY OldHandlersAre
<1> QED BY <1>1, <1>3, <1>4, <1>5, <1>6

LEMMA InitTypes == Init => TypeOK
<1> SUFFICES ASSUME Init PROVE TypeOK OBVIOUS
<1>1. Idle \in [user : User \cup {Null}, todo : Seq(Statement)]
  BY EmptySeq DEF Idle
<1> QED BY <1>1 DEF Init, TypeOK

LEMMA TypeStep ==
  ASSUME TypeOK, BothNext
  PROVE  TypeOK'
<1>1. world' = world BY StepsAre
<1>2. PICK r \in world.clients :
        \/ AtOnce(r) \/ Selecting(r) \/ Creating(r) \/ Looking(r) \/ Writing(r)
        \/ \E u \in User, b \in Board : OldAssign(r, u, b)
  BY StepsAre
<1>3. Rows /\ req \in ReqType /\ world \in World BY TypeIs
<1>4. (Rows' /\ req' \in ReqType) => TypeOK'
  BY <1>1, <1>3 DEF TypeOK, Rows, ReqType
<1>5. CASE AtOnce(r)
  <2>1. /\ greenhouse' \in [Greenhouse -> User \cup {Absent}]
        /\ controller' \in [Controller -> User \cup {Null, Absent}]
        /\ zone' \in [Zone -> ZoneRow \cup {Absent}]
        /\ UNCHANGED <<alarms, place, hub, logged, spent, req>>
    BY <1>5, AtOnceTypes DEF AtOnce
  <2> QED BY <1>3, <1>4, <2>1 DEF Rows
<1>6. CASE Selecting(r)
  <2>1. req' \in ReqType /\ UNCHANGED rows BY <1>6, SelectingTypes
  <2> QED BY <1>3, <1>4, <2>1 DEF Rows, rows
<1>7. CASE Creating(r)
  BY <1>3, <1>4, <1>7, CreatingTypes DEF Rows
<1>8. CASE Looking(r)
  <2>1. req' \in ReqType /\ UNCHANGED rows BY <1>8, LookingTypes DEF Looking
  <2> QED BY <1>3, <1>4, <2>1 DEF Rows, rows
<1>9. CASE Writing(r) BY <1>4, <1>9, WritingTypes
<1>10. CASE \E u \in User, b \in Board : OldAssign(r, u, b)
  <2>1. req' \in ReqType /\ UNCHANGED rows BY <1>10, OldAssignTypes
  <2> QED BY <1>3, <1>4, <2>1 DEF Rows, rows
<1> QED BY <1>2, <1>5, <1>6, <1>7, <1>8, <1>9, <1>10

THEOREM TypesHold == BothSpec => []TypeOK
<1>1. TypeOK /\ UNCHANGED vars => TypeOK'
  BY DEF TypeOK, vars, rows
<1>2. TypeOK /\ [BothNext]_vars => TypeOK' BY <1>1, TypeStep
<1> QED BY InitTypes, <1>2, PTL DEF BothSpec
-------------------------------------------------------------------------------
(* Who owns a controller changes where a request runs a statement it found *)
(* allowed some steps ago: INSERT of the spare controller and, in the      *)
(* older router, UPDATE of the owner.  What such a request waits for:      *)
Opening(r, g) == req[r].todo = <<<<"openSpare", g>>>>
Setting(r, b) == req[r].todo = <<<<"setOwner", b>>>>

(* and, which matters further below, for opening a zone:                   *)
Opener(z, g) == {<<"openZone", z, g>>, <<"bareZone", z, g>>}
Zoning(r, z, g) == \E st \in Opener(z, g) : req[r].todo = <<st>>

Plain(todo) ==
  \A n \in DOMAIN todo :
    todo[n][1] \notin {"openSpare", "setOwner", "openZone", "bareZone"}

(* These statements are the only one of their request,                     *)
Alone ==
  \A r \in Request : \/ Plain(req[r].todo)
                     \/ \E g \in Greenhouse : Opening(r, g)
                     \/ \E b \in Board : Setting(r, b)
                     \/ \E z \in Zone, g \in Greenhouse : Zoning(r, z, g)

(* the controller of a greenhouse not yet created is not there,            *)
Unborn == \A g \in Greenhouse \ spent : controller[g] = Absent

(* nor the one a request is about to insert, which no other will insert,   *)
Reserved ==
  \A r \in Request, g \in Greenhouse : Opening(r, g) =>
    /\ req[r].user \in User /\ g \in spent /\ controller[g] = Absent
    /\ \A q \in Request : Opening(q, g) => q = r

(* and a controller about to be taken is still free if requests of the     *)
(* older router come one at a time.                                        *)
StillFree ==
  \A r \in Request, b \in Board : Setting(r, b) =>
    /\ req[r].user \in User /\ r \in world.clients /\ world.legacy
    /\ Settled => controller[b] = Null

IInv == TypeOK /\ Alone /\ Unborn /\ Reserved /\ StillFree

(* A step of r that leaves controllers alone and is followed by no         *)
(* statement that would not.                                               *)
PlainStep(r) ==
  /\ controller' = controller /\ spent \subseteq spent'
  /\ \E x : Plain(x.todo) /\ req' = [req EXCEPT ![r] = x]

LEMMA PlainStarting ==
  ASSUME TypeOK, NEW r \in Request, NEW u, NEW todo, Start(r, u, todo), Plain(todo)
  PROVE  \E x : Plain(x.todo) /\ req' = [req EXCEPT ![r] = x]
<1> DEFINE x == [user |-> u, todo |-> todo]
<1>1. Plain(x.todo) /\ req' = [req EXCEPT ![r] = x] BY DEF Start
<1> QED BY <1>1

LEMMA PlainLeaving ==
  ASSUME TypeOK, NEW r \in Request, NEW todo, Left(r, todo), Plain(todo)
  PROVE  \E x : Plain(x.todo) /\ req' = [req EXCEPT ![r] = x]
<1> DEFINE x == IF todo = <<>> THEN Idle ELSE [req[r] EXCEPT !.todo = todo]
<1>1. req' = [req EXCEPT ![r] = x] BY DEF Left
<1>2. x.todo = todo
  <2>1. req[r] \in [user : User \cup {Null}, todo : Seq(Statement)] BY DEF TypeOK
  <2>2. CASE todo = <<>> BY <2>2 DEF Idle
  <2>3. CASE todo # <<>> BY <2>1, <2>3
  <2> QED BY <2>2, <2>3
<1> QED BY <1>1, <1>2

(* What is left after a statement is plain.                                *)
LEMMA PlainTail ==
  ASSUME TypeOK, Alone, NEW r \in Request, req[r].todo # <<>>
  PROVE  Plain(Tail(req[r].todo))
<1> DEFINE todo == req[r].todo
<1>1. todo \in Seq(Statement) BY DEF TypeOK
<1>2. \/ Plain(todo) \/ \E st : todo = <<st>> BY DEF Alone, Opening, Setting, Zoning
<1>3. todo # <<>> OBVIOUS
<1> SUFFICES Plain(Tail(todo)) OBVIOUS
<1> HIDE DEF todo
<1>4. CASE Plain(todo)
  <2>1. /\ Tail(todo) \in Seq(Statement) /\ Len(Tail(todo)) = Len(todo) - 1
        /\ \A i \in 1 .. Len(Tail(todo)) : Tail(todo)[i] = todo[i + 1]
    BY <1>1, <1>3, HeadTailProperties
  <2>2. Len(todo) \in Nat /\ Len(Tail(todo)) \in Nat BY <1>1, <2>1, LenProperties
  <2>3. ASSUME NEW i \in 1 .. Len(Tail(todo))
        PROVE  Tail(todo)[i][1] \notin {"openSpare", "setOwner", "openZone", "bareZone"}
    <3>1. i + 1 \in 1 .. Len(todo) BY <2>1, <2>2
    <3>2. i + 1 \in DOMAIN todo BY <1>1, <3>1, LenProperties
    <3> QED BY <1>4, <2>1, <3>2 DEF Plain
  <2>4. DOMAIN Tail(todo) = 1 .. Len(Tail(todo)) BY <2>1, LenProperties
  <2> QED BY <2>3, <2>4 DEF Plain
<1>5. CASE \E st : todo = <<st>>
  <2>1. PICK st : todo = <<st>> BY <1>5
  <2>2. Tail(todo) = <<>> BY <2>1
  <2> QED BY <2>2 DEF Plain
<1> QED BY <1>2, <1>4, <1>5

(* One that is not plain is alone.                                         *)
LEMMA OnlyOne ==
  ASSUME TypeOK, Alone, NEW r \in Request, NEW st, At(r, st),
         st[1] \in {"openSpare", "setOwner", "openZone", "bareZone"}
  PROVE  req[r].todo = <<st>>
<1>1. req[r].todo[1] = st /\ req[r].todo # <<>> /\ req[r].todo \in Seq(Statement)
  BY Doing
<1>2. ~ Plain(req[r].todo)
  <2>1. 1 \in DOMAIN req[r].todo BY <1>1
  <2> QED BY <1>1, <2>1 DEF Plain
<1>3. PICK x : req[r].todo = <<x>> BY <1>2 DEF Alone, Opening, Setting, Zoning
<1> QED BY <1>1, <1>3

LEMMA PlainGoing ==
  ASSUME TypeOK, Alone, NEW r \in Request, NEW st, At(r, st), Go(r)
  PROVE  \E x : Plain(x.todo) /\ req' = [req EXCEPT ![r] = x]
<1>1. req[r].todo # <<>> BY DEF At
<1> QED BY <1>1, PlainTail, PlainLeaving DEF Go

(* Handlers that only look.                                                *)
LEMMA PlainSelecting ==
  ASSUME TypeOK, NEW r \in world.clients, Selecting(r)
  PROVE  PlainStep(r)
<1>0. r \in Request BY TheWorld
<1>1. UNCHANGED rows BY SelectingTypes
<1>2. \E u, todo : Start(r, u, todo) /\ Plain(todo)
  <2> USE DEF Plain
  <2>1. ASSUME NEW u \in User, NEW g, DeleteGreenhouse(r, u, g)
        PROVE  \E todo : Start(r, u, todo) /\ Plain(todo)
    BY <2>1 DEF DeleteGreenhouse
  <2>2. ASSUME NEW u \in User, NEW z, DeleteZone(r, u, z)
        PROVE  \E todo : Start(r, u, todo) /\ Plain(todo)
    BY <2>2 DEF DeleteZone
  <2>3. ASSUME NEW u \in User, NEW z, NEW i, PutInZone(r, u, i, z)
        PROVE  \E todo : Start(r, u, todo) /\ Plain(todo)
    BY <2>3 DEF PutInZone
  <2>4. ASSUME NEW u \in User, NEW i,
               TakeOutOfZone(r, u, i) \/ DeleteSensor(r, u, i) \/ DeleteDevice(r, u, i)
        PROVE  \E todo : Start(r, u, todo) /\ Plain(todo)
    BY <2>4 DEF TakeOutOfZone, DeleteSensor, DeleteDevice
  <2>5. ASSUME NEW u \in User, NEW s, NEW c, ChangeController(r, u, s, c)
        PROVE  \E todo : Start(r, u, todo) /\ Plain(todo)
    BY <2>5 DEF ChangeController
  <2>6. ASSUME NEW b, NEW i, Report(r, i, b)
        PROVE  \E todo : Start(r, Null, todo) /\ Plain(todo)
    BY <2>6 DEF Report
  <2> QED BY <2>1, <2>2, <2>3, <2>4, <2>5, <2>6 DEF Selecting
<1> QED BY <1>0, <1>1, <1>2, PlainStarting DEF PlainStep, rows

LEMMA PlainLooking ==
  ASSUME TypeOK, Alone, NEW r \in world.clients, Looking(r)
  PROVE  PlainStep(r)
<1>0. r \in Request BY TheWorld
<1>1. UNCHANGED rows BY LookingTypes DEF Looking
<1>2. Plain(<<>>) BY DEF Plain
<1>3. \E todo : Left(r, todo) /\ Plain(todo)
  <2>1. ASSUME NEW g, ListZones(r, g) PROVE \E todo : Left(r, todo) /\ Plain(todo)
    <3>1. \A Z : /\ Plain(<<<<"drop", g>>>>)
                 /\ Plain(<< <<"clearSensors", Z>>, <<"clearDevices", Z>>,
                             <<"dropZones", Z>>, <<"drop", g>> >>)
      BY DEF Plain
    <3> QED BY <2>1, <3>1 DEF ListZones
  <2>2. ASSUME NEW c, OwnController(r, c) PROVE \E todo : Left(r, todo) /\ Plain(todo)
    <3>1. Plain(Tail(req[r].todo)) BY <1>0, <2>2, PlainTail DEF OwnController, At
    <3> QED BY <1>2, <2>2, <3>1 DEF OwnController
  <2>3. ASSUME NEW s, NEW c, FirstZone(r, s, c) PROVE \E todo : Left(r, todo) /\ Plain(todo)
    <3>1. \A z : Plain(<<<<"move", s, z>>>>) BY DEF Plain
    <3> QED BY <1>2, <2>3, <3>1 DEF FirstZone
  <2>4. CASE Fail(r) BY <1>2, <2>4 DEF Fail
  <2> QED BY <2>1, <2>2, <2>3, <2>4 DEF Looking
<1> QED BY <1>0, <1>1, <1>3, PlainLeaving DEF PlainStep, rows

LEMMA PlainWriting ==
  ASSUME TypeOK, Alone, NEW r \in world.clients, Writing(r),
         ~ \E g \in Greenhouse : OpenSpare(r, g), ~ \E b \in Board : SetOwner(r, b)
  PROVE  PlainStep(r)
<1>1. controller' = controller /\ spent' = spent
  BY DEF Writing, DropGreenhouse, OpenZone, BareZone, Place, Move, Update,
     ClearSensors, ClearDevices, Clear, DropZones, Forget, Remove, Commit
<1> QED BY <1>1, TheWorld, WritingGoesOn, PlainGoing DEF PlainStep

(* So every step is plain, or one of these six.                            *)
LEMMA CustodySteps ==
  ASSUME TypeOK, Alone, BothNext
  PROVE  /\ world' = world
         /\ \E r \in world.clients :
              \/ AtOnce(r) \/ PlainStep(r)
              \/ \E u \in User, g \in Greenhouse : CreateGreenhouse(r, u, g)
              \/ \E u \in User, z \in Zone, g \in Greenhouse :
                   CreateZone(r, u, z, g) \/ OldCreateZone(r, u, z, g)
              \/ \E g \in Greenhouse : OpenSpare(r, g)
              \/ world.legacy /\ \E u \in User, b \in Board : OldAssign(r, u, b)
              \/ \E b \in Board : SetOwner(r, b)
<1>1. PICK r \in world.clients :
        \/ AtOnce(r) \/ Selecting(r) \/ Creating(r) \/ Looking(r) \/ Writing(r)
        \/ world.legacy /\ \E u \in User, b \in Board : OldAssign(r, u, b)
  BY StepsAre
<1>2. Creating(r) => \/ \E u \in User, g \in Greenhouse : CreateGreenhouse(r, u, g)
                     \/ \E u \in User, z \in Zone, g \in Greenhouse :
                          CreateZone(r, u, z, g) \/ OldCreateZone(r, u, z, g)
  BY TheWorld DEF Creating
<1> QED BY <1>1, <1>2, StepsAre, PlainSelecting, PlainLooking, PlainWriting

(* A request that is done, or plain, waits for none of the two statements. *)
LEMMA PlainWaits ==
  /\ \A r : Plain(req[r].todo) => /\ \A g : ~ Opening(r, g)
                                  /\ \A b : ~ Setting(r, b)
  /\ \A r : req[r] = Idle => Plain(req[r].todo)
BY DEF Plain, Opening, Setting, Idle

LEMMA PlainKeeps ==
  ASSUME IInv, world' = world, NEW r \in world.clients, PlainStep(r)
  PROVE  Alone' /\ Unborn' /\ Reserved' /\ StillFree'
<1>1. r \in Request /\ req \in ReqType BY TheWorld, TypeIs DEF IInv
<1>2. PICK x : Plain(x.todo) /\ req' = [req EXCEPT ![r] = x] BY DEF PlainStep
<1>3. /\ Plain(req'[r].todo)
      /\ \A q \in Request : q # r => req'[q] = req[q]
  BY <1>1, <1>2 DEF ReqType
<1>4. /\ \A g : req'[r].todo # <<<<"openSpare", g>>>>
      /\ \A b : req'[r].todo # <<<<"setOwner", b>>>>
  BY <1>3 DEF Plain
<1>5. controller' = controller /\ spent \subseteq spent' BY DEF PlainStep
<1>6. Alone' BY <1>3 DEF IInv, Alone, Opening, Setting, Zoning
<1>7. Unborn' BY <1>5 DEF IInv, Unborn
<1>8. Reserved' BY <1>3, <1>4, <1>5 DEF IInv, Reserved, Opening
<1>9. StillFree' BY <1>3, <1>4, <1>5 DEF IInv, StillFree, Setting, Settled, OneAtATime
<1> QED BY <1>6, <1>7, <1>8, <1>9

(* While requests of the older router come one at a time, none of them is  *)
(* between its test and its UPDATE when another begins.                    *)
LEMMA NoneSetting ==
  ASSUME IInv, Settled, NEW r \in world.clients, Plain(req[r].todo)
  PROVE  \A q \in Request, b \in Board : ~ Setting(q, b)
BY PlainWaits DEF IInv, StillFree, Settled, OneAtATime

LEMMA AtOnceKeeps ==
  ASSUME IInv, world' = world, NEW r \in world.clients, AtOnce(r)
  PROVE  Alone' /\ Unborn' /\ Reserved' /\ StillFree'
<1>1. req' = req /\ spent' = spent /\ req[r] = Idle
  BY DEF AtOnce, Assign, RemoveController, AssignZoneController, Announce
<1>2. \A g \in Greenhouse : controller'[g] = controller[g]
  <2>1. /\ controller \in [Controller -> User \cup {Null, Absent}]
        /\ Greenhouse \subseteq Controller
    BY DEF IInv, TypeOK, Controller
  <2> QED BY <2>1, BoardAssumption
          DEF AtOnce, Assign, RemoveController, AssignZoneController, Announce
<1>3. Alone' BY <1>1 DEF IInv, Alone, Opening, Setting, Zoning
<1>4. Unborn' BY <1>1, <1>2 DEF IInv, Unborn
<1>5. Reserved' BY <1>1, <1>2 DEF IInv, Reserved, Opening
<1>6. StillFree'
  <2>1. Settled' = Settled BY DEF Settled, OneAtATime
  <2>2. Settled => \A q \in Request, b \in Board : ~ Setting(q, b)
    BY <1>1, PlainWaits, NoneSetting
  <2> QED BY <1>1, <2>1, <2>2 DEF IInv, StillFree, Setting
<1> QED BY <1>3, <1>4, <1>5, <1>6

LEMMA CreateGreenhouseKeeps ==
  ASSUME IInv, world' = world, NEW r \in world.clients, NEW u \in User,
         NEW g \in Greenhouse, CreateGreenhouse(r, u, g)
  PROVE  Alone' /\ Unborn' /\ Reserved' /\ StillFree'
<1>1. r \in Request /\ req \in ReqType BY TheWorld, TypeIs DEF IInv
<1>2. /\ g \notin spent /\ spent' = spent \cup {g} /\ controller' = controller
      /\ req' = [req EXCEPT ![r] = [user |-> u, todo |-> <<<<"openSpare", g>>>>]]
  BY DEF CreateGreenhouse, Start
<1>3. /\ req'[r].todo = <<<<"openSpare", g>>>> /\ req'[r].user = u
      /\ \A q \in Request : q # r => req'[q] = req[q]
  BY <1>1, <1>2 DEF ReqType
<1>4. \A b : req'[r].todo # <<<<"setOwner", b>>>> BY <1>3
<1>5. \A h : req'[r].todo = <<<<"openSpare", h>>>> => h = g BY <1>3
<1>6. \A q \in Request : ~ Opening(q, g) BY <1>2 DEF IInv, Reserved
<1>7. Alone' BY <1>3 DEF IInv, Alone, Opening, Setting, Zoning
<1>8. Unborn' BY <1>2 DEF IInv, Unborn
<1>9. Reserved'
  <2>1. ASSUME NEW q \in Request, NEW h \in Greenhouse, Opening(q, h)'
        PROVE  /\ req'[q].user \in User /\ h \in spent' /\ controller'[h] = Absent
               /\ \A p \in Request : Opening(p, h)' => p = q
    <3>1. CASE q = r
      <4>1. h = g BY <1>5, <2>1, <3>1 DEF Opening
      <4>2. controller[g] = Absent BY <1>2 DEF IInv, Unborn
      <4> QED BY <1>2, <1>3, <1>6, <3>1, <4>1, <4>2 DEF Opening
    <3>2. CASE q # r
      <4>1. Opening(q, h) BY <1>3, <2>1, <3>2 DEF Opening
      <4>2. h # g BY <1>6, <4>1
      <4>3. ~ Opening(r, h)' BY <1>5, <4>2 DEF Opening
      <4> QED BY <1>2, <1>3, <3>2, <4>1, <4>3 DEF IInv, Reserved, Opening
    <3> QED BY <3>1, <3>2
  <2> QED BY <2>1 DEF Reserved
<1>10. StillFree' BY <1>2, <1>3, <1>4 DEF IInv, StillFree, Setting, Settled, OneAtATime
<1> QED BY <1>7, <1>8, <1>9, <1>10

LEMMA CreateZoneKeeps ==
  ASSUME IInv, world' = world, NEW r \in world.clients, NEW u \in User, NEW z \in Zone,
         NEW g \in Greenhouse, CreateZone(r, u, z, g) \/ OldCreateZone(r, u, z, g)
  PROVE  Alone' /\ Unborn' /\ Reserved' /\ StillFree'
<1>1. r \in Request /\ req \in ReqType BY TheWorld, TypeIs DEF IInv
<1>2. PICK st \in Opener(z, g) : req' = [req EXCEPT ![r] = [user |-> u, todo |-> <<st>>]]
  BY DEF CreateZone, OldCreateZone, Start, Opener
<1>3. controller' = controller /\ spent \subseteq spent'
  BY DEF CreateZone, OldCreateZone
<1>4. /\ req'[r].todo = <<st>>
      /\ \A q \in Request : q # r => req'[q] = req[q]
  BY <1>1, <1>2 DEF ReqType
<1>5. /\ \A h : req'[r].todo # <<<<"openSpare", h>>>>
      /\ \A b : req'[r].todo # <<<<"setOwner", b>>>>
  <2>1. st[1] \in {"openZone", "bareZone"} BY DEF Opener
  <2> QED BY <1>4, <2>1
<1>6. Alone' BY <1>4 DEF IInv, Alone, Opening, Setting, Zoning
<1>7. Unborn' BY <1>3 DEF IInv, Unborn
<1>8. Reserved' BY <1>3, <1>4, <1>5 DEF IInv, Reserved, Opening
<1>9. StillFree' BY <1>3, <1>4, <1>5 DEF IInv, StillFree, Setting, Settled, OneAtATime
<1> QED BY <1>6, <1>7, <1>8, <1>9

LEMMA OpenSpareKeeps ==
  ASSUME IInv, world' = world, NEW r \in world.clients, NEW g \in Greenhouse,
         OpenSpare(r, g)
  PROVE  /\ Alone' /\ Unborn' /\ Reserved' /\ StillFree'
         /\ Opening(r, g)
<1>0. TypeOK /\ Alone BY DEF IInv
<1>1. r \in Request /\ req \in ReqType BY <1>0, TheWorld, TypeIs
<1>2. /\ At(r, <<"openSpare", g>>) /\ Go(r) /\ spent' = spent
      /\ controller' = [controller EXCEPT ![g] = req[r].user]
  BY DEF OpenSpare
<1>3. Opening(r, g) BY <1>0, <1>1, <1>2, OnlyOne DEF Opening
<1>4. PICK x : Plain(x.todo) /\ req' = [req EXCEPT ![r] = x]
  BY <1>0, <1>1, <1>2, PlainGoing
<1>5. /\ Plain(req'[r].todo)
      /\ \A q \in Request : q # r => req'[q] = req[q]
  BY <1>1, <1>4 DEF ReqType
<1>6. /\ \A h : req'[r].todo # <<<<"openSpare", h>>>>
      /\ \A b : req'[r].todo # <<<<"setOwner", b>>>>
  BY <1>5 DEF Plain
<1>7. /\ g \in spent /\ \A q \in Request : Opening(q, g) => q = r
  BY <1>1, <1>3 DEF IInv, Reserved
<1>8. /\ \A c \in Controller : c # g => controller'[c] = controller[c]
      /\ Greenhouse \subseteq Controller /\ Board \subseteq Controller
  BY <1>0, <1>2 DEF TypeOK, Controller
<1>9. Alone' BY <1>5 DEF IInv, Alone, Opening, Setting, Zoning
<1>10. Unborn' BY <1>2, <1>7, <1>8 DEF IInv, Unborn
<1>11. Reserved' BY <1>2, <1>5, <1>6, <1>7, <1>8 DEF IInv, Reserved, Opening
<1>12. StillFree'
  <2>1. \A b \in Board : controller'[b] = controller[b] BY <1>8, BoardAssumption
  <2> QED BY <1>5, <1>6, <2>1 DEF IInv, StillFree, Setting, Settled, OneAtATime
<1> QED BY <1>3, <1>9, <1>10, <1>11, <1>12

LEMMA OldAssignKeeps ==
  ASSUME IInv, world' = world, world.legacy, NEW r \in world.clients, NEW u \in User,
         NEW b \in Board, OldAssign(r, u, b)
  PROVE  Alone' /\ Unborn' /\ Reserved' /\ StillFree'
<1>1. r \in Request /\ req \in ReqType BY TheWorld, TypeIs DEF IInv
<1>2. /\ controller[b] = Null /\ controller' = controller /\ spent' = spent
      /\ req' = [req EXCEPT ![r] = [user |-> u, todo |-> <<<<"setOwner", b>>>>]]
  BY DEF OldAssign, Start, rows
<1>3. /\ req'[r].todo = <<<<"setOwner", b>>>> /\ req'[r].user = u
      /\ \A q \in Request : q # r => req'[q] = req[q]
  BY <1>1, <1>2 DEF ReqType
<1>4. \A g : req'[r].todo # <<<<"openSpare", g>>>> BY <1>3
<1>5. \A c : req'[r].todo = <<<<"setOwner", c>>>> => c = b BY <1>3
<1>6. Alone' BY <1>3 DEF IInv, Alone, Opening, Setting, Zoning
<1>7. Unborn' BY <1>2 DEF IInv, Unborn
<1>8. Reserved' BY <1>2, <1>3, <1>4 DEF IInv, Reserved, Opening
<1>9. StillFree' BY <1>2, <1>3, <1>5 DEF IInv, StillFree, Setting, Settled, OneAtATime
<1> QED BY <1>6, <1>7, <1>8, <1>9

LEMMA SetOwnerKeeps ==
  ASSUME IInv, world' = world, NEW r \in world.clients, NEW b \in Board,
         SetOwner(r, b)
  PROVE  /\ Alone' /\ Unborn' /\ Reserved' /\ StillFree'
         /\ Setting(r, b)
<1>0. TypeOK /\ Alone BY DEF IInv
<1>1. r \in Request /\ req \in ReqType BY <1>0, TheWorld, TypeIs
<1>2. /\ At(r, <<"setOwner", b>>) /\ Go(r) /\ spent' = spent
      /\ controller' = [controller EXCEPT ![b] = req[r].user]
  BY DEF SetOwner
<1>3. Setting(r, b) BY <1>0, <1>1, <1>2, OnlyOne DEF Setting
<1>4. PICK x : Plain(x.todo) /\ req' = [req EXCEPT ![r] = x]
  BY <1>0, <1>1, <1>2, PlainGoing
<1>5. /\ Plain(req'[r].todo)
      /\ \A q \in Request : q # r => req'[q] = req[q]
  BY <1>1, <1>4 DEF ReqType
<1>6. /\ \A h : req'[r].todo # <<<<"openSpare", h>>>>
      /\ \A c : req'[r].todo # <<<<"setOwner", c>>>>
  BY <1>5 DEF Plain
<1>7. \A g \in Greenhouse : controller'[g] = controller[g]
  BY <1>0, <1>2, BoardAssumption DEF TypeOK, Controller
<1>8. Alone' BY <1>5 DEF IInv, Alone, Opening, Setting, Zoning
<1>9. Unborn' BY <1>2, <1>7 DEF IInv, Unborn
<1>10. Reserved' BY <1>2, <1>5, <1>6, <1>7 DEF IInv, Reserved, Opening
<1>11. StillFree'
  <2>1. ASSUME NEW q \in Request, NEW c \in Board, Setting(q, c)'
        PROVE  /\ req'[q].user \in User /\ q \in world'.clients /\ world'.legacy
               /\ ~ Settled'
    <3>1. q # r BY <1>6, <2>1 DEF Setting
    <3>2. Setting(q, c) /\ req'[q] = req[q] BY <1>5, <2>1, <3>1 DEF Setting
    <3>3. /\ req[q].user \in User /\ q \in world.clients /\ world.legacy
      BY <3>2 DEF IInv, StillFree
    <3> QED BY <3>1, <3>2, <3>3 DEF Settled, OneAtATime
  <2> QED BY <2>1 DEF StillFree
<1> QED BY <1>3, <1>8, <1>9, <1>10, <1>11

LEMMA InvInit == Init => IInv
<1> SUFFICES ASSUME Init PROVE IInv OBVIOUS
<1>1. \A r \in Request : req[r] = Idle BY DEF Init
<1>2. \A r \in Request : Plain(req[r].todo) BY <1>1, PlainWaits
<1>3. \A c \in Controller : controller[c] = Absent BY DEF Init
<1>4. Unborn BY <1>3 DEF Unborn, Controller
<1> QED BY <1>2, <1>4, InitTypes, PlainWaits DEF IInv, Alone, Reserved, StillFree

LEMMA InvStep == IInv /\ [BothNext]_vars => IInv'
<1>1. ASSUME IInv, BothNext PROVE IInv'
  <2>1. TypeOK /\ Alone /\ TypeOK' BY <1>1, TypeStep DEF IInv
  <2>2. world' = world BY <1>1, <2>1, CustodySteps
  <2>3. PICK r \in world.clients :
          \/ AtOnce(r) \/ PlainStep(r)
          \/ \E u \in User, g \in Greenhouse : CreateGreenhouse(r, u, g)
          \/ \E u \in User, z \in Zone, g \in Greenhouse :
               CreateZone(r, u, z, g) \/ OldCreateZone(r, u, z, g)
          \/ \E g \in Greenhouse : OpenSpare(r, g)
          \/ world.legacy /\ \E u \in User, b \in Board : OldAssign(r, u, b)
          \/ \E b \in Board : SetOwner(r, b)
    BY <1>1, <2>1, CustodySteps
  <2>4. Alone' /\ Unborn' /\ Reserved' /\ StillFree'
    BY <1>1, <2>2, <2>3, AtOnceKeeps, PlainKeeps, CreateGreenhouseKeeps, CreateZoneKeeps,
       OpenSpareKeeps, OldAssignKeeps, SetOwnerKeeps
  <2> QED BY <2>1, <2>4 DEF IInv
<1>2. ASSUME IInv, UNCHANGED vars PROVE IInv'
  BY <1>2 DEF IInv, vars, rows, TypeOK, Alone, Unborn, Reserved, StillFree, Opening,
     Setting, Zoning, Plain, Settled, OneAtATime
<1> QED BY <1>1, <1>2

LEMMA IInvHolds == BothSpec => []IInv
BY InvInit, InvStep, PTL DEF BothSpec
-------------------------------------------------------------------------------
Holder == [c \in Controller |->
             IF controller[c] # Absent /\ Settled THEN controller[c] ELSE Null]

LEMMA CustodyInit == Init => ControllerCustody!Init
BY DEF Init, ControllerCustody!Init

(* One controller gets an owner, or loses it.                              *)
LEMMA HoldersChange ==
  ASSUME TypeOK, world' = world, NEW c \in Controller, NEW w \in User \cup {Null},
         controller' = [controller EXCEPT ![c] = w]
  PROVE  Settled => Holder' = [Holder EXCEPT ![c] = w]
<1>1. Settled' = Settled BY DEF Settled, OneAtATime
<1>2. w # Absent BY NullAssumption
<1>3. controller \in [Controller -> User \cup {Null, Absent}] BY DEF TypeOK
<1> QED BY <1>1, <1>2, <1>3 DEF Holder

LEMMA CustodyStep == IInv /\ [BothNext]_vars => [ControllerCustody!Next]_Holder
<1> SUFFICES ASSUME IInv, [BothNext]_vars, Holder' # Holder PROVE ControllerCustody!Next
  OBVIOUS
<1>1. TypeOK /\ Alone BY DEF IInv
<1>2. BothNext /\ world' = world
  BY <1>1, CustodySteps DEF vars, rows, Holder, Settled, OneAtATime
<1>3. Settled
  BY <1>2 DEF Holder, Settled, OneAtATime
<1>4. controller' # controller
  BY <1>2 DEF Holder, Settled, OneAtATime
<1>5. Board \subseteq Controller /\ Greenhouse \subseteq Controller
  BY DEF Controller
<1>6. ASSUME NEW c \in Controller, NEW u \in User, Holder[c] = Null,
             controller' = [controller EXCEPT ![c] = u]
      PROVE  ControllerCustody!Next
  <2>1. Holder' = [Holder EXCEPT ![c] = u] BY <1>1, <1>2, <1>3, <1>6, HoldersChange
  <2>2. ControllerCustody!Take(c, u) BY <1>6, <2>1 DEF ControllerCustody!Take, Holder
  <2> QED BY <2>2 DEF ControllerCustody!Next
<1>7. \A c \in Controller : controller[c] \in {Null, Absent} => Holder[c] = Null
  BY DEF Holder
<1>8. ~ \E r \in world.clients : PlainStep(r) BY <1>4 DEF PlainStep
<1>9. ASSUME NEW r, NEW u
      PROVE  /\ \A g : ~ CreateGreenhouse(r, u, g)
             /\ \A z, g : ~ (CreateZone(r, u, z, g) \/ OldCreateZone(r, u, z, g))
             /\ \A b : ~ OldAssign(r, u, b)
  <2>1. \A g : ~ CreateGreenhouse(r, u, g) BY <1>4 DEF CreateGreenhouse
  <2>2. \A z, g : ~ (CreateZone(r, u, z, g) \/ OldCreateZone(r, u, z, g))
    BY <1>4 DEF CreateZone, OldCreateZone
  <2>3. \A b : ~ OldAssign(r, u, b) BY <1>4 DEF OldAssign, rows
  <2> QED BY <2>1, <2>2, <2>3
<1>10. PICK r \in world.clients :
         \/ AtOnce(r) \/ \E g \in Greenhouse : OpenSpare(r, g)
         \/ \E b \in Board : SetOwner(r, b)
  BY <1>1, <1>2, <1>8, <1>9, CustodySteps
<1>11. ASSUME NEW u \in User, NEW b \in Board, Assign(r, u, b)
       PROVE  ControllerCustody!Next
  BY <1>5, <1>6, <1>7, <1>11 DEF Assign
<1>12. ASSUME NEW u \in User, NEW b \in Board, RemoveController(r, u, b)
       PROVE  ControllerCustody!Next
  <2>1. controller[b] = u /\ controller' = [controller EXCEPT ![b] = Null]
    BY <1>12 DEF RemoveController
  <2>2. Holder' = [Holder EXCEPT ![b] = Null]
    BY <1>1, <1>2, <1>3, <1>5, <2>1, HoldersChange
  <2>3. Holder[b] # Null
    BY <1>3, <1>5, <2>1, NullAssumption DEF Holder
  <2>4. ControllerCustody!GiveBack(b)
    BY <2>2, <2>3 DEF ControllerCustody!GiveBack, Holder
  <2> QED BY <1>5, <2>4 DEF ControllerCustody!Next
<1>13. ASSUME NEW b \in Board, Announce(r, b)
       PROVE  ControllerCustody!Next
  <2>1. controller[b] = Absent /\ controller' = [controller EXCEPT ![b] = Null]
    BY <1>13 DEF Announce
  <2>2. Holder' = [Holder EXCEPT ![b] = Null]
    BY <1>1, <1>2, <1>3, <1>5, <2>1, HoldersChange
  <2>3. Holder[b] = Null BY <1>5, <1>7, <2>1
  <2>4. Holder' = Holder BY <1>5, <2>2, <2>3 DEF Holder
  <2> QED BY <2>4
<1>14. ASSUME NEW g \in Greenhouse, OpenSpare(r, g)
       PROVE  ControllerCustody!Next
  <2>1. Opening(r, g) /\ r \in Request
    BY <1>1, <1>2, <1>14, OpenSpareKeeps, TheWorld
  <2>2. req[r].user \in User /\ controller[g] = Absent BY <2>1 DEF IInv, Reserved
  <2> QED BY <1>5, <1>6, <1>7, <1>14, <2>2 DEF OpenSpare
<1>15. ASSUME NEW b \in Board, SetOwner(r, b)
       PROVE  ControllerCustody!Next
  <2>1. Setting(r, b) /\ r \in Request
    BY <1>1, <1>2, <1>15, SetOwnerKeeps, TheWorld
  <2>2. req[r].user \in User /\ controller[b] = Null BY <1>3, <2>1 DEF IInv, StillFree
  <2> QED BY <1>5, <1>6, <1>7, <1>15, <2>2 DEF SetOwner
<1>16. ~ \E z \in Zone, c \in Controller \cup {Null} : AssignZoneController(r, z, c)
  BY <1>4 DEF AssignZoneController
<1> QED BY <1>10, <1>11, <1>12, <1>13, <1>14, <1>15, <1>16 DEF AtOnce

(* A controller changes hands only after its owner has given it back, for  *)
(* any number of requests under way in any order; through the older router *)
(* as long as they come one at a time.                                     *)
THEOREM ControllersChangeHandsWhenFree == BothSpec => ControllersAreInCustody
<1>1. BothSpec => [][ControllerCustody!Next]_Holder
  BY IInvHolds, CustodyStep, PTL DEF BothSpec
<1>2. ControllersAreInCustody <=> ControllerCustody!Init /\ [][ControllerCustody!Next]_Holder
  BY DEF ControllersAreInCustody, ControllerCustody!Spec, Holder
<1> QED BY CustodyInit, <1>1, <1>2, PTL DEF BothSpec
-------------------------------------------------------------------------------
(* What a handler has checked stays true.  The database or the order of    *)
(* requests comes in only where zones are opened and greenhouses dropped   *)
(* (NoneDangles).                                                          *)
Mine(u, z) == zone[z] = Absent \/ OwnsZone(u, z)

Pending(r, z) == \E g \in Greenhouse : Zoning(r, z, g)

(* A zone that is the user's or gone, and does not come (again).           *)
Known(u, z) ==
  z \in spent /\ Mine(u, z) /\ \A q \in Request : ~ Pending(q, z)

(* What a statement speaks of is known to its user.                        *)
Good(u, st) ==
  /\ st[1] = "place" /\ st[3] # Null => Known(u, st[3])
  /\ st[1] \in {"clearSensors", "clearDevices", "dropZones"} =>
       \A z \in st[2] : Known(u, z)
  /\ st[1] \in {"listZones", "drop"} =>
       st[2] \in spent /\ greenhouse[st[2]] \in {u, Absent}
  /\ st[1] \in {"openZone", "bareZone"} =>
       st[3] \in spent /\ greenhouse[st[3]] \in {u, Absent}

Checked ==
  \A r \in Request : \A n \in DOMAIN req[r].todo : Good(req[r].user, req[r].todo[n])

(* Zones are in greenhouses, and all have had their number.                *)
Rooted == \A z \in Zone : zone[z] # Absent =>
            z \in spent /\ greenhouse[zone[z].gh] # Absent

Numbered == \A g \in Greenhouse : greenhouse[g] # Absent => g \in spent

(* A number is given once, and the zone is not there yet.                  *)
OpenOnce == \A r \in Request, z \in Zone : Pending(r, z) =>
              /\ z \in spent /\ zone[z] = Absent
              /\ \A q \in Request : Pending(q, z) => q = r

KInv == Checked /\ Rooted /\ Numbered /\ OpenOnce

Clearing == {"clearSensors", "clearDevices", "dropZones"}

LEMMA StatementParts ==
  ASSUME NEW st \in Statement
  PROVE  /\ st[1] = "place" => st[3] \in Zone \cup {Null}
         /\ st[1] \in Clearing => st[2] \in SUBSET Zone
         /\ st[1] \in {"listZones", "drop"} => st[2] \in Greenhouse
         /\ st[1] \in {"openZone", "bareZone"} => st[3] \in Greenhouse
BY DEF Statement, Clearing

(* Whose statements speak of nothing.                                      *)
LEMMA OtherTags ==
  ASSUME NEW u, NEW st,
         st[1] \notin Clearing \cup {"place", "listZones", "drop", "openZone", "bareZone"}
  PROVE  Good(u, st)
BY DEF Good, Clearing

(* A zone that is there is known to its owner.                             *)
LEMMA OwnedIsKnown ==
  ASSUME KInv, NEW u, NEW z \in Zone, OwnsZone(u, z)
  PROVE  Known(u, z)
BY DEF KInv, Rooted, OpenOnce, OwnsZone, Known, Mine

(* What the request has left to do after the step was good before it.      *)
GoodNext(r) == \A n \in DOMAIN req'[r].todo : Good(req'[r].user, req'[r].todo[n])

LEMMA GoodTail ==
  ASSUME TypeOK, KInv, NEW r \in Request, req[r].todo # <<>>, Go(r)
  PROVE  GoodNext(r)
<1> DEFINE todo == req[r].todo
           rest == Tail(req[r].todo)
<1>1. /\ req[r] \in [user : User \cup {Null}, todo : Seq(Statement)]
      /\ todo \in Seq(Statement) /\ todo # <<>> /\ req \in ReqType
  BY DEF TypeOK, ReqType
<1>2. /\ rest \in Seq(Statement) /\ Len(rest) = Len(todo) - 1
      /\ \A i \in 1 .. Len(rest) : rest[i] = todo[i + 1]
  BY <1>1, HeadTailProperties
<1>3. \A i \in DOMAIN rest : i + 1 \in DOMAIN todo /\ rest[i] = todo[i + 1]
  <2>1. DOMAIN rest = 1 .. Len(rest) /\ DOMAIN todo = 1 .. Len(todo) /\ Len(todo) \in Nat
    BY <1>1, <1>2, LenProperties
  <2> QED BY <1>2, <2>1
<1>4. \A i \in DOMAIN rest : Good(req[r].user, rest[i])
  BY <1>3 DEF KInv, Checked
<1>5. CASE rest = <<>>
  <2>1. req'[r] = Idle BY <1>1, <1>5 DEF Go, Left, ReqType
  <2> QED BY <2>1 DEF Idle, GoodNext
<1>6. CASE rest # <<>>
  <2>1. req'[r] = [req[r] EXCEPT !.todo = rest] BY <1>1, <1>6 DEF Go, Left, ReqType
  <2>2. req'[r].todo = rest /\ req'[r].user = req[r].user BY <1>1, <2>1
  <2> QED BY <1>4, <2>2 DEF GoodNext
<1> QED BY <1>5, <1>6

LEMMA GoodStart ==
  ASSUME TypeOK, NEW r \in Request, NEW u, NEW todo, Start(r, u, todo),
         \A n \in DOMAIN todo : Good(u, todo[n])
  PROVE  GoodNext(r)
BY DEF Start, GoodNext, TypeOK

LEMMA GoodSelecting ==
  ASSUME TypeOK, KInv, NEW r \in world.clients, Selecting(r)
  PROVE  GoodNext(r)
<1>0. r \in Request /\ world.greenhouses \subseteq Greenhouse BY TheWorld
<1>1. ASSUME NEW u \in User, NEW g \in Greenhouse, DeleteGreenhouse(r, u, g)
      PROVE  GoodNext(r)
  <2>1. greenhouse[g] = u /\ Start(r, u, <<<<"listZones", g>>>>)
    BY <1>1 DEF DeleteGreenhouse
  <2>2. g \in spent BY <2>1, NullAssumption DEF KInv, Numbered
  <2>3. Good(u, <<"listZones", g>>) BY <2>1, <2>2 DEF Good
  <2> QED BY <1>0, <2>1, <2>3, GoodStart
<1>2. ASSUME NEW u \in User, NEW z \in Zone, DeleteZone(r, u, z)
      PROVE  GoodNext(r)
  <2>1. Known(u, z) BY <1>2, OwnedIsKnown DEF DeleteZone
  <2>2. /\ Good(u, <<"clearSensors", {z}>>) /\ Good(u, <<"clearDevices", {z}>>)
        /\ Good(u, <<"dropZones", {z}>>)
    BY <2>1 DEF Good
  <2>3. Start(r, u, << <<"clearSensors", {z}>>, <<"clearDevices", {z}>>,
                       <<"dropZones", {z}>> >>)
    BY <1>2 DEF DeleteZone
  <2> QED BY <1>0, <2>2, <2>3, GoodStart
<1>3. ASSUME NEW u \in User, NEW z \in Zone, NEW i, PutInZone(r, u, i, z)
      PROVE  GoodNext(r)
  <2>1. Known(u, z) BY <1>3, OwnedIsKnown DEF PutInZone
  <2>2. Good(u, <<"place", i, z>>) BY <2>1 DEF Good
  <2> QED BY <1>0, <1>3, <2>2, GoodStart DEF PutInZone
<1>4. ASSUME NEW u \in User, NEW i, TakeOutOfZone(r, u, i)
      PROVE  GoodNext(r)
  <2>1. Good(u, <<"place", i, Null>>) BY DEF Good
  <2> QED BY <1>0, <1>4, <2>1, GoodStart DEF TakeOutOfZone
<1>5. \A u, i : Good(u, <<"remove", i>>) /\ Good(u, <<"forget", i>>)
  BY OtherTags DEF Clearing
<1>6. ASSUME NEW u \in User, NEW i, DeleteSensor(r, u, i)
      PROVE  GoodNext(r)
  BY <1>0, <1>5, <1>6, GoodStart DEF DeleteSensor
<1>7. ASSUME NEW u \in User, NEW i, DeleteDevice(r, u, i)
      PROVE  GoodNext(r)
  <2>1. Start(r, u, <<<<"remove", i>>>>) BY <1>7 DEF DeleteDevice
  <2>2. Good(u, <<"remove", i>>) BY <1>5
  <2> QED BY <1>0, <2>1, <2>2, GoodStart
<1>8. ASSUME NEW u \in User, NEW s, NEW c, ChangeController(r, u, s, c)
      PROVE  GoodNext(r)
  <2>1. Good(u, <<"own", c>>) /\ Good(u, <<"zoneOf", s, c>>) BY OtherTags DEF Clearing
  <2> QED BY <1>0, <1>8, <2>1, GoodStart DEF ChangeController
<1>9. ASSUME NEW b, NEW i, Report(r, i, b)
      PROVE  GoodNext(r)
  <2>1. Good(Null, <<"report", i, b, place[i] = Absent>>) BY OtherTags DEF Clearing
  <2> QED BY <1>0, <1>9, <2>1, GoodStart DEF Report
<1> QED BY <1>0, <1>1, <1>2, <1>3, <1>4, <1>6, <1>7, <1>8, <1>9 DEF Selecting

LEMMA GoodCreating ==
  ASSUME TypeOK, KInv, NEW r \in world.clients,
         Creating(r) \/ \E u \in User, b \in Board : OldAssign(r, u, b)
  PROVE  GoodNext(r)
<1> DEFINE Begun(u, st) == Start(r, u, <<st>>) /\ Good(u, st)
<1>1. PICK u, st : Begun(u, st)
  <2>1. \A u, g : CreateGreenhouse(r, u, g) => Begun(u, <<"openSpare", g>>)
    BY OtherTags DEF CreateGreenhouse, Clearing
  <2>2. ASSUME NEW u \in User, NEW z, NEW g \in Greenhouse,
               CreateZone(r, u, z, g) \/ OldCreateZone(r, u, z, g)
        PROVE  Begun(u, <<"openZone", z, g>>) \/ Begun(u, <<"bareZone", z, g>>)
    <3>1. PICK st \in Opener(z, g) : Start(r, u, <<st>>) /\ greenhouse[g] = u
      BY <2>2 DEF CreateZone, OldCreateZone, Opener
    <3>2. g \in spent BY <3>1, NullAssumption DEF KInv, Numbered
    <3>3. Good(u, st) BY <3>1, <3>2 DEF Good, Opener
    <3> QED BY <3>1, <3>3 DEF Opener
  <2>3. \A u, b : OldAssign(r, u, b) => Begun(u, <<"setOwner", b>>)
    BY OtherTags DEF OldAssign, Clearing
  <2> HIDE DEF Begun
  <2> QED BY <2>1, <2>2, <2>3, TheWorld DEF Creating
<1> QED BY <1>1, TheWorld, GoodStart

LEMMA GoodLooking ==
  ASSUME TypeOK, KInv, NEW r \in world.clients, Looking(r)
  PROVE  GoodNext(r)
<1>0. r \in Request /\ req \in ReqType BY TheWorld, TypeIs
<1>1. ASSUME NEW todo, Left(r, todo), \A n \in DOMAIN todo : Good(req[r].user, todo[n])
      PROVE  GoodNext(r)
  <2>1. CASE todo = <<>>
    <3>1. req'[r] = Idle BY <1>0, <1>1, <2>1 DEF Left, ReqType
    <3> QED BY <3>1 DEF Idle, GoodNext
  <2>2. CASE todo # <<>>
    <3>1. req'[r] = [req[r] EXCEPT !.todo = todo] BY <1>0, <1>1, <2>2 DEF Left, ReqType
    <3>2. req[r] \in [user : User \cup {Null}, todo : Seq(Statement)]
      BY <1>0 DEF ReqType
    <3>3. req'[r].todo = todo /\ req'[r].user = req[r].user BY <3>1, <3>2
    <3> QED BY <1>1, <3>3 DEF GoodNext
  <2> QED BY <2>1, <2>2
<1>2. ASSUME NEW g \in Greenhouse, ListZones(r, g) PROVE GoodNext(r)
  <2> DEFINE Z == ZonesIn(g)
             u == req[r].user
  <2>1. At(r, <<"listZones", g>>) BY <1>2 DEF ListZones
  <2>2. Good(u, <<"listZones", g>>)
    <3>1. req[r].todo[1] = <<"listZones", g>> /\ 1 \in DOMAIN req[r].todo
      BY <1>0, <2>1, Doing
    <3> QED BY <1>0, <3>1 DEF KInv, Checked
  <2>3. g \in spent /\ greenhouse[g] \in {u, Absent} BY <2>2 DEF Good
  <2>4. \A z \in Z : Known(u, z)
    <3>1. ASSUME NEW z \in Z PROVE Known(u, z)
      <4>1. z \in Zone /\ zone[z] # Absent /\ zone[z].gh = g BY DEF ZonesIn
      <4>2. greenhouse[g] = u BY <2>3, <4>1 DEF KInv, Rooted
      <4> QED BY <4>1, <4>2, OwnedIsKnown DEF OwnsZone
    <3> QED BY <3>1
  <2>5. /\ Good(u, <<"clearSensors", Z>>) /\ Good(u, <<"clearDevices", Z>>)
        /\ Good(u, <<"dropZones", Z>>)
    <3> HIDE DEF Z, u
    <3> QED BY <2>4 DEF Good
  <2>6. Good(u, <<"drop", g>>) BY <2>3 DEF Good
  <2>7. \/ Left(r, <<<<"drop", g>>>>)
        \/ Left(r, << <<"clearSensors", Z>>, <<"clearDevices", Z>>, <<"dropZones", Z>>,
                      <<"drop", g>> >>)
    BY <1>2 DEF ListZones
  <2> HIDE DEF Z
  <2>8. CASE Left(r, <<<<"drop", g>>>>) BY <1>1, <2>6, <2>8
  <2>9. CASE Left(r, << <<"clearSensors", Z>>, <<"clearDevices", Z>>, <<"dropZones", Z>>,
                        <<"drop", g>> >>)
    BY <1>1, <2>5, <2>6, <2>9
  <2> QED BY <2>7, <2>8, <2>9
<1>3. Left(r, <<>>) => GoodNext(r) BY <1>1
<1>4. ASSUME NEW c, OwnController(r, c) PROVE GoodNext(r)
  <2>1. req[r].todo # <<>> BY <1>4 DEF OwnController, At
  <2>2. Left(r, <<>>) \/ Go(r) BY <1>4 DEF OwnController, Go
  <2> QED BY <1>0, <1>3, <2>1, <2>2, GoodTail
<1>5. ASSUME NEW s, NEW c, FirstZone(r, s, c) PROVE GoodNext(r)
  <2>1. \E z : Left(r, <<>>) \/ Left(r, <<<<"move", s, z>>>>) BY <1>5 DEF FirstZone
  <2>2. \A z : Good(req[r].user, <<"move", s, z>>) BY OtherTags DEF Clearing
  <2> QED BY <1>1, <1>3, <2>1, <2>2
<1>6. CASE Fail(r) BY <1>3, <1>6 DEF Fail
<1> QED BY <1>2, <1>4, <1>5, <1>6 DEF Looking

LEMMA GoodStep ==
  ASSUME TypeOK, KInv, NEW r \in world.clients,
         \/ AtOnce(r) \/ Selecting(r) \/ Creating(r) \/ Looking(r) \/ Writing(r)
         \/ \E u \in User, b \in Board : OldAssign(r, u, b)
  PROVE  GoodNext(r)
<1>1. CASE AtOnce(r)
  <2>1. req' = req
    BY <1>1 DEF AtOnce, Assign, RemoveController, AssignZoneController, Announce
  <2> QED BY <2>1, TheWorld DEF GoodNext, KInv, Checked
<1>2. CASE Writing(r)
  <2>1. Go(r) /\ req[r].todo # <<>> BY <1>2, WritingGoesOn DEF At
  <2> QED BY <2>1, TheWorld, GoodTail
<1> QED BY <1>1, <1>2, GoodSelecting, GoodCreating, GoodLooking

(* What a step may do to zones and greenhouses.                            *)
Moves(r) ==
  /\ spent \subseteq spent'
  /\ \A g \in Greenhouse : \/ greenhouse'[g] = greenhouse[g]
                           \/ greenhouse'[g] = Absent
                           \/ g \notin spent /\ g \in spent'
  /\ \A z \in Zone : \/ zone'[z] = Absent
                     \/ zone[z] # Absent /\ zone'[z].gh = zone[z].gh
                     \/ Pending(r, z)
  /\ \A z \in Zone : zone'[z] # Absent =>
       /\ greenhouse'[zone'[z].gh] = greenhouse[zone'[z].gh]
       /\ greenhouse[zone'[z].gh] # Absent
  /\ \A q \in Request, z \in Zone : Pending(q, z)' =>
       \/ Pending(q, z) /\ q # r
       \/ q = r /\ z \notin spent /\ z \in spent' /\ zone' = zone

(* Steps after which r opens no zone.                                      *)
LEMMA NonePending ==
  ASSUME TypeOK, NEW r \in Request, Plain(req'[r].todo),
         \A q \in Request : q # r => req'[q] = req[q]
  PROVE  \A q \in Request, z \in Zone : Pending(q, z)' => Pending(q, z) /\ q # r
<1>1. \A st : req'[r].todo = <<st>> =>
        st[1] \notin {"openSpare", "setOwner", "openZone", "bareZone"}
  BY DEF Plain
<1>2. \A z \in Zone : ~ Pending(r, z)'
  BY <1>1 DEF Pending, Zoning, Opener
<1>3. \A q \in Request, z \in Zone : q # r => (Pending(q, z)' <=> Pending(q, z))
  BY DEF Pending, Zoning
<1> QED BY <1>2, <1>3

LEMMA PlainOthers ==
  ASSUME TypeOK, NEW r \in Request, \E x : Plain(x.todo) /\ req' = [req EXCEPT ![r] = x]
  PROVE  \A q \in Request, z \in Zone : Pending(q, z)' => Pending(q, z) /\ q # r
<1>1. PICK x : Plain(x.todo) /\ req' = [req EXCEPT ![r] = x] OBVIOUS
<1>2. Plain(req'[r].todo) /\ \A q \in Request : q # r => req'[q] = req[q]
  BY <1>1, TypeIs DEF ReqType
<1> QED BY <1>2, NonePending

(* Where greenhouses stay, and zones stay or go.                           *)
LEMMA StillRooted ==
  ASSUME KInv, greenhouse' = greenhouse,
         \A z \in Zone : \/ zone'[z] = Absent
                         \/ zone[z] # Absent /\ zone'[z].gh = zone[z].gh
  PROVE  \A z \in Zone : zone'[z] # Absent =>
           /\ greenhouse'[zone'[z].gh] = greenhouse[zone'[z].gh]
           /\ greenhouse[zone'[z].gh] # Absent
BY DEF KInv, Rooted

LEMMA AtOnceMoves ==
  ASSUME TypeOK, KInv, NEW r \in world.clients, AtOnce(r)
  PROVE  Moves(r)
<1>0. r \in Request BY TheWorld
<1>1. /\ req' = req /\ spent' = spent /\ req[r] = Idle /\ greenhouse' = greenhouse
  BY DEF AtOnce, Assign, RemoveController, AssignZoneController, Announce
<1>2. \A z \in Zone : \/ zone'[z] = Absent
                      \/ zone[z] # Absent /\ zone'[z].gh = zone[z].gh
  <2>1. ASSUME NEW y \in Zone, NEW c \in Controller \cup {Null}, AssignZoneController(r, y, c),
               NEW z \in Zone
        PROVE  \/ zone'[z] = Absent
               \/ zone[z] # Absent /\ zone'[z].gh = zone[z].gh
    <3>1. /\ zone[y] \in ZoneRow /\ zone' = [zone EXCEPT ![y].ctl = c]
          /\ zone \in [Zone -> ZoneRow \cup {Absent}] /\ zone[y] # Absent
      BY <2>1 DEF AssignZoneController, TypeOK
    <3>2. CASE z = y
      <4>1. zone'[z] = [zone[z] EXCEPT !.ctl = c] BY <3>1, <3>2
      <4>2. zone'[z].gh = zone[z].gh BY <3>1, <3>2, <4>1 DEF ZoneRow
      <4> QED BY <3>1, <3>2, <4>2
    <3>3. CASE z # y BY <3>1, <3>3
    <3> QED BY <3>2, <3>3
  <2>2. (~ \E z \in Zone, c \in Controller \cup {Null} : AssignZoneController(r, z, c))
          => zone' = zone
    BY DEF AtOnce, Assign, RemoveController, Announce
  <2> QED BY <2>1, <2>2
<1>3. \A q \in Request, z \in Zone : Pending(q, z)' => Pending(q, z) /\ q # r
  <2>1. Plain(req'[r].todo) BY <1>1, PlainWaits
  <2> QED BY <1>0, <1>1, <2>1, NonePending
<1> QED BY <1>1, <1>2, <1>3, StillRooted DEF Moves

LEMMA LookingMoves ==
  ASSUME TypeOK, Alone, KInv, NEW r \in world.clients, UNCHANGED rows, PlainStep(r)
  PROVE  Moves(r)
<1>1. \A q \in Request, z \in Zone : Pending(q, z)' => Pending(q, z) /\ q # r
  BY TheWorld, PlainOthers DEF PlainStep
<1>2. spent' = spent /\ greenhouse' = greenhouse /\ zone' = zone BY DEF rows
<1> QED BY <1>1, <1>2, StillRooted DEF Moves

LEMMA OldAssignMoves ==
  ASSUME TypeOK, KInv, NEW r \in world.clients, NEW u \in User, NEW b \in Board,
         OldAssign(r, u, b)
  PROVE  Moves(r)
<1>1. spent' = spent /\ greenhouse' = greenhouse /\ zone' = zone
  BY DEF OldAssign, rows
<1>2. /\ req'[r].todo = <<<<"setOwner", b>>>> /\ r \in Request
      /\ \A q \in Request : q # r => req'[q] = req[q]
  BY TheWorld, TypeIs DEF OldAssign, Start, ReqType
<1>3. \A q \in Request, z \in Zone : Pending(q, z)' => Pending(q, z) /\ q # r
  BY <1>2 DEF Pending, Zoning, Opener
<1> QED BY <1>1, <1>3, StillRooted DEF Moves

LEMMA CreatingMoves ==
  ASSUME TypeOK, KInv, NEW r \in world.clients, Creating(r)
  PROVE  Moves(r)
<1>0. r \in Request /\ req \in ReqType /\ world.greenhouses \subseteq Greenhouse
  BY TheWorld, TypeIs
<1>1. ASSUME NEW u \in User, NEW g \in Greenhouse, CreateGreenhouse(r, u, g)
      PROVE  Moves(r)
  <2>1. /\ g \notin spent /\ spent' = spent \cup {g} /\ zone' = zone
        /\ greenhouse' = [greenhouse EXCEPT ![g] = u]
    BY <1>1 DEF CreateGreenhouse
  <2>2. \A h \in Greenhouse : h # g => greenhouse'[h] = greenhouse[h]
    BY <2>1 DEF TypeOK
  <2>3. \A z \in Zone : zone[z] # Absent =>
          zone[z].gh \in Greenhouse /\ zone[z].gh # g /\ greenhouse[zone[z].gh] # Absent
    <3>1. \A z \in Zone : zone[z] # Absent => zone[z].gh \in Greenhouse
      BY DEF TypeOK, ZoneRow
    <3> QED BY <2>1, <3>1 DEF KInv, Rooted, Numbered
  <2>4. /\ req'[r].todo = <<<<"openSpare", g>>>>
        /\ \A q \in Request : q # r => req'[q] = req[q]
    BY <1>0, <1>1 DEF CreateGreenhouse, Start, ReqType
  <2>5. \A q \in Request, z \in Zone : Pending(q, z)' => Pending(q, z) /\ q # r
    BY <2>4 DEF Pending, Zoning, Opener
  <2> QED BY <2>1, <2>2, <2>3, <2>5 DEF Moves
<1>2. ASSUME NEW u \in User, NEW y \in Zone, NEW g \in Greenhouse,
             CreateZone(r, u, y, g) \/ OldCreateZone(r, u, y, g)
      PROVE  Moves(r)
  <2>1. /\ y \notin spent /\ spent' = spent \cup {y} /\ zone' = zone
        /\ greenhouse' = greenhouse
    BY <1>2 DEF CreateZone, OldCreateZone
  <2>2. PICK st \in Opener(y, g) : req' = [req EXCEPT ![r] = [user |-> u, todo |-> <<st>>]]
    BY <1>2 DEF CreateZone, OldCreateZone, Start, Opener
  <2>3. /\ req'[r].todo = <<st>>
        /\ \A q \in Request : q # r => req'[q] = req[q]
    BY <1>0, <2>2 DEF ReqType
  <2>4. \A z \in Zone : Pending(r, z)' => z = y BY <2>3 DEF Pending, Zoning, Opener
  <2>5. \A q \in Request, z \in Zone : q # r => (Pending(q, z)' <=> Pending(q, z))
    BY <2>3 DEF Pending, Zoning
  <2> QED BY <2>1, <2>4, <2>5, StillRooted DEF Moves
<1> QED BY <1>0, <1>1, <1>2 DEF Creating

(* No zone is put into a greenhouse that is gone, or left in one that goes:*)
(* because of a key, or because nobody else has been at work meanwhile.    *)
NoneDangles(r) ==
  /\ \A g \in Greenhouse : DropGreenhouse(r, g) => ZonesIn(g) = {}
  /\ \A z \in Zone, g \in Greenhouse :
       OpenZone(r, z, g) \/ BareZone(r, z, g) => greenhouse[g] # Absent

LEMMA WritingMoves ==
  ASSUME TypeOK, Alone, KInv, NEW r \in world.clients, Writing(r), NoneDangles(r)
  PROVE  Moves(r)
<1>0. r \in Request /\ Rows BY TheWorld, TypeIs
<1>1. \A q \in Request, z \in Zone : Pending(q, z)' => Pending(q, z) /\ q # r
  BY <1>0, WritingGoesOn, PlainGoing, PlainOthers
<1>2. spent' = spent
  BY DEF Writing, OpenSpare, DropGreenhouse, OpenZone, BareZone, Place, Move, Update,
     ClearSensors, ClearDevices, Clear, DropZones, Forget, Remove, Commit, SetOwner
<1>3. ASSUME NEW g \in Greenhouse, DropGreenhouse(r, g) PROVE Moves(r)
  <2>1. /\ zone' = zone /\ ZonesIn(g) = {}
        /\ greenhouse' = [greenhouse EXCEPT ![g] = Absent]
    BY <1>3 DEF NoneDangles, DropGreenhouse
  <2>2. \A h \in Greenhouse : greenhouse'[h] = IF h = g THEN Absent ELSE greenhouse[h]
    BY <1>0, <2>1 DEF Rows
  <2>3. \A z \in Zone : zone[z] # Absent =>
          zone[z].gh \in Greenhouse /\ zone[z].gh # g /\ greenhouse[zone[z].gh] # Absent
    <3>1. \A z \in Zone : zone[z] # Absent => zone[z].gh \in Greenhouse
      BY <1>0 DEF Rows, ZoneRow
    <3> QED BY <2>1, <3>1 DEF KInv, Rooted, ZonesIn
  <2> QED BY <1>1, <1>2, <2>1, <2>2, <2>3 DEF Moves
<1>4. ASSUME NEW y \in Zone, NEW g \in Greenhouse, OpenZone(r, y, g) \/ BareZone(r, y, g)
      PROVE  Moves(r)
  <2>1. /\ greenhouse' = greenhouse /\ greenhouse[g] # Absent
        /\ zone' = [zone EXCEPT ![y] = [gh |-> g, ctl |-> Null]]
    BY <1>4 DEF NoneDangles, OpenZone, BareZone
  <2>2. PICK st \in Opener(y, g) : At(r, st) BY <1>4 DEF OpenZone, BareZone, Opener
  <2>3. req[r].todo = <<st>> BY <1>0, <2>2, OnlyOne DEF Opener
  <2>4. Pending(r, y) BY <2>3 DEF Pending, Zoning
  <2>5. \A z \in Zone : z # y => zone'[z] = zone[z] BY <1>0, <2>1 DEF Rows
  <2>6. zone'[y].gh = g BY <1>0, <2>1 DEF Rows
  <2>7. \A z \in Zone : zone'[z] # Absent => greenhouse[zone'[z].gh] # Absent
    BY <2>1, <2>5, <2>6 DEF KInv, Rooted
  <2> QED BY <1>1, <1>2, <2>1, <2>4, <2>5, <2>7 DEF Moves
<1>5. ASSUME NEW Z, DropZones(r, Z) PROVE Moves(r)
  <2>1. /\ greenhouse' = greenhouse
        /\ zone' = [z \in Zone |-> IF z \in Z THEN Absent ELSE zone[z]]
    BY <1>5 DEF DropZones
  <2>2. \A z \in Zone : \/ zone'[z] = Absent
                        \/ zone[z] # Absent /\ zone'[z].gh = zone[z].gh
    BY <2>1
  <2> QED BY <1>1, <1>2, <2>1, <2>2, StillRooted DEF Moves
<1>6. ASSUME greenhouse' = greenhouse, zone' = zone PROVE Moves(r)
  BY <1>1, <1>2, <1>6, StillRooted DEF Moves
<1>7. \/ greenhouse' = greenhouse /\ zone' = zone
      \/ \E g \in Greenhouse : DropGreenhouse(r, g)
      \/ \E z \in Zone, g \in Greenhouse : OpenZone(r, z, g) \/ BareZone(r, z, g)
      \/ \E Z : DropZones(r, Z)
  BY DEF Writing, OpenSpare, Place, Move, Update, ClearSensors, ClearDevices, Clear,
     Forget, Remove, Commit, SetOwner
<1> QED BY <1>3, <1>4, <1>5, <1>6, <1>7

LEMMA StepMoves ==
  ASSUME IInv, KInv, BothNext, \A r \in world.clients : NoneDangles(r)
  PROVE  \E r \in world.clients :
           /\ GoodNext(r) /\ Moves(r)
           /\ \A q \in Request : q # r => req'[q] = req[q]
<1>1. TypeOK /\ Alone BY DEF IInv
<1>2. PICK r \in world.clients :
        \/ AtOnce(r) \/ Selecting(r) \/ Creating(r) \/ Looking(r) \/ Writing(r)
        \/ \E u \in User, b \in Board : OldAssign(r, u, b)
  BY <1>1, StepsAre
<1>3. GoodNext(r) BY <1>1, <1>2, GoodStep
<1>4. Selecting(r) => UNCHANGED rows /\ PlainStep(r)
  BY <1>1, SelectingTypes, PlainSelecting
<1>5. Looking(r) => UNCHANGED rows /\ PlainStep(r)
  BY <1>1, LookingTypes, PlainLooking DEF Looking
<1>6. Moves(r)
  BY <1>1, <1>2, <1>4, <1>5, AtOnceMoves, LookingMoves, CreatingMoves, WritingMoves,
     OldAssignMoves
<1>7. \A q \in Request : q # r => req'[q] = req[q]
  <2>1. ASSUME NEW x, req' = [req EXCEPT ![r] = x]
        PROVE  \A q \in Request : q # r => req'[q] = req[q]
    BY <1>1, <2>1, TheWorld, TypeIs DEF ReqType
  <2>2. AtOnce(r) => req' = req
    BY DEF AtOnce, Assign, RemoveController, AssignZoneController, Announce
  <2>3. Selecting(r) \/ Looking(r) => \E x : req' = [req EXCEPT ![r] = x]
    BY <1>4, <1>5 DEF PlainStep
  <2>4. Creating(r) => \E x : req' = [req EXCEPT ![r] = x]
    BY DEF Creating, CreateGreenhouse, CreateZone, OldCreateZone, Start
  <2>5. (\E u \in User, b \in Board : OldAssign(r, u, b)) =>
          \E x : req' = [req EXCEPT ![r] = x]
    BY DEF OldAssign, Start
  <2>6. Writing(r) => \E x : req' = [req EXCEPT ![r] = x]
    BY WritingGoesOn DEF Go, Left
  <2> QED BY <1>2, <2>1, <2>2, <2>3, <2>4, <2>5, <2>6
<1> QED BY <1>3, <1>6, <1>7

(* What is known stays known.                                              *)
LEMMA KnownStays ==
  ASSUME KInv, NEW r \in Request, Moves(r), NEW u, NEW z \in Zone, Known(u, z)
  PROVE  Known(u, z)'
<1>1. z \in spent' BY DEF Moves, Known
<1>2. \A q \in Request : ~ Pending(q, z)' BY DEF Moves, Known
<1>3. Mine(u, z)'
  <2>1. CASE zone'[z] = Absent BY <2>1 DEF Mine
  <2>2. CASE zone'[z] # Absent
    <3>1. zone[z] # Absent /\ zone'[z].gh = zone[z].gh BY <2>2 DEF Moves, Known
    <3>2. greenhouse[zone[z].gh] = u BY <3>1 DEF Known, Mine, OwnsZone
    <3>3. greenhouse'[zone'[z].gh] = u BY <2>2, <3>1, <3>2 DEF Moves
    <3> QED BY <2>2, <3>3 DEF Mine, OwnsZone
  <2> QED BY <2>1, <2>2
<1> QED BY <1>1, <1>2, <1>3 DEF Known

LEMMA GoodStays ==
  ASSUME KInv, NEW r \in Request, Moves(r), NEW u, NEW st \in Statement, Good(u, st)
  PROVE  Good(u, st)'
<1>1. ASSUME st[1] = "place", st[3] # Null PROVE Known(u, st[3])'
  BY <1>1, KnownStays, StatementParts DEF Good
<1>2. ASSUME st[1] \in Clearing, NEW z \in st[2] PROVE Known(u, z)'
  <2>1. z \in Zone BY <1>2, StatementParts
  <2> QED BY <1>2, <2>1, KnownStays DEF Good, Clearing
<1>3. ASSUME st[1] \in {"listZones", "drop"}
      PROVE  st[2] \in spent' /\ greenhouse'[st[2]] \in {u, Absent}
  <2>1. st[2] \in Greenhouse BY <1>3, StatementParts
  <2> QED BY <1>3, <2>1 DEF Good, Moves
<1>4. ASSUME st[1] \in {"openZone", "bareZone"}
      PROVE  st[3] \in spent' /\ greenhouse'[st[3]] \in {u, Absent}
  <2>1. st[3] \in Greenhouse BY <1>4, StatementParts
  <2> QED BY <1>4, <2>1 DEF Good, Moves
<1> QED BY <1>1, <1>2, <1>3, <1>4 DEF Good, Clearing

LEMMA KStep ==
  ASSUME IInv, IInv', KInv, NEW r \in Request, GoodNext(r), Moves(r),
         \A q \in Request : q # r => req'[q] = req[q]
  PROVE  KInv'
<1>1. Checked'
  <2>1. ASSUME NEW q \in Request, NEW n \in DOMAIN req'[q].todo
        PROVE  Good(req'[q].user, req'[q].todo[n])
    <3>1. CASE q = r BY <2>1, <3>1 DEF GoodNext
    <3>2. CASE q # r BY <2>1, <3>2 DEF KInv, Checked
    <3> QED BY <3>1, <3>2
  <2>2. ASSUME NEW q \in Request, NEW n \in DOMAIN req'[q].todo
        PROVE  req'[q].todo[n] \in Statement
    <3>1. req'[q].todo \in Seq(Statement) BY DEF IInv, TypeOK
    <3> QED BY <2>2, <3>1, LenProperties, ElementOfSeq
  <2> QED BY <2>1, <2>2, GoodStays DEF Checked
<1>2. Rooted'
  <2>1. ASSUME NEW z \in Zone, zone'[z] # Absent PROVE z \in spent'
    BY <2>1 DEF Moves, KInv, Rooted, OpenOnce
  <2> QED BY <2>1 DEF Moves, Rooted
<1>3. Numbered' BY DEF Moves, KInv, Numbered
<1>4. OpenOnce'
  <2>1. ASSUME NEW q \in Request, NEW z \in Zone, Pending(q, z)'
        PROVE  /\ z \in spent' /\ zone'[z] = Absent
               /\ \A p \in Request : Pending(p, z)' => p = q
    <3>1. CASE Pending(q, z) /\ q # r
      <4>1. /\ z \in spent /\ zone[z] = Absent
            /\ \A p \in Request : Pending(p, z) => p = q
        BY <3>1 DEF KInv, OpenOnce
      <4>2. zone'[z] = Absent BY <3>1, <4>1 DEF Moves
      <4> QED BY <4>1, <4>2 DEF Moves
    <3>2. CASE q = r /\ z \notin spent /\ z \in spent' /\ zone' = zone
      <4>1. zone[z] = Absent BY <3>2 DEF KInv, Rooted
      <4>2. \A p \in Request : ~ Pending(p, z) BY <3>2 DEF KInv, OpenOnce
      <4> QED BY <3>2, <4>1, <4>2 DEF Moves
    <3> QED BY <2>1, <3>1, <3>2 DEF Moves
  <2> QED BY <2>1 DEF OpenOnce
<1> QED BY <1>1, <1>2, <1>3, <1>4 DEF KInv

LEMMA KInit == Init => KInv
<1> SUFFICES ASSUME Init PROVE KInv OBVIOUS
<1>1. \A r \in Request : req[r] = Idle BY DEF Init
<1>2. Checked BY <1>1 DEF Checked, Idle
<1>3. OpenOnce
  <2>1. \A r \in Request : req[r].todo = <<>> BY <1>1 DEF Idle
  <2>2. \A st : <<>> # <<st>> OBVIOUS
  <2>3. \A r \in Request, z \in Zone : ~ Pending(r, z)
    BY <2>1, <2>2 DEF Pending, Zoning
  <2> QED BY <2>3 DEF OpenOnce
<1> QED BY <1>2, <1>3 DEF Init, KInv, Rooted, Numbered

-------------------------------------------------------------------------------
(* Nothing is lost or left behind when requests come one at a time.        *)

NoneIn(kind, Z) == \A i \in kind : place[i] \notin Z

(* After the statements of a deletion comes nothing, or for a greenhouse,  *)
(* whose zones are Z, its own.                                             *)
Closing(rest, sts, Z) ==
  \/ rest = sts
  \/ \E g \in Greenhouse : Z = ZonesIn(g) /\ rest = Append(sts, <<"drop", g>>)

(* Statements that are the last of their handlers.                         *)
Last == {"openSpare", "setOwner", "openZone", "bareZone", "place", "move", "zoneOf",
         "drop", "listZones", "remove", "report"}

(* What the earlier statements of a handler have seen to when st is next,  *)
(* and what follows it.                                                    *)
Prepared(st, rest) ==
  /\ st[1] \in Last => rest = <<>>
  /\ st[1] \in {"openZone", "bareZone"} => greenhouse[st[3]] # Absent
  /\ st[1] \in {"place", "move"} => st[3] = Null \/ zone[st[3]] # Absent
  /\ st[1] = "own" => \E s \in Sensor : rest = <<<<"zoneOf", s, st[2]>>>>
  /\ st[1] = "clearSensors" =>
       Closing(rest, << <<"clearDevices", st[2]>>, <<"dropZones", st[2]>> >>, st[2])
  /\ st[1] = "clearDevices" =>
       NoneIn(Sensor, st[2]) /\ Closing(rest, << <<"dropZones", st[2]>> >>, st[2])
  /\ st[1] = "dropZones" => NoneIn(Item, st[2]) /\ Closing(rest, <<>>, st[2])
  /\ st[1] = "drop" => ZonesIn(st[2]) = {}
  /\ st[1] = "forget" => rest = << <<"remove", st[2]>> >>
  /\ st[1] = "remove" => st[2] \notin logged
  /\ st[1] = "report" => controller[st[3]] # Absent /\ (st[4] \/ place[st[2]] # Absent)

Ready(r) == req[r].todo # <<>> => Prepared(Head(req[r].todo), Tail(req[r].todo))

(* Zones are in greenhouses, items in zones that are there, readings are   *)
(* of sensors that are there, and every node came through a controller.    *)
InPlace ==
  /\ \A z \in Zone : zone[z] # Absent => greenhouse[zone[z].gh] # Absent
  /\ \A i \in Item : place[i] \in Zone => zone[place[i]] # Absent
  /\ \A s \in logged : place[s] # Absent
  /\ \A i \in Item : place[i] # Absent => hub[i] # Null /\ controller[hub[i]] # Absent

(* Only the installation's clients have requests.                          *)
Quiet == \A q \in Request \ world.clients : req[q] = Idle

Solo == OneAtATime => InPlace /\ \A q \in Request : Ready(q)

WithAlarms == ~world.legacy => \A z \in Zone : zone[z] # Absent => z \in alarms

LEMMA Begins ==
  ASSUME TypeOK, NEW r \in Request, NEW u, NEW todo, Start(r, u, todo)
  PROVE  req'[r].todo = todo /\ \A q \in Request : q # r => req'[q] = req[q]
BY DEF Start, TypeOK

LEMMA Leaves ==
  ASSUME TypeOK, NEW r \in Request, NEW todo, Left(r, todo)
  PROVE  req'[r].todo = todo /\ \A q \in Request : q # r => req'[q] = req[q]
<1>1. req \in [Request -> [user : User \cup {Null}, todo : Seq(Statement)]]
  BY DEF TypeOK
<1>2. CASE todo = <<>>
  <2>1. req' = [req EXCEPT ![r] = Idle] BY <1>2 DEF Left
  <2>2. req'[r] = Idle BY <1>1, <2>1
  <2> QED BY <1>1, <1>2, <2>1, <2>2 DEF Idle
<1>3. CASE todo # <<>>
  <2>1. req' = [req EXCEPT ![r] = [@ EXCEPT !.todo = todo]] BY <1>3 DEF Left
  <2>2. req'[r] = [req[r] EXCEPT !.todo = todo] BY <1>1, <2>1
  <2>3. req[r] \in [user : User \cup {Null}, todo : Seq(Statement)] BY <1>1
  <2> QED BY <1>1, <2>1, <2>2, <2>3
<1> QED BY <1>2, <1>3

(* The next statement is prepared, and what follows it is next.            *)
LEMMA Prepares ==
  ASSUME TypeOK, NEW r \in Request, Ready(r), NEW st, At(r, st), Go(r)
  PROVE  \E rest : Prepared(st, rest) /\ req'[r].todo = rest
<1>1. req'[r].todo = Tail(req[r].todo) BY Leaves DEF Go
<1>2. Prepared(st, Tail(req[r].todo)) BY DEF Ready, At
<1> QED BY <1>1, <1>2

(* What a step has to show when only the request r is under way.           *)
LEMMA Settles ==
  ASSUME TypeOK, Quiet, OneAtATime, NEW r \in world.clients, world' = world,
         \A q \in Request : q # r => req'[q] = req[q], InPlace', Ready(r)'
  PROVE  Solo'
<1>1. ASSUME NEW q \in Request, q # r PROVE Ready(q)'
  <2>1. req[q] = Idle BY <1>1 DEF Quiet, OneAtATime
  <2>2. req'[q].todo = <<>> BY <1>1, <2>1 DEF Idle
  <2> QED BY <2>2 DEF Ready
<1> QED BY <1>1 DEF Solo

LEMMA NothingLeft ==
  ASSUME NEW r, req'[r].todo = <<>>
  PROVE  Ready(r)'
BY DEF Ready

LEMMA OneLeft ==
  ASSUME NEW r, NEW st, req'[r].todo = <<st>>, Prepared(st, <<>>)'
  PROVE  Ready(r)'
<1>1. Head(<<st>>) = st /\ Tail(<<st>>) = <<>> OBVIOUS
<1> QED BY <1>1 DEF Ready

LEMMA MoreLeft ==
  ASSUME NEW r, NEW st, NEW rest, req'[r].todo # <<>>, Head(req'[r].todo) = st,
         Tail(req'[r].todo) = rest, Prepared(st, rest)'
  PROVE  Ready(r)'
BY DEF Ready

LEMMA StillInPlace ==
  ASSUME InPlace, UNCHANGED rows
  PROVE  InPlace'
BY DEF InPlace, rows

(* Handlers start prepared.                                                *)
LEMMA SelectingPrepares ==
  ASSUME TypeOK, NEW r \in world.clients, Selecting(r)
  PROVE  Ready(r)' /\ \A q \in Request : q # r => req'[q] = req[q]
<1>0. /\ r \in Request /\ UNCHANGED <<zone, greenhouse, controller, place, logged>>
      /\ logged \subseteq Sensor
  BY TheWorld, SelectingTypes DEF rows, TypeOK
<1> DEFINE Others == \A q \in Request : q # r => req'[q] = req[q]
<1>1. ASSUME NEW u \in User, NEW g, DeleteGreenhouse(r, u, g)
      PROVE  Ready(r)' /\ Others
  <2>1. req'[r].todo = <<<<"listZones", g>>>> /\ Others
    BY <1>0, <1>1, Begins DEF DeleteGreenhouse
  <2>2. Prepared(<<"listZones", g>>, <<>>)' BY DEF Prepared, Last
  <2> QED BY <2>1, <2>2, OneLeft
<1>2. ASSUME NEW u \in User, NEW z \in Zone, DeleteZone(r, u, z)
      PROVE  Ready(r)' /\ Others
  <2> DEFINE todo == << <<"clearSensors", {z}>>, <<"clearDevices", {z}>>,
                        <<"dropZones", {z}>> >>
  <2>1. req'[r].todo = todo /\ Others BY <1>0, <1>2, Begins DEF DeleteZone
  <2>2. PICK Z, rest : /\ Z = {z}
                       /\ rest = << <<"clearDevices", Z>>, <<"dropZones", Z>> >>
    OBVIOUS
  <2>3. todo # <<>> /\ Head(todo) = <<"clearSensors", Z>> /\ Tail(todo) = rest
    BY <2>2
  <2> HIDE DEF todo
  <2>4. Closing(rest, << <<"clearDevices", Z>>, <<"dropZones", Z>> >>, Z)'
    BY <2>2 DEF Closing
  <2>5. Prepared(<<"clearSensors", Z>>, rest)'
    BY <2>4 DEF Prepared, Last
  <2> QED BY <2>1, <2>3, <2>5, MoreLeft
<1>3. ASSUME NEW u \in User, NEW z \in Zone, NEW i, PutInZone(r, u, i, z)
      PROVE  Ready(r)' /\ Others
  <2>1. req'[r].todo = <<<<"place", i, z>>>> /\ Others
    BY <1>0, <1>3, Begins DEF PutInZone
  <2>2. Prepared(<<"place", i, z>>, <<>>)'
    BY <1>0, <1>3 DEF PutInZone, OwnsZone, Prepared, Last
  <2> QED BY <2>1, <2>2, OneLeft
<1>4. ASSUME NEW u \in User, NEW i, TakeOutOfZone(r, u, i)
      PROVE  Ready(r)' /\ Others
  <2>1. req'[r].todo = <<<<"place", i, Null>>>> /\ Others
    BY <1>0, <1>4, Begins DEF TakeOutOfZone
  <2>2. Prepared(<<"place", i, Null>>, <<>>)' BY DEF Prepared, Last
  <2> QED BY <2>1, <2>2, OneLeft
<1>5. ASSUME NEW u \in User, NEW s, DeleteSensor(r, u, s)
      PROVE  Ready(r)' /\ Others
  <2> DEFINE todo == << <<"forget", s>>, <<"remove", s>> >>
  <2>1. req'[r].todo = todo /\ Others BY <1>0, <1>5, Begins DEF DeleteSensor
  <2>2. Head(todo) = <<"forget", s>> /\ Tail(todo) = << <<"remove", s>> >> OBVIOUS
  <2> HIDE DEF todo
  <2>3. Ready(r)' BY <2>1, <2>2 DEF Ready, Prepared, Last
  <2> QED BY <2>1, <2>3
<1>6. ASSUME NEW u \in User, NEW d, DeleteDevice(r, u, d)
      PROVE  Ready(r)' /\ Others
  <2>1. req'[r].todo = <<<<"remove", d>>>> /\ Others
    BY <1>0, <1>6, Begins DEF DeleteDevice
  <2>2. d \notin logged' BY <1>0, <1>6, ItemAssumption DEF DeleteDevice
  <2>3. Prepared(<<"remove", d>>, <<>>)' BY <2>2 DEF Prepared, Last
  <2> QED BY <2>1, <2>3, OneLeft
<1>7. ASSUME NEW u \in User, NEW s \in Sensor, NEW c \in Controller,
             ChangeController(r, u, s, c)
      PROVE  Ready(r)' /\ Others
  <2> DEFINE todo == << <<"own", c>>, <<"zoneOf", s, c>> >>
  <2>1. req'[r].todo = todo /\ Others BY <1>0, <1>7, Begins DEF ChangeController
  <2>2. Head(todo) = <<"own", c>> /\ Tail(todo) = << <<"zoneOf", s, c>> >> OBVIOUS
  <2> HIDE DEF todo
  <2>3. Ready(r)' BY <2>1, <2>2 DEF Ready, Prepared, Last
  <2> QED BY <2>1, <2>3
<1>8. ASSUME NEW b, NEW i, Report(r, i, b)
      PROVE  Ready(r)' /\ Others
  <2>1. PICK new : new = (place[i] = Absent) OBVIOUS
  <2>2. req'[r].todo = <<<<"report", i, b, new>>>> /\ Others
    BY <1>0, <1>8, <2>1, Begins DEF Report
  <2>3. controller'[b] # Absent /\ (new \/ place'[i] # Absent)
    BY <1>0, <1>8, <2>1 DEF Report
  <2>4. Prepared(<<"report", i, b, new>>, <<>>)' BY <2>3 DEF Prepared, Last
  <2> QED BY <2>2, <2>4, OneLeft
<1> QED BY <1>1, <1>2, <1>3, <1>4, <1>5, <1>6, <1>7, <1>8 DEF Selecting

LEMMA CreatingPrepares ==
  ASSUME TypeOK, InPlace, NEW r \in world.clients, Creating(r)
  PROVE  Ready(r)' /\ InPlace' /\ \A q \in Request : q # r => req'[q] = req[q]
<1>0. /\ r \in Request /\ world.greenhouses \subseteq Greenhouse
      /\ greenhouse \in [Greenhouse -> User \cup {Absent}]
      /\ zone \in [Zone -> ZoneRow \cup {Absent}]
      /\ UNCHANGED <<controller, zone, alarms, place, hub, logged>>
  BY TheWorld, CreatingTypes DEF TypeOK
<1>1. PICK u \in User, g \in Greenhouse :
        \/ CreateGreenhouse(r, u, g)
        \/ \E z \in Zone : CreateZone(r, u, z, g) \/ OldCreateZone(r, u, z, g)
  BY <1>0 DEF Creating
<1>2. u # Absent BY NullAssumption
<1>3. CASE CreateGreenhouse(r, u, g)
  <2>1. /\ req'[r].todo = <<<<"openSpare", g>>>>
        /\ \A q \in Request : q # r => req'[q] = req[q]
    BY <1>0, <1>3, Begins DEF CreateGreenhouse
  <2>2. Prepared(<<"openSpare", g>>, <<>>)' BY DEF Prepared, Last
  <2>3. \A h \in Greenhouse : greenhouse[h] # Absent => greenhouse'[h] # Absent
    BY <1>0, <1>2, <1>3 DEF CreateGreenhouse
  <2>4. \A z \in Zone : zone[z] # Absent => zone[z].gh \in Greenhouse
    BY <1>0 DEF ZoneRow
  <2>5. InPlace' BY <1>0, <2>3, <2>4 DEF InPlace
  <2> QED BY <2>1, <2>2, <2>5, OneLeft
<1>4. ASSUME NEW z \in Zone, CreateZone(r, u, z, g) \/ OldCreateZone(r, u, z, g)
      PROVE  Ready(r)' /\ InPlace' /\ \A q \in Request : q # r => req'[q] = req[q]
  <2>1. PICK st \in {<<"openZone", z, g>>, <<"bareZone", z, g>>} :
          Start(r, u, <<st>>)
    BY <1>4 DEF CreateZone, OldCreateZone
  <2>2. greenhouse' = greenhouse /\ greenhouse[g] = u
    BY <1>4 DEF CreateZone, OldCreateZone
  <2>3. req'[r].todo = <<st>> /\ \A q \in Request : q # r => req'[q] = req[q]
    BY <1>0, <2>1, Begins
  <2>4. Prepared(st, <<>>)' BY <1>2, <2>1, <2>2 DEF Prepared, Last
  <2>5. InPlace' BY <1>0, <2>2 DEF InPlace
  <2> QED BY <2>3, <2>4, <2>5, OneLeft
<1> QED BY <1>1, <1>3, <1>4

LEMMA OldAssignPrepares ==
  ASSUME TypeOK, NEW r \in Request, NEW u, NEW b, OldAssign(r, u, b)
  PROVE  Ready(r)' /\ \A q \in Request : q # r => req'[q] = req[q]
<1>1. /\ req'[r].todo = <<<<"setOwner", b>>>>
      /\ \A q \in Request : q # r => req'[q] = req[q]
  BY Begins DEF OldAssign
<1>2. Prepared(<<"setOwner", b>>, <<>>)' BY DEF Prepared, Last
<1> QED BY <1>1, <1>2, OneLeft

(* No handler that is done at once takes a row away.                       *)
LEMMA AtOnceInPlace ==
  ASSUME TypeOK, InPlace, NEW r \in world.clients, AtOnce(r)
  PROVE  Ready(r)' /\ InPlace' /\ req' = req
<1>0. /\ UNCHANGED <<alarms, place, hub, logged, spent, req>>
      /\ controller \in [Controller -> User \cup {Null, Absent}]
      /\ zone \in [Zone -> ZoneRow \cup {Absent}]
      /\ hub \in [Item -> Controller \cup {Null}] /\ logged \subseteq Sensor
      /\ place \in [Item -> Zone \cup {Null, Absent}]
      /\ Board \subseteq Controller /\ User \cap {Null, Absent} = {}
      /\ Null # Absent /\ Absent \notin ZoneRow
  BY AtOnceTypes, NullAssumption DEF AtOnce, TypeOK, Controller, ZoneRow
<1>1. req[r] = Idle
  BY DEF AtOnce, Assign, RemoveController, AssignZoneController, Announce
<1>2. Ready(r)' BY <1>0, <1>1, NothingLeft DEF Idle
<1>3. ASSUME NEW u \in User, NEW b \in Board, Assign(r, u, b) \/ RemoveController(r, u, b)
      PROVE  InPlace'
  <2>1. UNCHANGED <<greenhouse, zone>> BY <1>3 DEF Assign, RemoveController
  <2>2. \A c \in Controller : controller[c] # Absent => controller'[c] # Absent
    BY <1>0, <1>3 DEF Assign, RemoveController
  <2> QED BY <1>0, <2>1, <2>2 DEF InPlace
<1>4. ASSUME NEW b \in Board, Announce(r, b) PROVE InPlace'
  <2>1. UNCHANGED <<greenhouse, zone>> BY <1>4 DEF Announce
  <2>2. \A c \in Controller : controller[c] # Absent => controller'[c] # Absent
    BY <1>0, <1>4 DEF Announce
  <2> QED BY <1>0, <2>1, <2>2 DEF InPlace
<1>5. ASSUME NEW z \in Zone, NEW c \in Controller \cup {Null}, AssignZoneController(r, z, c)
      PROVE  InPlace'
  <2>1. UNCHANGED <<greenhouse, controller>> BY <1>5 DEF AssignZoneController
  <2>2. /\ zone[z] # Absent /\ zone' = [zone EXCEPT ![z] = [zone[z] EXCEPT !.ctl = c]]
    BY <1>5 DEF AssignZoneController
  <2>3. zone[z] \in ZoneRow BY <1>0, <2>2
  <2>4. /\ [zone[z] EXCEPT !.ctl = c] \in ZoneRow
        /\ [zone[z] EXCEPT !.ctl = c].gh = zone[z].gh
    BY <2>3 DEF ZoneRow
  <2>5. \A y \in Zone : /\ zone'[y] # Absent <=> zone[y] # Absent
                        /\ zone[y] # Absent => zone'[y].gh = zone[y].gh
    BY <1>0, <2>2, <2>4
  <2> QED BY <1>0, <2>1, <2>5 DEF InPlace
<1> QED BY <1>0, <1>2, <1>3, <1>4, <1>5 DEF AtOnce

LEMMA DeletionPrepared ==
  ASSUME NEW r, NEW Z, NEW g \in Greenhouse, ZonesIn(g)' = Z,
         req'[r].todo = << <<"clearSensors", Z>>, <<"clearDevices", Z>>,
                           <<"dropZones", Z>>, <<"drop", g>> >>
  PROVE  Ready(r)'
<1> DEFINE todo == << <<"clearSensors", Z>>, <<"clearDevices", Z>>,
                      <<"dropZones", Z>>, <<"drop", g>> >>
<1>1. PICK rest : rest = << <<"clearDevices", Z>>, <<"dropZones", Z>>, <<"drop", g>> >>
  OBVIOUS
<1>2. /\ todo # <<>> /\ Head(todo) = <<"clearSensors", Z>> /\ Tail(todo) = rest
  BY <1>1
<1>3. rest = Append(<< <<"clearDevices", Z>>, <<"dropZones", Z>> >>, <<"drop", g>>)
  BY <1>1
<1>4. req'[r].todo = todo OBVIOUS
<1> HIDE DEF todo
<1>5. Closing(rest, << <<"clearDevices", Z>>, <<"dropZones", Z>> >>, Z)'
  BY <1>3 DEF Closing
<1>6. Prepared(<<"clearSensors", Z>>, rest)' BY <1>5 DEF Prepared, Last
<1> QED BY <1>2, <1>4, <1>6, MoreLeft

LEMMA LookingPrepares ==
  ASSUME TypeOK, NEW r \in world.clients, Ready(r), Looking(r)
  PROVE  Ready(r)' /\ \A q \in Request : q # r => req'[q] = req[q]
<1>0. r \in Request /\ UNCHANGED <<zone, greenhouse, controller, place, logged>>
  BY TheWorld, LookingTypes DEF Looking, rows
<1> DEFINE Others == \A q \in Request : q # r => req'[q] = req[q]
<1>1. ASSUME NEW g \in Greenhouse, ListZones(r, g)
      PROVE  Ready(r)' /\ Others
  <2>1. PICK Z : Z = ZonesIn(g) OBVIOUS
  <2>2. ZonesIn(g)' = Z BY <1>0, <2>1 DEF ZonesIn
  <2>3. CASE Z = {}
    <3>1. req'[r].todo = <<<<"drop", g>>>> /\ Others
      BY <1>0, <1>1, <2>1, <2>3, Leaves DEF ListZones
    <3>2. Prepared(<<"drop", g>>, <<>>)' BY <2>2, <2>3 DEF Prepared, Last
    <3> QED BY <3>1, <3>2, OneLeft
  <2>4. CASE Z # {}
    <3>1. /\ req'[r].todo = << <<"clearSensors", Z>>, <<"clearDevices", Z>>,
                               <<"dropZones", Z>>, <<"drop", g>> >>
          /\ Others
      BY <1>0, <1>1, <2>1, <2>4, Leaves DEF ListZones
    <3> QED BY <2>2, <3>1, DeletionPrepared
  <2> QED BY <2>3, <2>4
<1>2. ASSUME NEW c \in Controller, OwnController(r, c)
      PROVE  Ready(r)' /\ Others
  <2>1. PICK rest : rest = Tail(req[r].todo) OBVIOUS
  <2>2. Prepared(<<"own", c>>, rest) BY <1>2, <2>1 DEF OwnController, At, Ready
  <2>3. PICK s \in Sensor : rest = <<<<"zoneOf", s, c>>>>
    BY <2>2 DEF Prepared
  <2>4. PICK todo \in {rest, <<>>} : Left(r, todo)
    BY <1>2, <2>1 DEF OwnController
  <2>5. req'[r].todo = todo /\ Others BY <1>0, <2>4, Leaves
  <2>6. Prepared(<<"zoneOf", s, c>>, <<>>)' BY DEF Prepared, Last
  <2>7. todo = <<>> => Ready(r)' BY <2>5, NothingLeft
  <2>8. todo = rest => Ready(r)' BY <2>3, <2>5, <2>6, OneLeft
  <2> QED BY <2>4, <2>5, <2>7, <2>8
<1>3. ASSUME NEW s \in Sensor, NEW c \in Controller, FirstZone(r, s, c)
      PROVE  Ready(r)' /\ Others
  <2>1. PICK Z : Z = {z \in Zone : zone[z] # Absent /\ zone[z].ctl = c} OBVIOUS
  <2>2. PICK first : first = CHOOSE z \in Z : \A y \in Z : z <= y OBVIOUS
  <2>3. Left(r, IF Z = {} THEN <<>> ELSE <<<<"move", s, first>>>>)
    BY <1>3, <2>1, <2>2 DEF FirstZone
  <2>4. CASE Z = {}
    <3>1. req'[r].todo = <<>> /\ Others BY <1>0, <2>3, <2>4, Leaves
    <3> QED BY <3>1, NothingLeft
  <2>5. CASE Z # {}
    <3>1. Z \in SUBSET Nat BY <2>1, ZoneAssumption
    <3>2. \E z \in Z : \A y \in Z : z <= y BY <2>5, <3>1, LeastNumber
    <3>3. first \in Z BY <2>2, <3>2
    <3>4. zone'[first] # Absent BY <1>0, <2>1, <3>3
    <3>5. req'[r].todo = <<<<"move", s, first>>>> /\ Others
      BY <1>0, <2>3, <2>5, Leaves
    <3>6. Prepared(<<"move", s, first>>, <<>>)' BY <3>4 DEF Prepared, Last
    <3> QED BY <3>5, <3>6, OneLeft
  <2> QED BY <2>4, <2>5
<1>4. ASSUME Fail(r) PROVE Ready(r)' /\ Others
  BY <1>0, <1>4, Leaves, NothingLeft DEF Fail
<1> QED BY <1>1, <1>2, <1>3, <1>4 DEF Looking

(* The last statement of a handler leaves nothing to do.                   *)
LEMMA LastLeaves ==
  ASSUME TypeOK, NEW r \in Request, Ready(r), NEW st, st[1] \in Last, At(r, st), Go(r)
  PROVE  Prepared(st, <<>>) /\ Ready(r)'
<1>1. PICK rest : Prepared(st, rest) /\ req'[r].todo = rest BY Prepares
<1>2. rest = <<>> BY <1>1 DEF Prepared
<1> QED BY <1>1, <1>2, NothingLeft

LEMMA ShortSequences ==
  ASSUME NEW a, NEW b, NEW c
  PROVE  /\ Append(<<a>>, b) = <<a, b>>
         /\ Append(<<a, b>>, c) = <<a, b, c>>
<1>1. Append(<<a>>, b) = <<a, b>>
  <2>1. <<a>> \in Seq({a, b}) OBVIOUS
  <2>2. PICK s, t : s = Append(<<a>>, b) /\ t = <<a, b>> OBVIOUS
  <2>3. s \in Seq({a, b}) /\ Len(s) = 2 /\ s[1] = a /\ s[2] = b BY <2>1, <2>2
  <2>4. t \in Seq({a, b}) /\ Len(t) = 2 /\ t[1] = a /\ t[2] = b BY <2>2
  <2>5. \A i \in 1..Len(s) : s[i] = t[i] BY <2>3, <2>4
  <2> QED BY <2>2, <2>3, <2>4, <2>5, SeqEqual
<1>2. Append(<<a, b>>, c) = <<a, b, c>>
  <2>1. <<a, b>> \in Seq({a, b, c}) OBVIOUS
  <2>2. PICK s, t : s = Append(<<a, b>>, c) /\ t = <<a, b, c>> OBVIOUS
  <2>3. s \in Seq({a, b, c}) /\ Len(s) = 3 /\ s[1] = a /\ s[2] = b /\ s[3] = c
    BY <2>1, <2>2
  <2>4. t \in Seq({a, b, c}) /\ Len(t) = 3 /\ t[1] = a /\ t[2] = b /\ t[3] = c
    BY <2>2
  <2>5. \A i \in 1..Len(s) : s[i] = t[i] BY <2>3, <2>4
  <2> QED BY <2>2, <2>3, <2>4, <2>5, SeqEqual
<1> QED BY <1>1, <1>2

(* The statements of a deletion.                                           *)
LEMMA ClosingNext ==
  ASSUME NEW r, NEW st, NEW all, NEW sts, NEW Z, NEW rest, Closing(rest, all, Z),
         \/ all = <<st>> /\ sts = <<>>
         \/ \E last : all = <<st, last>> /\ sts = <<last>>,
         UNCHANGED zone, req'[r].todo = rest
  PROVE  \E left : /\ Closing(left, sts, Z)'
                   /\ Prepared(st, left)' => Ready(r)'
<1>1. CASE rest = all
  <2>1. rest # <<>> /\ Head(rest) = st /\ Tail(rest) = sts
    <3>1. CASE all = <<st>> /\ sts = <<>>
      <4>1. <<st>> # <<>> /\ Head(<<st>>) = st /\ Tail(<<st>>) = <<>> OBVIOUS
      <4> QED BY <1>1, <3>1, <4>1, Zenon
    <3>2. ASSUME NEW last, all = <<st, last>>, sts = <<last>>
          PROVE  rest # <<>> /\ Head(rest) = st /\ Tail(rest) = sts
      <4>1. /\ <<st, last>> # <<>> /\ Head(<<st, last>>) = st
            /\ Tail(<<st, last>>) = <<last>>
        OBVIOUS
      <4> QED BY <1>1, <3>2, <4>1, Zenon
    <3> QED BY <3>1, <3>2
  <2>2. Closing(sts, sts, Z)' BY DEF Closing
  <2> QED BY <2>1, <2>2, MoreLeft
<1>2. ASSUME NEW g \in Greenhouse, Z = ZonesIn(g), rest = Append(all, <<"drop", g>>)
      PROVE  \E left : /\ Closing(left, sts, Z)'
                       /\ Prepared(st, left)' => Ready(r)'
  <2>1. PICK left, drop : drop = <<"drop", g>> /\ left = Append(sts, drop) OBVIOUS
  <2>2. rest # <<>> /\ Head(rest) = st /\ Tail(rest) = left
    <3>1. CASE all = <<st>> /\ sts = <<>>
      <4>1. rest = Append(<<st>>, drop) /\ left = Append(<<>>, drop)
        BY <1>2, <2>1, <3>1, Zenon
      <4>2. Append(<<st>>, drop) = <<st, drop>> BY ShortSequences
      <4>3. /\ <<st, drop>> # <<>> /\ Head(<<st, drop>>) = st
            /\ Tail(<<st, drop>>) = <<drop>> /\ Append(<<>>, drop) = <<drop>>
        OBVIOUS
      <4> QED BY <4>1, <4>2, <4>3, Zenon
    <3>2. ASSUME NEW last, all = <<st, last>>, sts = <<last>>
          PROVE  rest # <<>> /\ Head(rest) = st /\ Tail(rest) = left
      <4>1. rest = Append(<<st, last>>, drop) /\ left = Append(<<last>>, drop)
        BY <1>2, <2>1, <3>2, Zenon
      <4>2. Append(<<st, last>>, drop) = <<st, last, drop>> BY ShortSequences
      <4>3. Append(<<last>>, drop) = <<last, drop>> BY ShortSequences
      <4>4. /\ <<st, last, drop>> # <<>> /\ Head(<<st, last, drop>>) = st
            /\ Tail(<<st, last, drop>>) = <<last, drop>>
        OBVIOUS
      <4> QED BY <4>1, <4>2, <4>3, <4>4, Zenon
    <3> QED BY <3>1, <3>2
  <2>3. ZonesIn(g)' = Z BY <1>2 DEF ZonesIn
  <2>4. Closing(left, sts, Z)' BY <2>1, <2>3 DEF Closing
  <2> QED BY <2>2, <2>4, MoreLeft
<1> QED BY <1>1, <1>2 DEF Closing

LEMMA OpenSparePrepares ==
  ASSUME TypeOK, InPlace, NEW r \in Request, Ready(r), NEW g \in Greenhouse,
         OpenSpare(r, g)
  PROVE  Ready(r)' /\ InPlace'
<1>1. Ready(r)' BY LastLeaves DEF OpenSpare, Last
<1>2. /\ UNCHANGED <<greenhouse, zone, place, hub, logged>>
      /\ controller' = [controller EXCEPT ![g] = req[r].user]
      /\ req[r].user \in User \cup {Null}
  BY DEF OpenSpare, TypeOK
<1>3. \A c \in Controller : controller[c] # Absent => controller'[c] # Absent
  BY <1>2, NullAssumption DEF TypeOK
<1> QED BY <1>1, <1>2, <1>3 DEF InPlace, TypeOK

LEMMA SetOwnerPrepares ==
  ASSUME TypeOK, InPlace, NEW r \in Request, Ready(r), NEW b \in Board, SetOwner(r, b)
  PROVE  Ready(r)' /\ InPlace'
<1>1. Ready(r)' BY LastLeaves DEF SetOwner, Last
<1>2. /\ UNCHANGED <<greenhouse, zone, place, hub, logged>>
      /\ controller' = [controller EXCEPT ![b] = req[r].user]
      /\ req[r].user \in User \cup {Null}
  BY DEF SetOwner, TypeOK
<1>3. \A c \in Controller : controller[c] # Absent => controller'[c] # Absent
  BY <1>2, NullAssumption DEF TypeOK
<1> QED BY <1>1, <1>2, <1>3 DEF InPlace, TypeOK

LEMMA ZonePrepares ==
  ASSUME TypeOK, InPlace, NEW r \in Request, Ready(r), NEW z \in Zone,
         NEW g \in Greenhouse, OpenZone(r, z, g) \/ BareZone(r, z, g)
  PROVE  Ready(r)' /\ InPlace'
<1>1. PICK st \in {<<"openZone", z, g>>, <<"bareZone", z, g>>} : At(r, st) /\ Go(r)
  BY DEF OpenZone, BareZone
<1>2. Prepared(st, <<>>) /\ Ready(r)' BY <1>1, LastLeaves DEF Last
<1>3. greenhouse[g] # Absent BY <1>1, <1>2 DEF Prepared
<1>4. PICK new : new = [gh |-> g, ctl |-> Null] OBVIOUS
<1>5. /\ UNCHANGED <<greenhouse, controller, place, hub, logged>>
      /\ zone' = [zone EXCEPT ![z] = new]
  BY <1>4 DEF OpenZone, BareZone
<1>6. new # Absent /\ new.gh = g
  <2>1. new \in [gh : Greenhouse, ctl : Board \cup Greenhouse \cup {Null}] BY <1>4
  <2> QED BY <1>4, <2>1, NullAssumption
<1> QED BY <1>2, <1>3, <1>5, <1>6 DEF InPlace, TypeOK

LEMMA UpdatePrepares ==
  ASSUME TypeOK, InPlace, NEW r \in Request, Ready(r), NEW i \in Item,
         NEW z \in Zone \cup {Null}, Place(r, i, z) \/ Move(r, i, z)
  PROVE  Ready(r)' /\ InPlace'
<1>1. PICK st \in {<<"place", i, z>>, <<"move", i, z>>} : At(r, st) /\ Update(r, i, z)
  BY DEF Place, Move
<1>2. Go(r) BY <1>1 DEF Update
<1>3. Prepared(st, <<>>) /\ Ready(r)' BY <1>1, <1>2, LastLeaves DEF Last
<1>4. z = Null \/ zone[z] # Absent BY <1>1, <1>3 DEF Prepared
<1>5. /\ UNCHANGED <<greenhouse, controller, zone, hub, logged>>
      /\ place' = [place EXCEPT ![i] = IF @ = Absent THEN Absent ELSE z]
  BY <1>1 DEF Update
<1>6. z # Absent /\ Absent \notin Zone /\ Null \notin Zone BY NullAssumption
<1>7. \A j \in Item : /\ place'[j] = Absent <=> place[j] = Absent
                      /\ place'[j] \in Zone => zone[place'[j]] # Absent
  BY <1>4, <1>5, <1>6 DEF InPlace, TypeOK
<1>8. logged \subseteq Item BY DEF TypeOK, Item
<1> QED BY <1>3, <1>5, <1>7, <1>8 DEF InPlace

(* Taking items out of their zones.                                        *)
LEMMA ClearInPlace ==
  ASSUME TypeOK, InPlace, NEW r, NEW what, NEW kind \in SUBSET Item,
         NEW Z \in SUBSET Zone, Clear(r, what, kind, Z)
  PROVE  /\ InPlace' /\ NoneIn(kind, Z)'
         /\ \A other \in SUBSET Item : NoneIn(other, Z) => NoneIn(other, Z)'
<1>1. /\ UNCHANGED <<greenhouse, controller, zone, hub, logged>>
      /\ place' = [i \in Item |->
                     IF i \in kind /\ place[i] \in Z THEN Null ELSE place[i]]
  BY DEF Clear
<1>2. Null # Absent /\ Absent \notin Zone /\ Null \notin Zone BY NullAssumption
<1>3. \A j \in Item : /\ place'[j] = Absent <=> place[j] = Absent
                      /\ place'[j] \in Zone => zone[place'[j]] # Absent
  BY <1>1, <1>2 DEF InPlace, TypeOK
<1>4. logged \subseteq Item BY DEF TypeOK, Item
<1>5. InPlace' BY <1>1, <1>3, <1>4 DEF InPlace
<1>6. NoneIn(kind, Z)' BY <1>1, <1>2 DEF NoneIn
<1>7. ASSUME NEW other \in SUBSET Item, NoneIn(other, Z) PROVE NoneIn(other, Z)'
  BY <1>1, <1>2, <1>7 DEF NoneIn
<1> QED BY <1>5, <1>6, <1>7

LEMMA ClearSensorsPrepares ==
  ASSUME TypeOK, InPlace, NEW r \in Request, Ready(r), NEW Z \in SUBSET Zone,
         ClearSensors(r, Z)
  PROVE  Ready(r)' /\ InPlace'
<1>1. /\ At(r, <<"clearSensors", Z>>) /\ Go(r) /\ UNCHANGED zone
      /\ Clear(r, "clearSensors", Sensor, Z)
  BY DEF ClearSensors, Clear
<1>2. InPlace' /\ NoneIn(Sensor, Z)' BY <1>1, ClearInPlace DEF Item
<1>3. PICK rest : Prepared(<<"clearSensors", Z>>, rest) /\ req'[r].todo = rest
  BY <1>1, Prepares
<1>4. PICK st, sts : st = <<"clearDevices", Z>> /\ sts = <<<<"dropZones", Z>>>> OBVIOUS
<1>5. PICK all : all = <<st, <<"dropZones", Z>>>> OBVIOUS
<1>6. Closing(rest, all, Z) BY <1>3, <1>4, <1>5 DEF Prepared
<1>7. PICK left : Closing(left, sts, Z)' /\ (Prepared(st, left)' => Ready(r)')
  BY <1>1, <1>3, <1>4, <1>5, <1>6, ClosingNext
<1>8. Prepared(st, left)' BY <1>2, <1>4, <1>7 DEF Prepared, Last
<1> QED BY <1>2, <1>7, <1>8

LEMMA ClearDevicesPrepares ==
  ASSUME TypeOK, InPlace, NEW r \in Request, Ready(r), NEW Z \in SUBSET Zone,
         ClearDevices(r, Z)
  PROVE  Ready(r)' /\ InPlace'
<1>1. /\ At(r, <<"clearDevices", Z>>) /\ Go(r) /\ UNCHANGED zone
      /\ Clear(r, "clearDevices", Device, Z)
  BY DEF ClearDevices, Clear
<1>2. PICK rest : Prepared(<<"clearDevices", Z>>, rest) /\ req'[r].todo = rest
  BY <1>1, Prepares
<1>3. NoneIn(Sensor, Z) BY <1>2 DEF Prepared
<1>4. InPlace' /\ NoneIn(Device, Z)' /\ NoneIn(Sensor, Z)'
  BY <1>1, <1>3, ClearInPlace DEF Item
<1>5. NoneIn(Item, Z)' BY <1>4 DEF NoneIn, Item
<1>6. PICK st : st = <<"dropZones", Z>> OBVIOUS
<1>7. Closing(rest, <<st>>, Z) BY <1>2, <1>6 DEF Prepared
<1>8. PICK left : Closing(left, <<>>, Z)' /\ (Prepared(st, left)' => Ready(r)')
  BY <1>1, <1>2, <1>7, ClosingNext
<1>9. Prepared(st, left)' BY <1>5, <1>6, <1>8 DEF Prepared, Last
<1> QED BY <1>4, <1>8, <1>9

LEMMA DropZonesPrepares ==
  ASSUME TypeOK, InPlace, NEW r \in Request, Ready(r), NEW Z \in SUBSET Zone,
         DropZones(r, Z)
  PROVE  Ready(r)' /\ InPlace'
<1>1. /\ At(r, <<"dropZones", Z>>) /\ Go(r)
      /\ UNCHANGED <<greenhouse, controller, place, hub, logged>>
      /\ zone' = [z \in Zone |-> IF z \in Z THEN Absent ELSE zone[z]]
  BY DEF DropZones
<1>2. PICK rest : Prepared(<<"dropZones", Z>>, rest) /\ req'[r].todo = rest
  BY <1>1, Prepares
<1>3. NoneIn(Item, Z) /\ Closing(rest, <<>>, Z) BY <1>2 DEF Prepared
<1>4. InPlace' BY <1>1, <1>3 DEF InPlace, NoneIn
<1>5. rest = <<>> => Ready(r)' BY <1>2, NothingLeft
<1>6. ASSUME NEW g \in Greenhouse, Z = ZonesIn(g), rest = Append(<<>>, <<"drop", g>>)
      PROVE  Ready(r)'
  <2>1. req'[r].todo = <<<<"drop", g>>>> BY <1>2, <1>6
  <2>2. ZonesIn(g)' = {} BY <1>1, <1>6 DEF ZonesIn
  <2>3. Prepared(<<"drop", g>>, <<>>)' BY <2>2 DEF Prepared, Last
  <2> QED BY <2>1, <2>3, OneLeft
<1> QED BY <1>3, <1>4, <1>5, <1>6 DEF Closing

LEMMA DropGreenhousePrepares ==
  ASSUME TypeOK, InPlace, NEW r \in Request, Ready(r), NEW g \in Greenhouse,
         DropGreenhouse(r, g)
  PROVE  Ready(r)' /\ InPlace'
<1>1. At(r, <<"drop", g>>) /\ Go(r) BY DEF DropGreenhouse
<1>2. Prepared(<<"drop", g>>, <<>>) /\ Ready(r)' BY <1>1, LastLeaves DEF Last
<1>3. ZonesIn(g) = {} BY <1>2 DEF Prepared
<1>4. \A z \in Zone : zone[z] # Absent => zone[z].gh # g BY <1>3 DEF ZonesIn
<1>5. /\ UNCHANGED <<controller, zone, place, hub, logged>>
      /\ greenhouse' = [greenhouse EXCEPT ![g] = Absent]
      /\ \A z \in Zone : zone[z] # Absent => zone[z].gh \in Greenhouse
  BY DEF DropGreenhouse, TypeOK, ZoneRow
<1> QED BY <1>2, <1>4, <1>5 DEF InPlace, TypeOK

LEMMA ForgetPrepares ==
  ASSUME TypeOK, InPlace, NEW r \in Request, Ready(r), NEW s \in Item, Forget(r, s)
  PROVE  Ready(r)' /\ InPlace'
<1>1. /\ At(r, <<"forget", s>>) /\ Go(r) /\ logged' = logged \ {s}
      /\ UNCHANGED <<greenhouse, controller, zone, place, hub>>
  BY DEF Forget
<1>2. PICK rest : Prepared(<<"forget", s>>, rest) /\ req'[r].todo = rest
  BY <1>1, Prepares
<1>3. rest = <<<<"remove", s>>>> BY <1>2 DEF Prepared
<1>4. Prepared(<<"remove", s>>, <<>>)' BY <1>1 DEF Prepared, Last
<1>5. Ready(r)' BY <1>2, <1>3, <1>4, OneLeft
<1> QED BY <1>1, <1>5 DEF InPlace

LEMMA RemovePrepares ==
  ASSUME TypeOK, InPlace, NEW r \in Request, Ready(r), NEW i \in Item, Remove(r, i)
  PROVE  Ready(r)' /\ InPlace'
<1>1. At(r, <<"remove", i>>) /\ Go(r) BY DEF Remove
<1>2. Prepared(<<"remove", i>>, <<>>) /\ Ready(r)' BY <1>1, LastLeaves DEF Last
<1>3. i \notin logged BY <1>2 DEF Prepared
<1>4. /\ UNCHANGED <<greenhouse, controller, zone, logged>>
      /\ place' = [place EXCEPT ![i] = Absent] /\ hub' = [hub EXCEPT ![i] = Null]
      /\ logged \subseteq Item /\ Absent \notin Zone
  BY NullAssumption DEF Remove, TypeOK, Item
<1> QED BY <1>2, <1>3, <1>4 DEF InPlace, TypeOK

LEMMA CommitPrepares ==
  ASSUME TypeOK, InPlace, NEW r \in Request, Ready(r), NEW i \in Item, NEW b \in Board,
         NEW new \in BOOLEAN, Commit(r, i, b, new)
  PROVE  Ready(r)' /\ InPlace'
<1>1. At(r, <<"report", i, b, new>>) /\ Go(r) BY DEF Commit
<1>2. Prepared(<<"report", i, b, new>>, <<>>) /\ Ready(r)'
  BY <1>1, LastLeaves DEF Last
<1>3. controller[b] # Absent /\ (new \/ place[i] # Absent) BY <1>2 DEF Prepared
<1>4. UNCHANGED <<greenhouse, controller, zone>> /\ logged' \subseteq logged \cup {i}
  BY DEF Commit
<1>5. b # Null /\ Null # Absent /\ Null \notin Zone
  BY <1>3, NullAssumption
<1>6. \A j \in Item : /\ place'[j] # Absent <=> place[j] # Absent \/ j = i
                      /\ place'[j] \in Zone => place'[j] = place[j]
                      /\ hub'[j] = IF new /\ j = i THEN b ELSE hub[j]
  BY <1>3, <1>5 DEF Commit, TypeOK
<1>7. logged \subseteq Item BY DEF TypeOK, Item
<1> QED BY <1>2, <1>3, <1>4, <1>5, <1>6, <1>7 DEF InPlace

LEMMA StillPrepared ==
  ASSUME UNCHANGED rows, NEW st, NEW rest, Prepared(st, rest)
  PROVE  Prepared(st, rest)'
<1>1. UNCHANGED <<greenhouse, controller, zone, place, logged>> BY DEF rows
<1>2. \A g : ZonesIn(g)' = ZonesIn(g) BY <1>1 DEF ZonesIn
<1>3. \A sts, Z : Closing(rest, sts, Z) => Closing(rest, sts, Z)'
  BY <1>2 DEF Closing
<1>4. \A kind, Z : NoneIn(kind, Z) => NoneIn(kind, Z)' BY <1>1 DEF NoneIn
<1> QED BY <1>1, <1>2, <1>3, <1>4 DEF Prepared

LEMMA WritingPrepares ==
  ASSUME TypeOK, InPlace, NEW r \in Request, Ready(r), Writing(r)
  PROVE  Ready(r)' /\ InPlace'
<1>1. Sensor \subseteq Item BY DEF Item
<1> QED
  BY <1>1, OpenSparePrepares, SetOwnerPrepares, ZonePrepares, UpdatePrepares,
     ClearSensorsPrepares, ClearDevicesPrepares, DropZonesPrepares,
     DropGreenhousePrepares, ForgetPrepares, RemovePrepares, CommitPrepares
  DEF Writing

LEMMA SoloStep ==
  ASSUME TypeOK, Quiet, Solo, BothNext
  PROVE  Quiet' /\ Solo'
<1>1. world' = world BY StepsAre
<1>2. PICK r \in world.clients :
        \/ AtOnce(r) \/ Selecting(r) \/ Creating(r) \/ Looking(r) \/ Writing(r)
        \/ \E u \in User, b \in Board : OldAssign(r, u, b)
  BY StepsAre
<1>3. r \in Request BY TheWorld
<1>4. \A q \in Request : q # r => req'[q] = req[q]
  <2>1. AtOnce(r) => req' = req BY AtOnceTypes DEF AtOnce
  <2>2. Selecting(r) => \A q \in Request : q # r => req'[q] = req[q]
    BY SelectingPrepares
  <2>3. Creating(r) => \A q \in Request : q # r => req'[q] = req[q]
    <3>1. SUFFICES ASSUME Creating(r)
                   PROVE  \A q \in Request : q # r => req'[q] = req[q]
      OBVIOUS
    <3>2. \E u, todo : Start(r, u, todo)
      BY <3>1 DEF Creating, CreateGreenhouse, CreateZone, OldCreateZone
    <3> QED BY <1>3, <3>2, Begins
  <2>4. Looking(r) => \A q \in Request : q # r => req'[q] = req[q]
    <3>1. SUFFICES ASSUME Looking(r)
                   PROVE  \A q \in Request : q # r => req'[q] = req[q]
      OBVIOUS
    <3>2. \E todo : Left(r, todo)
      BY <3>1 DEF Looking, ListZones, OwnController, FirstZone, Fail
    <3> QED BY <1>3, <3>2, Leaves
  <2>5. Writing(r) => \A q \in Request : q # r => req'[q] = req[q]
    BY <1>3, WritingGoesOn, Leaves DEF Go
  <2>6. (\E u \in User, b \in Board : OldAssign(r, u, b))
          => \A q \in Request : q # r => req'[q] = req[q]
    BY <1>3, OldAssignPrepares
  <2> QED BY <1>2, <2>1, <2>2, <2>3, <2>4, <2>5, <2>6
<1>5. Quiet' BY <1>1, <1>4 DEF Quiet
<1>6. ASSUME OneAtATime PROVE Ready(r)' /\ InPlace'
  <2>1. InPlace /\ Ready(r) BY <1>3, <1>6 DEF Solo
  <2>2. AtOnce(r) => Ready(r)' /\ InPlace' BY <2>1, AtOnceInPlace
  <2>3. Selecting(r) => Ready(r)' /\ InPlace'
    BY <2>1, SelectingTypes, SelectingPrepares, StillInPlace
  <2>4. Creating(r) => Ready(r)' /\ InPlace' BY <2>1, CreatingPrepares
  <2>5. Looking(r) => Ready(r)' /\ InPlace'
    BY <2>1, LookingTypes, LookingPrepares, StillInPlace DEF Looking
  <2>6. Writing(r) => Ready(r)' /\ InPlace' BY <1>3, <2>1, WritingPrepares
  <2>7. (\E u \in User, b \in Board : OldAssign(r, u, b)) => Ready(r)' /\ InPlace'
    BY <1>3, <2>1, OldAssignTypes, OldAssignPrepares, StillInPlace
  <2> QED BY <1>2, <2>2, <2>3, <2>4, <2>5, <2>6, <2>7
<1>7. OneAtATime' => OneAtATime BY <1>1 DEF OneAtATime
<1>8. OneAtATime => Solo' BY <1>1, <1>4, <1>6, Settles
<1>9. ~ OneAtATime => Solo' BY <1>7 DEF Solo
<1> QED BY <1>5, <1>8, <1>9

(* The transaction that inserts a zone inserts its alarm state too.        *)
LEMMA AlarmsStep ==
  ASSUME TypeOK, WithAlarms, BothNext
  PROVE  WithAlarms'
<1> SUFFICES ASSUME ~world'.legacy PROVE \A z \in Zone : zone'[z] # Absent => z \in alarms'
  BY DEF WithAlarms
<1>1. world' = world BY StepsAre
<1>2. PICK r \in world.clients : Handle(r) \/ Run(r)
  BY <1>1 DEF BothNext, Next, OldNext
<1>3. /\ \A z \in Zone : zone[z] # Absent => z \in alarms
      /\ zone \in [Zone -> ZoneRow \cup {Absent}]
  BY <1>1 DEF WithAlarms, TypeOK
<1>4. CASE UNCHANGED <<zone, alarms>> BY <1>3, <1>4
<1>5. ASSUME NEW z \in Zone, NEW c \in Controller \cup {Null}, AssignZoneController(r, z, c)
      PROVE  \A y \in Zone : zone'[y] # Absent => y \in alarms'
  BY <1>3, <1>5 DEF AssignZoneController
<1>6. ASSUME NEW z \in Zone, NEW g, OpenZone(r, z, g)
      PROVE  \A y \in Zone : zone'[y] # Absent => y \in alarms'
  BY <1>3, <1>6 DEF OpenZone
<1>7. ASSUME NEW Z, DropZones(r, Z)
      PROVE  \A y \in Zone : zone'[y] # Absent => y \in alarms'
  BY <1>3, <1>7 DEF DropZones
<1>8. CASE Handle(r)
  <2>1. AtOnce(r) \/ Selecting(r) \/ Creating(r) BY <1>8, HandlersHere
  <2>2. Selecting(r) => UNCHANGED <<zone, alarms>> BY SelectingTypes DEF rows
  <2>3. Creating(r) => UNCHANGED <<zone, alarms>> BY CreatingTypes
  <2>4. AtOnce(r) => \/ UNCHANGED <<zone, alarms>>
                     \/ \E z \in Zone, c \in Controller \cup {Null} : AssignZoneController(r, z, c)
    BY DEF AtOnce, Assign, RemoveController, Announce
  <2> QED BY <1>4, <1>5, <2>1, <2>2, <2>3, <2>4
<1>9. CASE Run(r)
  <2>1. \/ UNCHANGED <<zone, alarms>>
        \/ \E z \in Zone, g \in Greenhouse : OpenZone(r, z, g)
        \/ \E Z \in SUBSET Zone : DropZones(r, Z)
    BY <1>9 DEF Run, OpenSpare, ListZones, DropGreenhouse, Place, Move, Update,
       ClearSensors, ClearDevices, Clear, OwnController, FirstZone, Forget, Remove,
       Commit, Fail, rows
  <2> QED BY <1>4, <1>6, <1>7, <2>1
<1> QED BY <1>2, <1>8, <1>9

TidyInv == TypeOK /\ Quiet /\ Solo /\ WithAlarms

LEMMA TidyInit == Init => TidyInv
<1> SUFFICES ASSUME Init PROVE TidyInv OBVIOUS
<1>1. TypeOK BY InitTypes
<1>2. \A r \in Request : req[r] = Idle /\ req[r].todo = <<>> BY DEF Init, Idle
<1>3. Quiet /\ \A r \in Request : Ready(r) BY <1>2 DEF Quiet, Ready
<1>4. InPlace /\ WithAlarms BY NullAssumption DEF Init, InPlace, WithAlarms
<1> QED BY <1>1, <1>3, <1>4 DEF TidyInv, Solo

LEMMA TidyStep == TidyInv /\ [BothNext]_vars => TidyInv'
<1>1. ASSUME TidyInv, BothNext PROVE TidyInv'
  BY <1>1, TypeStep, SoloStep, AlarmsStep DEF TidyInv
<1>2. ASSUME TidyInv, UNCHANGED vars PROVE TidyInv'
  <2>1. TypeOK' BY <1>2 DEF TidyInv, TypeOK, vars, rows
  <2>2. Quiet' /\ WithAlarms' BY <1>2 DEF TidyInv, Quiet, WithAlarms, vars, rows
  <2>3. InPlace => InPlace' BY <1>2, StillInPlace DEF vars
  <2>4. ASSUME NEW q \in Request, Ready(q) PROVE Ready(q)'
    <3>1. req' = req /\ UNCHANGED rows BY <1>2 DEF vars
    <3>2. PICK st, rest : st = Head(req[q].todo) /\ rest = Tail(req[q].todo) OBVIOUS
    <3>3. req[q].todo # <<>> => Prepared(st, rest)' BY <2>4, <3>1, <3>2, StillPrepared DEF Ready
    <3> QED BY <3>1, <3>2, <3>3 DEF Ready
  <2>5. Solo' BY <1>2, <2>3, <2>4 DEF TidyInv, Solo, OneAtATime, vars
  <2> QED BY <2>1, <2>2, <2>5 DEF TidyInv
<1> QED BY <1>1, <1>2

(* When no requests overlap no zone is left without its greenhouse and no  *)
(* reading without its sensor, also when a statement fails; and unless the *)
(* older router is used no zone is ever without its alarm state.           *)
THEOREM NothingIsLeftBehind == BothSpec => []NothingLeftBehind
<1>1. TidyInv => NothingLeftBehind
  <2> SUFFICES ASSUME TidyInv PROVE NothingLeftBehind OBVIOUS
  <2>1. ASSUME OneAtATime, NEW z \in Zone, zone[z] # Absent
        PROVE  \E u \in User : z \in AllZones(u)
    <3>1. greenhouse[zone[z].gh] # Absent BY <2>1 DEF TidyInv, Solo, InPlace
    <3>2. zone[z].gh \in Greenhouse BY <2>1 DEF TidyInv, TypeOK, ZoneRow
    <3>3. greenhouse[zone[z].gh] \in User BY <3>1, <3>2 DEF TidyInv, TypeOK
    <3> QED BY <2>1, <3>3 DEF AllZones, OwnsZone
  <2>2. OneAtATime => \A s \in logged : place[s] # Absent
    BY DEF TidyInv, Solo, InPlace
  <2> QED BY <2>1, <2>2 DEF TidyInv, WithAlarms, NothingLeftBehind
<1> QED BY TidyInit, TidyStep, <1>1, PTL DEF BothSpec

(* A node that has reported can be found by its owner, after every step of *)
(* every handler, as long as no requests overlap.                          *)
THEOREM NodesAreFound == BothSpec => []NodesCanBeFound
<1>1. TidyInv => NodesCanBeFound
  <2> SUFFICES ASSUME TidyInv, OneAtATime, NEW i \in Item, place[i] # Absent
               PROVE  \/ \E u \in User :
                           \/ i \in UnassignedSensors(u) \cup UnassignedDevices(u)
                           \/ \E g \in GreenhousesOf(u) :
                                i \in GreenhouseSensors(u, g) \cup GreenhouseDevices(g)
                      \/ place[i] = Null /\ controller[hub[i]] = Null
    BY DEF NodesCanBeFound
  <2>1. TypeOK /\ InPlace BY DEF TidyInv, Solo
  <2>2. place[i] \in Zone \/ place[i] = Null BY <2>1 DEF TypeOK
  <2>3. CASE place[i] \in Zone
    <3>1. zone[place[i]] # Absent BY <2>1, <2>3 DEF InPlace
    <3>2. PICK g : g = zone[place[i]].gh OBVIOUS
    <3>3. g \in Greenhouse BY <2>1, <2>3, <3>1, <3>2 DEF TypeOK, ZoneRow
    <3>4. greenhouse[g] \in User BY <2>1, <2>3, <3>1, <3>2, <3>3 DEF InPlace, TypeOK
    <3>5. place[i] \in ZonesIn(g) BY <2>3, <3>1, <3>2 DEF ZonesIn
    <3>6. g \in GreenhousesOf(greenhouse[g]) BY <3>3 DEF GreenhousesOf
    <3>7. i \in GreenhouseSensors(greenhouse[g], g) \cup GreenhouseDevices(g)
      BY <3>5 DEF GreenhouseSensors, GreenhouseDevices, Item
    <3> QED BY <3>4, <3>6, <3>7
  <2>4. CASE place[i] = Null
    <3>1. hub[i] # Null /\ controller[hub[i]] # Absent BY <2>1 DEF InPlace
    <3>2. controller[hub[i]] \in User \/ controller[hub[i]] = Null
      BY <2>1, <3>1 DEF TypeOK
    <3>3. i \in UnassignedSensors(controller[hub[i]]) \cup UnassignedDevices(controller[hub[i]])
      BY <2>4, <3>1 DEF UnassignedSensors, UnassignedDevices, Item
    <3> QED BY <2>4, <3>2, <3>3
  <2> QED BY <2>2, <2>3, <2>4
<1> QED BY TidyInit, TidyStep, <1>1, PTL DEF BothSpec
-------------------------------------------------------------------------------
Orderly == ForeignKeys \/ OneAtATime

KeysInv == Orderly => KInv

LEMMA OrderlyReferences ==
  ASSUME TidyInv, Orderly, NEW r \in world.clients
  PROVE  NoneDangles(r)
<1>0. r \in Request /\ req \in ReqType BY TheWorld, TypeIs DEF TidyInv
<1>1. CASE ForeignKeys
  BY <1>1 DEF NoneDangles, DropGreenhouse, OpenZone, BareZone
<1>2. CASE OneAtATime
  <2>1. \A st : At(r, st) => Prepared(st, Tail(req[r].todo))
    BY <1>0, <1>2 DEF TidyInv, Solo, Ready, At
  <2>2. ASSUME NEW g \in Greenhouse, DropGreenhouse(r, g) PROVE ZonesIn(g) = {}
    <3>1. Prepared(<<"drop", g>>, Tail(req[r].todo)) BY <2>1, <2>2 DEF DropGreenhouse
    <3> QED BY <3>1 DEF Prepared
  <2>3. ASSUME NEW z \in Zone, NEW g \in Greenhouse, OpenZone(r, z, g) \/ BareZone(r, z, g)
        PROVE  greenhouse[g] # Absent
    <3>1. \/ Prepared(<<"openZone", z, g>>, Tail(req[r].todo))
          \/ Prepared(<<"bareZone", z, g>>, Tail(req[r].todo))
      BY <2>1, <2>3 DEF OpenZone, BareZone
    <3> QED BY <3>1 DEF Prepared
  <2> QED BY <2>2, <2>3 DEF NoneDangles
<1> QED BY <1>1, <1>2 DEF Orderly

LEMMA KeysStep ==
  IInv /\ IInv' /\ TidyInv /\ KeysInv /\ [BothNext]_vars => KeysInv'
<1>1. ASSUME IInv, IInv', TidyInv, KInv, Orderly, BothNext PROVE KInv'
  <2>1. PICK r \in world.clients :
          /\ GoodNext(r) /\ Moves(r)
          /\ \A q \in Request : q # r => req'[q] = req[q]
    BY <1>1, OrderlyReferences, StepMoves
  <2>2. r \in Request BY <1>1, TheWorld DEF IInv
  <2> QED BY <1>1, <2>1, <2>2, KStep
<1>2. ASSUME KInv, UNCHANGED vars PROVE KInv'
  BY <1>2 DEF vars, rows, KInv, Checked, Good, Known, Mine, OwnsZone, Pending, Zoning,
     Rooted, Numbered, OpenOnce
<1>3. BothNext => world' = world BY DEF BothNext, Next, OldNext
<1> QED BY <1>1, <1>2, <1>3 DEF KeysInv, Orderly, ForeignKeys, OneAtATime, vars

-------------------------------------------------------------------------------
(* What a handler has found out about nodes and controllers stays true when*)
(* requests come one at a time.                                            *)
NodesGood(r) ==
  \A n \in DOMAIN req[r].todo : NodesAreHis(req[r].user, req[r].todo[n])

(* When the zone of the new controller is looked for, that is the user's.  *)
OwnFirst(r) ==
  \A s, c : req[r].todo = <<<<"zoneOf", s, c>>>> => controller[c] = req[r].user

NodesChecked == OneAtATime => \A r \in Request : NodesGood(r) /\ OwnFirst(r)

NodeTags == {"place", "forget", "remove", "zoneOf", "move", "setOwner", "report"}

LEMMA OtherStatements ==
  ASSUME NEW u, NEW st, st[1] \notin NodeTags
  PROVE  NodesAreHis(u, st) /\ NodesAreHis(u, st)'
BY DEF NodesAreHis, NodeTags

LEMMA NodesStay ==
  ASSUME NEW u, NEW st, UNCHANGED rows, NodesAreHis(u, st)
  PROVE  NodesAreHis(u, st)'
<1>1. UNCHANGED <<greenhouse, zone, controller, place>> BY DEF rows
<1> QED BY <1>1 DEF NodesAreHis, HoldsItem, OwnsZone, ThroughController

LEMMA NodesLeft ==
  ASSUME TypeOK, NEW r \in Request, NEW todo, Left(r, todo), NEW u, u = req[r].user,
         \A n \in DOMAIN todo : NodesAreHis(u, todo[n])',
         \A s, c : todo = <<<<"zoneOf", s, c>>>> => controller'[c] = u
  PROVE  NodesGood(r)' /\ OwnFirst(r)'
<1>1. req'[r].todo = todo BY Leaves
<1>2. todo # <<>> => req'[r].user = req[r].user
  <2>1. ASSUME todo # <<>> PROVE req'[r].user = req[r].user
    <3>1. /\ req'[r] = [req[r] EXCEPT !.todo = todo]
          /\ req[r] \in [user : User \cup {Null}, todo : Seq(Statement)]
      BY <2>1, TypeIs DEF Left, ReqType
    <3> QED BY <3>1
  <2> QED BY <2>1
<1>3. NodesGood(r)'
  <2>1. CASE todo = <<>> BY <1>1, <2>1 DEF NodesGood
  <2>2. CASE todo # <<>> BY <1>1, <1>2, <2>2 DEF NodesGood
  <2> QED BY <2>1, <2>2
<1>4. OwnFirst(r)'
  <2>1. ASSUME NEW s, NEW c, todo = <<<<"zoneOf", s, c>>>>
        PROVE  controller'[c] = req'[r].user
    <3>1. todo # <<>> BY <2>1
    <3> QED BY <1>2, <2>1, <3>1
  <2> QED BY <1>1, <2>1 DEF OwnFirst
<1> QED BY <1>3, <1>4

LEMMA NodesStart ==
  ASSUME TypeOK, NEW r \in Request, NEW u, NEW todo, Start(r, u, todo),
         \A n \in DOMAIN todo : NodesAreHis(u, todo[n])',
         \A s, c : todo # <<<<"zoneOf", s, c>>>>
  PROVE  NodesGood(r)' /\ OwnFirst(r)'
<1>1. req'[r].todo = todo /\ req'[r].user = u BY DEF Start, TypeOK
<1> QED BY <1>1 DEF NodesGood, OwnFirst

LEMMA SelectingNodes ==
  ASSUME TypeOK, NEW r \in world.clients, Selecting(r)
  PROVE  NodesGood(r)' /\ OwnFirst(r)'
<1>0. r \in Request /\ UNCHANGED rows BY TheWorld, SelectingTypes
<1>1. ASSUME NEW u, NEW todo, Start(r, u, todo),
             \A n \in DOMAIN todo : NodesAreHis(u, todo[n]),
             \A s, c : todo # <<<<"zoneOf", s, c>>>>
      PROVE  NodesGood(r)' /\ OwnFirst(r)'
  <2>1. \A n \in DOMAIN todo : NodesAreHis(u, todo[n])' BY <1>0, <1>1, NodesStay
  <2> QED BY <1>0, <1>1, <2>1, NodesStart
<1>2. ASSUME NEW u \in User, NEW g, DeleteGreenhouse(r, u, g) PROVE NodesGood(r)' /\ OwnFirst(r)'
  <2>1. NodesAreHis(u, <<"listZones", g>>) BY OtherStatements DEF NodeTags
  <2>2. Start(r, u, <<<<"listZones", g>>>>) BY <1>2 DEF DeleteGreenhouse
  <2> QED BY <1>1, <2>1, <2>2
<1>3. ASSUME NEW u \in User, NEW z, DeleteZone(r, u, z) PROVE NodesGood(r)' /\ OwnFirst(r)'
  <2>1. /\ NodesAreHis(u, <<"clearSensors", {z}>>)
        /\ NodesAreHis(u, <<"clearDevices", {z}>>)
        /\ NodesAreHis(u, <<"dropZones", {z}>>)
    BY OtherStatements DEF NodeTags
  <2>2. Start(r, u, << <<"clearSensors", {z}>>, <<"clearDevices", {z}>>,
                       <<"dropZones", {z}>> >>)
    BY <1>3 DEF DeleteZone
  <2> QED BY <1>1, <2>1, <2>2
<1>4. ASSUME NEW u \in User, NEW z \in Zone, NEW i, PutInZone(r, u, i, z)
      PROVE  NodesGood(r)' /\ OwnFirst(r)'
  <2>1. NodesAreHis(u, <<"place", i, z>>) BY NullAssumption DEF NodesAreHis
  <2>2. Start(r, u, <<<<"place", i, z>>>>) BY <1>4 DEF PutInZone
  <2> QED BY <1>1, <2>1, <2>2
<1>5. ASSUME NEW u \in User, NEW i, TakeOutOfZone(r, u, i) PROVE NodesGood(r)' /\ OwnFirst(r)'
  <2>1. NodesAreHis(u, <<"place", i, Null>>) BY <1>5 DEF NodesAreHis, TakeOutOfZone
  <2>2. Start(r, u, <<<<"place", i, Null>>>>) BY <1>5 DEF TakeOutOfZone
  <2> QED BY <1>1, <2>1, <2>2
<1>6. ASSUME NEW u \in User, NEW s, DeleteSensor(r, u, s) PROVE NodesGood(r)' /\ OwnFirst(r)'
  <2>1. NodesAreHis(u, <<"forget", s>>) /\ NodesAreHis(u, <<"remove", s>>)
    BY <1>6 DEF NodesAreHis, DeleteSensor
  <2>2. Start(r, u, << <<"forget", s>>, <<"remove", s>> >>) BY <1>6 DEF DeleteSensor
  <2> QED BY <1>1, <2>1, <2>2
<1>7. ASSUME NEW u \in User, NEW d, DeleteDevice(r, u, d) PROVE NodesGood(r)' /\ OwnFirst(r)'
  <2>1. NodesAreHis(u, <<"remove", d>>) BY <1>7 DEF NodesAreHis, DeleteDevice
  <2>2. Start(r, u, <<<<"remove", d>>>>) BY <1>7 DEF DeleteDevice
  <2> QED BY <1>1, <2>1, <2>2
<1>8. ASSUME NEW u \in User, NEW s, NEW c, ChangeController(r, u, s, c)
      PROVE  NodesGood(r)' /\ OwnFirst(r)'
  <2>1. NodesAreHis(u, <<"own", c>>) BY OtherStatements DEF NodeTags
  <2>2. NodesAreHis(u, <<"zoneOf", s, c>>) BY <1>8 DEF NodesAreHis, ChangeController
  <2>3. Start(r, u, << <<"own", c>>, <<"zoneOf", s, c>> >>)
    BY <1>8 DEF ChangeController
  <2> QED BY <1>1, <2>1, <2>2, <2>3
<1>9. ASSUME NEW b, NEW i, Report(r, i, b) PROVE NodesGood(r)' /\ OwnFirst(r)'
  <2>1. NodesAreHis(Null, <<"report", i, b, place[i] = Absent>>) BY DEF NodesAreHis
  <2>2. Start(r, Null, <<<<"report", i, b, place[i] = Absent>>>>) BY <1>9 DEF Report
  <2> QED BY <1>1, <2>1, <2>2
<1> QED BY <1>2, <1>3, <1>4, <1>5, <1>6, <1>7, <1>8, <1>9 DEF Selecting

LEMMA BeginningNodes ==
  ASSUME TypeOK, NEW r \in world.clients,
         Creating(r) \/ \E u \in User, b \in Board : OldAssign(r, u, b)
  PROVE  NodesGood(r)' /\ OwnFirst(r)'
<1>0. r \in Request BY TheWorld
<1>1. ASSUME NEW u, NEW st, Start(r, u, <<st>>), NodesAreHis(u, st)', st[1] # "zoneOf"
      PROVE  NodesGood(r)' /\ OwnFirst(r)'
  BY <1>0, <1>1, NodesStart
<1>2. ASSUME NEW u, NEW st, Start(r, u, <<st>>), st[1] \notin NodeTags
      PROVE  NodesGood(r)' /\ OwnFirst(r)'
  BY <1>1, <1>2, OtherStatements DEF NodeTags
<1>3. ASSUME NEW u, NEW g, CreateGreenhouse(r, u, g) PROVE NodesGood(r)' /\ OwnFirst(r)'
  <2>1. Start(r, u, <<<<"openSpare", g>>>>) BY <1>3 DEF CreateGreenhouse
  <2> QED BY <1>2, <2>1 DEF NodeTags
<1>4. ASSUME NEW u, NEW z, NEW g, CreateZone(r, u, z, g) \/ OldCreateZone(r, u, z, g)
      PROVE  NodesGood(r)' /\ OwnFirst(r)'
  <2>1. \/ Start(r, u, <<<<"openZone", z, g>>>>)
        \/ Start(r, u, <<<<"bareZone", z, g>>>>)
    BY <1>4 DEF CreateZone, OldCreateZone
  <2> QED BY <1>2, <2>1 DEF NodeTags
<1>5. ASSUME NEW u, NEW b, OldAssign(r, u, b) PROVE NodesGood(r)' /\ OwnFirst(r)'
  <2>1. Start(r, u, <<<<"setOwner", b>>>>) /\ controller'[b] = Null
    BY <1>5 DEF OldAssign, rows
  <2>2. NodesAreHis(u, <<"setOwner", b>>)' BY <2>1 DEF NodesAreHis
  <2> QED BY <1>1, <2>1, <2>2
<1> QED BY <1>3, <1>4, <1>5 DEF Creating

LEMMA Single == \A x : Len(<<x>>) = 1 /\ <<x>>[1] = x
OBVIOUS

LEMMA OnlyHead ==
  ASSUME NEW S, NEW todo \in Seq(S), todo # <<>>, Tail(todo) = <<>>
  PROVE  todo = <<Head(todo)>>
<1>1. Len(Tail(todo)) = Len(todo) - 1 /\ Len(todo) \in Nat /\ Head(todo) = todo[1]
  BY HeadTailProperties, LenProperties
<1>2. Len(todo) = 1
  <2>1. Len(<<>>) = 0 OBVIOUS
  <2>2. PICK n, m : n = Len(Tail(todo)) /\ m = Len(todo) OBVIOUS
  <2>3. n = m - 1 /\ n = 0 /\ m \in Nat BY <1>1, <2>1, <2>2, Zenon
  <2> QED BY <2>2, <2>3
<1>3. PICK one : one = <<Head(todo)>> OBVIOUS
<1>4. Head(todo) \in S BY HeadTailProperties
<1>5. one \in Seq(S) /\ Len(one) = 1 /\ one[1] = Head(todo) BY <1>3, <1>4
<1>6. \A i \in 1 .. Len(todo) : todo[i] = one[i] BY <1>1, <1>2, <1>5
<1> QED BY <1>2, <1>3, <1>5, <1>6, SeqEqual

LEMMA LookingNodes ==
  ASSUME TypeOK, NEW r \in world.clients, Ready(r), NodesGood(r),
         OwnFirst(r), Looking(r)
  PROVE  NodesGood(r)' /\ OwnFirst(r)'
<1>0. r \in Request /\ UNCHANGED rows BY TheWorld, LookingTypes DEF Looking
<1>u. PICK u : u = req[r].user OBVIOUS
<1>1. ASSUME NEW todo, Left(r, todo), \A n \in DOMAIN todo : NodesAreHis(u, todo[n]),
             \A s, c : todo = <<<<"zoneOf", s, c>>>> => controller[c] = u
      PROVE  NodesGood(r)' /\ OwnFirst(r)'
  <2>1. \A n \in DOMAIN todo : NodesAreHis(u, todo[n])' BY <1>0, <1>1, NodesStay
  <2> QED BY <1>0, <1>u, <1>1, <2>1, NodesLeft DEF rows
<1>2. Left(r, <<>>) => NodesGood(r)' /\ OwnFirst(r)' BY <1>1
<1>3. ASSUME NEW g \in Greenhouse, ListZones(r, g) PROVE NodesGood(r)' /\ OwnFirst(r)'
  <2>1. PICK Z : Z = ZonesIn(g) OBVIOUS
  <2>2. \/ Left(r, <<<<"drop", g>>>>)
        \/ Left(r, << <<"clearSensors", Z>>, <<"clearDevices", Z>>, <<"dropZones", Z>>,
                      <<"drop", g>> >>)
    BY <1>3, <2>1 DEF ListZones
  <2>3. /\ NodesAreHis(u, <<"drop", g>>) /\ NodesAreHis(u, <<"clearSensors", Z>>)
        /\ NodesAreHis(u, <<"clearDevices", Z>>) /\ NodesAreHis(u, <<"dropZones", Z>>)
    BY OtherStatements DEF NodeTags
  <2>4. CASE Left(r, <<<<"drop", g>>>>) BY <1>1, <2>3, <2>4
  <2>5. CASE Left(r, << <<"clearSensors", Z>>, <<"clearDevices", Z>>,
                        <<"dropZones", Z>>, <<"drop", g>> >>)
    BY <1>1, <2>3, <2>5
  <2> QED BY <2>2, <2>4, <2>5
<1>4. ASSUME NEW c \in Controller, OwnController(r, c) PROVE NodesGood(r)' /\ OwnFirst(r)'
  <2>1. /\ At(r, <<"own", c>>) /\ req[r].todo \in Seq(Statement) /\ req[r].todo # <<>>
    BY <1>0, <1>4, Doing DEF OwnController
  <2>2. Prepared(<<"own", c>>, Tail(req[r].todo)) BY <2>1 DEF Ready, At
  <2>3. PICK s \in Sensor : Tail(req[r].todo) = <<<<"zoneOf", s, c>>>>
    BY <2>2 DEF Prepared
  <2>4. NodesAreHis(u, <<"zoneOf", s, c>>)
    <3>1. /\ Len(Tail(req[r].todo)) = Len(req[r].todo) - 1
          /\ \A i \in 1 .. Len(Tail(req[r].todo)) : Tail(req[r].todo)[i] = req[r].todo[i + 1]
      BY <2>1, HeadTailProperties
    <3>2. Len(Tail(req[r].todo)) = 1 /\ Tail(req[r].todo)[1] = <<"zoneOf", s, c>>
      BY <2>3, Single
    <3>3. req[r].todo[2] = <<"zoneOf", s, c>> /\ 2 \in DOMAIN req[r].todo
      BY <2>1, <3>1, <3>2, LenProperties
    <3> QED BY <1>u, <3>3 DEF NodesGood
  <2>5. ASSUME controller[c] = u, Left(r, Tail(req[r].todo))
        PROVE  NodesGood(r)' /\ OwnFirst(r)'
    <3> DEFINE one == <<"zoneOf", s, c>>
    <3>1. \A t, e : <<one>> = <<<<"zoneOf", t, e>>>> => e = c OBVIOUS
    <3>2. NodesAreHis(u, one) BY <2>4
    <3>3. Left(r, <<one>>) BY <2>3, <2>5
    <3> HIDE DEF one
    <3> QED BY <1>1, <2>5, <3>1, <3>2, <3>3
  <2> QED BY <1>u, <1>2, <1>4, <2>5 DEF OwnController
<1>5. ASSUME NEW s \in Sensor, NEW c \in Controller, FirstZone(r, s, c)
      PROVE  NodesGood(r)' /\ OwnFirst(r)'
  <2> DEFINE Z == {z \in Zone : zone[z] # Absent /\ zone[z].ctl = c}
  <2>1. CASE Z = {} BY <1>2, <1>5, <2>1 DEF FirstZone
  <2>2. CASE Z # {}
    <3>0. \A z \in Z : NodesAreHis(u, <<"move", s, z>>)
      <4>1. /\ At(r, <<"zoneOf", s, c>>) /\ req[r].todo \in Seq(Statement)
            /\ req[r].todo # <<>> /\ req[r].todo[1] = <<"zoneOf", s, c>>
        BY <1>0, <1>5, Doing DEF FirstZone
      <4>2. Prepared(<<"zoneOf", s, c>>, Tail(req[r].todo)) BY <4>1 DEF Ready, At
      <4>3. Tail(req[r].todo) = <<>> BY <4>2 DEF Prepared, Last
      <4>4. req[r].todo = <<<<"zoneOf", s, c>>>>
        BY <4>1, <4>3, OnlyHead DEF At
      <4>5. controller[c] = u BY <1>u, <4>4 DEF OwnFirst
      <4>6. 1 \in DOMAIN req[r].todo BY <4>1
      <4>7. ThroughController(u, s) BY <1>u, <4>1, <4>6 DEF NodesGood, NodesAreHis
      <4>8. c # Null BY NullAssumption DEF Controller
      <4> QED BY <4>5, <4>7, <4>8 DEF NodesAreHis
    <3>1. PICK first : first = CHOOSE z \in Z : \A y \in Z : z <= y OBVIOUS
    <3>2. Left(r, <<<<"move", s, first>>>>) BY <1>5, <2>2, <3>1 DEF FirstZone
    <3>3. first \in Z
      <4>1. Z \in SUBSET Nat BY ZoneAssumption
      <4> HIDE DEF Z
      <4> QED BY <2>2, <3>1, <4>1, LeastNumber
    <3>4. NodesAreHis(u, <<"move", s, first>>) BY <3>0, <3>3
    <3> HIDE DEF Z
    <3> QED BY <1>1, <3>2, <3>4
  <2> QED BY <2>1, <2>2
<1>6. Fail(r) => NodesGood(r)' /\ OwnFirst(r)' BY <1>2 DEF Fail
<1> QED BY <1>3, <1>4, <1>5, <1>6 DEF Looking

(* What is left after a statement that changes rows speaks of no node, but *)
(* for the second of those that delete a sensor.                           *)
LEMMA ForgetNodes ==
  ASSUME TypeOK, NEW r \in Request, Ready(r), NodesGood(r), NEW i \in Item, Forget(r, i)
  PROVE  NodesGood(r)' /\ OwnFirst(r)'
<1>u. PICK u : u = req[r].user OBVIOUS
<1>1. /\ At(r, <<"forget", i>>) /\ req[r].todo \in Seq(Statement) /\ req[r].todo # <<>>
      /\ Left(r, Tail(req[r].todo))
  BY Doing DEF Forget, Go
<1>2. Prepared(<<"forget", i>>, Tail(req[r].todo)) BY <1>1 DEF Ready, At
<1>3. Tail(req[r].todo) = <<<<"remove", i>>>> BY <1>2 DEF Prepared
<1>4. NodesAreHis(u, <<"remove", i>>)
  <2>1. /\ Len(Tail(req[r].todo)) = Len(req[r].todo) - 1
        /\ \A n \in 1 .. Len(Tail(req[r].todo)) : Tail(req[r].todo)[n] = req[r].todo[n + 1]
    BY <1>1, HeadTailProperties
  <2>2. Len(Tail(req[r].todo)) = 1 /\ Tail(req[r].todo)[1] = <<"remove", i>>
    BY <1>3, Single
  <2>3. req[r].todo[2] = <<"remove", i>> /\ 2 \in DOMAIN req[r].todo
    BY <1>1, <2>1, <2>2, LenProperties
  <2> QED BY <1>u, <2>3 DEF NodesGood
<1>5. UNCHANGED <<greenhouse, zone, controller, place>> BY DEF Forget
<1>6. NodesAreHis(u, <<"remove", i>>)'
  BY <1>4, <1>5 DEF NodesAreHis, HoldsItem, OwnsZone, ThroughController
<1>7. Left(r, <<<<"remove", i>>>>) BY <1>1, <1>3
<1>8. \A s, c : <<<<"remove", i>>>> # <<<<"zoneOf", s, c>>>> OBVIOUS
<1> QED BY <1>u, <1>6, <1>7, <1>8, NodesLeft

LEMMA ClosingTags ==
  ASSUME NEW rest, NEW sts, NEW Z, Closing(rest, sts, Z),
         \/ sts = <<>> \/ sts = <<<<"dropZones", Z>>>>
         \/ sts = << <<"clearDevices", Z>>, <<"dropZones", Z>> >>
  PROVE  \A n \in DOMAIN rest : rest[n][1] \in {"clearDevices", "dropZones", "drop"}
<1>1. CASE rest = sts BY <1>1
<1>2. ASSUME NEW g, rest = Append(sts, <<"drop", g>>)
      PROVE  \A n \in DOMAIN rest : rest[n][1] \in {"clearDevices", "dropZones", "drop"}
  <2>1. CASE sts = <<>> BY <1>2, <2>1
  <2>2. CASE sts = <<<<"dropZones", Z>>>>
    <3>1. rest = << <<"dropZones", Z>>, <<"drop", g>> >> BY <1>2, <2>2, ShortSequences
    <3> QED BY <3>1
  <2>3. CASE sts = << <<"clearDevices", Z>>, <<"dropZones", Z>> >>
    <3>1. rest = << <<"clearDevices", Z>>, <<"dropZones", Z>>, <<"drop", g>> >>
      BY <1>2, <2>3, ShortSequences
    <3> QED BY <3>1
  <2> QED BY <2>1, <2>2, <2>3
<1> QED BY <1>1, <1>2 DEF Closing

LEMMA WritingTags ==
  ASSUME NEW r, Writing(r), ~ \E i \in Item : Forget(r, i)
  PROVE  \E st : At(r, st) /\ st[1] \in (Last \cup Clearing) \ {"zoneOf"}
<1> DEFINE Of(st) == At(r, st) /\ st[1] \in (Last \cup Clearing) \ {"zoneOf"}
<1>1. \A g : /\ OpenSpare(r, g) => Of(<<"openSpare", g>>)
             /\ DropGreenhouse(r, g) => Of(<<"drop", g>>)
  BY DEF OpenSpare, DropGreenhouse, Last
<1>2. \A z, g : /\ OpenZone(r, z, g) => Of(<<"openZone", z, g>>)
                /\ BareZone(r, z, g) => Of(<<"bareZone", z, g>>)
  BY DEF OpenZone, BareZone, Last
<1>3. \A i, z : /\ Place(r, i, z) => Of(<<"place", i, z>>)
                /\ Move(r, i, z) => Of(<<"move", i, z>>)
  BY DEF Place, Move, Last
<1>4. \A Z : /\ ClearSensors(r, Z) => Of(<<"clearSensors", Z>>)
             /\ ClearDevices(r, Z) => Of(<<"clearDevices", Z>>)
             /\ DropZones(r, Z) => Of(<<"dropZones", Z>>)
  BY DEF ClearSensors, ClearDevices, Clear, DropZones, Clearing
<1>5. \A i : Remove(r, i) => Of(<<"remove", i>>) BY DEF Remove, Last
<1>6. \A i, b, new : Commit(r, i, b, new) => Of(<<"report", i, b, new>>)
  BY DEF Commit, Last
<1>7. \A b : SetOwner(r, b) => Of(<<"setOwner", b>>) BY DEF SetOwner, Last
<1> HIDE DEF Of
<1>8. \E st : Of(st)
  BY <1>1, <1>2, <1>3, <1>4, <1>5, <1>6, <1>7 DEF Writing
<1> QED BY <1>8 DEF Of

LEMMA WritingNodes ==
  ASSUME TypeOK, NEW r \in Request, Ready(r), NodesGood(r), Writing(r)
  PROVE  NodesGood(r)' /\ OwnFirst(r)'
<1>1. CASE \E i \in Item : Forget(r, i) BY <1>1, ForgetNodes
<1>2. CASE ~ \E i \in Item : Forget(r, i)
  <2>1. PICK st : At(r, st) /\ st[1] \in (Last \cup Clearing) \ {"zoneOf"}
    BY <1>2, WritingTags
  <2>2. PICK rest : rest = Tail(req[r].todo) OBVIOUS
  <2>3. Prepared(st, rest) BY <2>1, <2>2 DEF Ready, At
  <2>4. Left(r, rest) BY <2>2, WritingGoesOn DEF Go
  <2>5. \A n \in DOMAIN rest : rest[n][1] \in {"clearDevices", "dropZones", "drop"}
    <3>1. CASE st[1] \in Last
      <4>1. rest = <<>> BY <2>3, <3>1 DEF Prepared
      <4> QED BY <4>1
    <3>2. CASE st[1] \in Clearing
      <4>1. PICK Z : Z = st[2] OBVIOUS
      <4>2. \/ Closing(rest, << <<"clearDevices", Z>>, <<"dropZones", Z>> >>, Z)
            \/ Closing(rest, <<<<"dropZones", Z>>>>, Z)
            \/ Closing(rest, <<>>, Z)
        BY <2>3, <3>2, <4>1 DEF Prepared, Clearing
      <4> QED BY <4>2, ClosingTags
    <3> QED BY <2>1, <3>1, <3>2
  <2>u. PICK u : u = req[r].user OBVIOUS
  <2>6. \A n \in DOMAIN rest : NodesAreHis(u, rest[n])'
    BY <2>5, OtherStatements DEF NodeTags
  <2>7. ASSUME NEW s, NEW c PROVE rest # <<<<"zoneOf", s, c>>>>
    <3>1. SUFFICES ASSUME rest = <<<<"zoneOf", s, c>>>> PROVE FALSE OBVIOUS
    <3>2. 1 \in DOMAIN rest /\ rest[1][1] = "zoneOf" BY <3>1
    <3> QED BY <2>5, <3>2
  <2> QED BY <2>4, <2>u, <2>6, <2>7, NodesLeft
<1> QED BY <1>1, <1>2

LEMMA NodesStep ==
  ASSUME TypeOK, Quiet, Solo, NodesChecked, BothNext
  PROVE  NodesChecked'
<1> SUFFICES ASSUME OneAtATime' PROVE \A q \in Request : NodesGood(q)' /\ OwnFirst(q)'
  BY DEF NodesChecked
<1>1. world' = world BY StepsAre
<1>2. OneAtATime BY <1>1 DEF OneAtATime
<1>3. PICK r \in world.clients :
        \/ AtOnce(r) \/ Selecting(r) \/ Creating(r) \/ Looking(r) \/ Writing(r)
        \/ \E u \in User, b \in Board : OldAssign(r, u, b)
  BY StepsAre
<1>4. r \in Request /\ Quiet' BY <1>2, TheWorld, SoloStep
<1>5. InPlace /\ Ready(r) /\ NodesGood(r) /\ OwnFirst(r)
  BY <1>2, <1>4 DEF Solo, NodesChecked
<1>6. \A q \in Request : req'[q].todo = <<>> => NodesGood(q)' /\ OwnFirst(q)'
  <2>1. \A s, c : <<>> # <<<<"zoneOf", s, c>>>> OBVIOUS
  <2> QED BY <2>1 DEF NodesGood, OwnFirst
<1>7. ASSUME NEW q \in Request, q # r PROVE NodesGood(q)' /\ OwnFirst(q)'
  <2>1. req'[q] = Idle BY <1>1, <1>2, <1>4, <1>7 DEF Quiet, OneAtATime
  <2> QED BY <1>6, <2>1 DEF Idle
<1>8. AtOnce(r) => NodesGood(r)' /\ OwnFirst(r)'
  <2>1. AtOnce(r) => req' = req /\ req[r] = Idle
    BY DEF AtOnce, Assign, RemoveController, AssignZoneController, Announce
  <2> QED BY <1>4, <1>6, <2>1 DEF Idle
<1>9. NodesGood(r)' /\ OwnFirst(r)'
  BY <1>3, <1>4, <1>5, <1>8, SelectingNodes, BeginningNodes, LookingNodes, WritingNodes
<1> QED BY <1>7, <1>9

NodesInv == TidyInv /\ NodesChecked

LEMMA NodesInit == Init => NodesInv
<1> SUFFICES ASSUME Init PROVE NodesInv OBVIOUS
<1>1. \A r \in Request : req[r].todo = <<>> BY DEF Init, Idle
<1>2. \A s, c : <<>> # <<<<"zoneOf", s, c>>>> OBVIOUS
<1> QED BY <1>1, <1>2, TidyInit DEF NodesInv, NodesChecked, NodesGood, OwnFirst

LEMMA NodesNext == NodesInv /\ [BothNext]_vars => NodesInv'
<1>1. ASSUME NodesInv, BothNext PROVE NodesChecked'
  BY <1>1, NodesStep DEF NodesInv, TidyInv
<1>2. ASSUME NodesInv, UNCHANGED vars PROVE NodesChecked'
  <2>1. UNCHANGED <<rows, req, world>> BY <1>2 DEF vars
  <2>2. ASSUME NEW r \in Request, NodesGood(r) PROVE NodesGood(r)'
    BY <2>1, <2>2, NodesStay DEF NodesGood
  <2>3. ASSUME NEW r \in Request, OwnFirst(r) PROVE OwnFirst(r)'
    BY <2>1, <2>3 DEF OwnFirst, rows
  <2> QED BY <1>2, <2>1, <2>2, <2>3 DEF NodesInv, NodesChecked, OneAtATime
<1> QED BY <1>1, <1>2, TidyStep DEF NodesInv

(* What a handler has checked about zones and greenhouses is still true    *)
(* when its statement runs, or the row it speaks of is gone, for any number*)
(* of requests of both routers in any order, if the database refuses       *)
(* references to missing rows; and all it has checked, about nodes and     *)
(* controllers too, as long as requests come one after another.            *)
THEOREM ChecksHold == BothSpec => []ChecksStayTrue
<1>1. IInv /\ KeysInv /\ NodesInv => ChecksStayTrue
  <2>1. ASSUME KeysInv, Orderly, NEW r \in Request, NEW n \in DOMAIN req[r].todo
        PROVE  ZonesAreHis(req[r].user, req[r].todo[n])
    BY <2>1 DEF KeysInv, KInv, Checked, Good, Known, Mine, ZonesAreHis
  <2>2. NodesInv /\ OneAtATime => \A r \in Request : NodesGood(r)
    BY DEF NodesInv, NodesChecked
  <2> QED BY <2>1, <2>2 DEF ChecksStayTrue, Orderly, NodesGood
<1>2. Init => KeysInv BY KInit DEF KeysInv
<1> QED BY IInvHolds, TidyInit, TidyStep, KeysStep, NodesInit, NodesNext, <1>1, <1>2,
           PTL DEF BothSpec
===============================================================================
