---------------------------- MODULE GreenhouseMap ----------------------------
(***************************************************************************)
(* The page of one greenhouse in the mobile application                    *)
(* (greenhouse_view.dart) on the rows of the backend it shows and changes: *)
(* tiles of sensors and end devices that are dragged about, zones that are *)
(* drawn, deleted and configured, and the fetches that keep replacing what *)
(* the page shows while all this goes on.                                  *)
(*                                                                         *)
(* Dart runs one callback at a time; what is awaited is a task here, and   *)
(* anything may happen before it goes on.  A fetch reads the database at   *)
(* one moment and is answered at a later one; the answer to a write comes  *)
(* back with it.  A fetch builds new tile objects, while the gestures on   *)
(* the screen stay bound to the objects of the last frame, so a tile may   *)
(* exist twice: the one shown and the one the next frame will show.        *)
(*                                                                         *)
(* There is one finger.  Dialogs lie over the page in the order they came. *)
(* What a dialog saves does not keep it on the screen, and once it is      *)
(* saved the route on top is popped, whichever that is by then: the dialog *)
(* itself, another one, or the page, which is the end of it.               *)
(***************************************************************************)
EXTENDS Naturals, FiniteSets

CONSTANTS
  Sensor, Device,  \* tiles
  Fetches,         \* how many fetches overlap at most
  MapWorld         \* what there is to do, in each world this is tried in

Tile == Sensor \cup Device
Kinds == {"drags", "moves", "draws", "deletes", "dialogs", "unassigns",
          "toggles", "faults", "closes"}
Worlds == {w \in [tiles : SUBSET Tile, zones : Nat, edit : BOOLEAN,
                  budget : [Kinds -> Nat]] : w.tiles # {} => w.zones > 0}

ASSUME TileAssumption == Sensor \cap Device = {}
ASSUME WorldAssumption == MapWorld \subseteq Worlds
ASSUME FetchesAssumption == Fetches \in Nat

VARIABLES
  rows,      \* Sensor_nodes and End_devices
  zones,     \* Zones of this greenhouse
  made,      \* zone ids given out so far
  tiles,     \* sensors and endDevices of the page, by id
  shown,     \* the tile objects of the last frame
  apart,     \* tiles whose shown object is not the one in tiles
  map,       \* zones of the page
  mode,      \* editMode and drawZoneMode; whether a frame is due, and how
             \* many zones the last one had; whether the page is open
  drawing,   \* currentDrawing, 0 if it is null
  drawn,     \* how many zones were drawn
  finger,    \* the gesture under way
  fetch,     \* fetches under way
  tasks,     \* callbacks that await something
  todo       \* what is left of the world's budget

database == <<rows, zones, made>>
page == <<tiles, shown, apart, map, mode, drawing, drawn, finger>>
vars == <<database, page, fetch, tasks, todo>>

(* zone: the one of this greenhouse the tile is in, or 0.  like names the  *)
(* geometry of a zone after the drawing it came from, by the drawing whose *)
(* dialog asked for it.  calm: the tile is still where the finger, which   *)
(* went to the place to, has put it.                                       *)
(* own: the object a task holds is the one in tiles.  num: dialogs, and    *)
(* what they save, in the order they began.                                *)
Row == [place : Nat, name : Nat, limits : Nat, zone : Nat]
ZoneRow == [id : Nat, like : Nat, by : Nat, alarms : Nat, hub : Nat]
ZoneList == {S \in SUBSET ZoneRow : IsFiniteSet(S)}
Object == [place : Nat, name : Nat, limits : Nat, drag : BOOLEAN]
Line == [id : Tile, place : Nat, name : Nat, limits : Nat]
Progress == {"asked", "read", "done"}
Fetch == [all : BOOLEAN, logs : Progress, zones : Progress,
          devices : Progress, map : ZoneList, tiles : SUBSET Line]
Gesture == [kind : {"none", "tile", "draw"}, tile : Tile \cup {0}, to : Nat,
            calm : BOOLEAN]
Dialog == {"sensor", "device", "alarms", "hub"}
Task == [kind : {"save", "leave", "create", "delete", "unassign"} \cup Dialog,
         step : {"find", "ask", "write", "more", "read", "show"},
         tile : Tile \cup {0}, own : BOOLEAN, zone : Nat, like : Nat,
         value : Nat, seen : ZoneList, num : Nat]

Rest == [kind |-> "none", tile |-> 0, to |-> 0, calm |-> FALSE]
NewTask(kind, step) ==
  [kind |-> kind, step |-> step, tile |-> 0, own |-> TRUE, zone |-> 0,
   like |-> 0, value |-> 0, seen |-> {}, num |-> 0]
NoFetch == [all |-> FALSE, logs |-> "done", zones |-> "done",
            devices |-> "done", map |-> {}, tiles |-> {}]

InitIn(w) ==
  /\ rows = [t \in Tile |-> [place |-> 0, name |-> 0, limits |-> 0,
                             zone |-> IF t \in w.tiles THEN 1 ELSE 0]]
  /\ zones = {[id |-> n, like |-> n, by |-> n, alarms |-> 0, hub |-> 0] :
                n \in 1 .. w.zones}
  /\ made = w.zones
  /\ tiles = <<>> /\ shown = <<>> /\ apart = {} /\ map = {}
  /\ mode = [edit |-> w.edit, draw |-> FALSE, due |-> TRUE, count |-> 0,
             open |-> TRUE]
  /\ drawing = 0 /\ drawn = w.zones /\ finger = Rest
  /\ fetch = [f \in 1 .. Fetches |-> NoFetch]
  /\ tasks = {}
  /\ todo = w.budget

Spend(kind) ==
  /\ todo[kind] > 0
  /\ todo' = [todo EXCEPT ![kind] = @ - 1]

Due(m) == [m EXCEPT !.due = TRUE]

(* A task that asks has its dialog on the screen.                          *)
Asking == {t \in tasks : t.step = "ask"}
Top == {t \in Asking : \A s \in Asking : s.num <= t.num}
OnTop == mode.open /\ Asking = {}

Done(t) == tasks \ {t}
Becomes(t, u) == Done(t) \cup {u}
On(t, step) == Becomes(t, [t EXCEPT !.step = step])

Numbers == {n \in {0} \cup {t.num + 1 : t \in tasks} : \A t \in tasks : t.num < n}

(* What goes on when a dialog goes.  Both buttons of the one for a name    *)
(* only close it, and the zone is created with the rectangle there is then.*)
Remains(t) ==
  IF t.kind # "create" THEN {}
  ELSE IF drawing = 0 THEN {[t EXCEPT !.step = "read"]}
  ELSE {[t EXCEPT !.value = drawing, !.step = "write"]}

Without(T, D) == (T \ D) \cup UNION {Remains(d) : d \in D}

(* Navigator.pop(context), by a task that leaves the tasks T; nothing of   *)
(* the kind can be done once the page is closed.                           *)
Pop(T) == tasks' = Without(T, Top)
Popped(m) == [m EXCEPT !.open = @ /\ Top # {}]

----------------------------------------------------------------------------
(* Fetching.                                                               *)

Free == {f \in 1 .. Fetches : fetch[f] = NoFetch}

FetchAll(f) ==
  fetch' = [fetch EXCEPT ![f] = [NoFetch EXCEPT !.all = TRUE, !.logs = "asked",
                                 !.zones = "asked", !.devices = "asked"]]

Dragged == {s \in Sensor \cap DOMAIN tiles : tiles[s].drag}

(* Every 10 seconds, unless a sensor is marked as being dragged.           *)
Tick(f) ==
  /\ f \in Free /\ Dragged = {} /\ mode.open
  /\ FetchAll(f)
  /\ mode' = Due(mode)
  /\ UNCHANGED <<database, tiles, shown, apart, map, drawing, drawn, finger,
                 tasks, todo>>

(* The tiles a part of a fetch brings.                                     *)
Renewed(part) == CASE part = "logs" -> Sensor
                   [] part = "devices" -> Device
                   [] OTHER -> {}

Listed(part) ==
  {[id |-> t, place |-> rows[t].place, name |-> rows[t].name,
    limits |-> rows[t].limits] : t \in {u \in Renewed(part) : rows[u].zone # 0}}

(* A part of a fetch is served; one that fails is answered with nothing.   *)
Serve(f, part) ==
  LET rest == [fetch[f] EXCEPT ![part] = "read"]
      full == [rest EXCEPT !.map = IF part = "zones" THEN zones ELSE @,
                           !.tiles = @ \cup Listed(part)]
  IN /\ fetch[f][part] = "asked"
     /\ \/ fetch' = [fetch EXCEPT ![f] = full] /\ todo' = todo
        \/ fetch' = [fetch EXCEPT ![f] = rest] /\ Spend("faults")
     /\ UNCHANGED <<database, page, tasks>>

(* New objects take the place of all sensors or of all end devices.  A     *)
(* sensor that is marked keeps the mark and its place, a device nothing.   *)
(* Mutant: only the mark is carried over, not the place.                   *)
NewTileMarkOnly(l) ==
  [place |-> l.place, name |-> l.name, limits |-> l.limits,
   drag |-> l.id \in Dragged]

NewTile(l) ==
  [place |-> IF l.id \in Dragged THEN tiles[l.id].place ELSE l.place,
   name |-> l.name, limits |-> l.limits, drag |-> l.id \in Dragged]

Replaced(part, answer) ==
  LET others == DOMAIN tiles \ Renewed(part)
      lines == {l \in answer : l.id \in Renewed(part)}
  IN [t \in others \cup {l.id : l \in lines} |->
        IF t \in others THEN tiles[t] ELSE NewTile(CHOOSE l \in lines : l.id = t)]

(* Only the zones and the end of the whole fetch ask for a new frame.      *)
Answer(f, part) ==
  LET rest == [fetch[f] EXCEPT ![part] = "done"]
      last == \A p \in {"logs", "zones", "devices"} : rest[p] = "done"
  IN /\ fetch[f][part] = "read"
     /\ fetch' = [fetch EXCEPT ![f] = IF last THEN NoFetch ELSE rest]
     /\ mode' = IF part = "zones" \/ (last /\ rest.all) THEN Due(mode) ELSE mode
     /\ IF part = "zones" THEN map' = rest.map /\ UNCHANGED <<tiles, apart>>
        ELSE /\ tiles' = Replaced(part, rest.tiles)
             /\ apart' = apart \cup (DOMAIN shown \cap Renewed(part))
             /\ map' = map
     /\ finger' = IF finger.tile \in Renewed(part) \ Dragged
                  THEN [finger EXCEPT !.calm = FALSE] ELSE finger
     /\ tasks' = {IF t.tile \in Renewed(part)
                  THEN [t EXCEPT !.own = FALSE] ELSE t : t \in tasks}
     /\ UNCHANGED <<database, shown, drawing, drawn, todo>>

----------------------------------------------------------------------------
(* Frames and gestures.                                                    *)

(* The children of the stack have no keys: when tiles or zones come or go, *)
(* the widget under the finger becomes that of another tile, of either     *)
(* kind, or is taken away and the drag ends unheard.  Without its mode a   *)
(* gesture has no callbacks.                                               *)
Frame ==
  /\ mode.due /\ mode.open
  /\ mode' = [mode EXCEPT !.due = FALSE, !.count = Cardinality(map)]
  /\ shown' = tiles /\ apart' = {}
  /\ LET moved == DOMAIN shown # DOMAIN tiles \/ Cardinality(map) # mode.count
         dead == \/ finger.kind = "tile" /\ ~mode.edit
                 \/ finger.kind = "draw" /\ ~mode.draw
     IN finger' \in
          IF dead THEN {Rest}
          ELSE IF finger.kind = "tile" /\ moved
          THEN {Rest} \cup {[finger EXCEPT !.tile = t, !.calm = FALSE] :
                              t \in DOMAIN tiles}
          ELSE {finger}
  /\ UNCHANGED <<database, tiles, map, drawing, drawn, fetch, tasks, todo>>

(* A callback changes the object of the last frame.                        *)
Touch(t, object) ==
  /\ shown' = [shown EXCEPT ![t] = object]
  /\ tiles' = IF t \in apart THEN tiles ELSE [tiles EXCEPT ![t] = object]

DragStart(t) ==
  /\ mode.edit /\ OnTop /\ finger = Rest /\ t \in DOMAIN shown
  /\ Spend("drags")
  /\ Touch(t, [shown[t] EXCEPT !.drag = TRUE])
  /\ finger' = [kind |-> "tile", tile |-> t, to |-> shown[t].place,
                calm |-> t \notin apart]
  /\ mode' = Due(mode)
  /\ UNCHANGED <<database, apart, map, drawing, drawn, fetch, tasks>>

DragMove ==
  /\ finger.kind = "tile" /\ mode.open
  /\ Spend("moves")
  /\ Touch(finger.tile, [shown[finger.tile] EXCEPT !.place = @ + 1])
  /\ finger' = [finger EXCEPT !.to = @ + 1,
                              !.calm = @ /\ finger.tile \notin apart]
  /\ mode' = Due(mode)
  /\ UNCHANGED <<database, apart, map, drawing, drawn, fetch, tasks>>

(* No frame is asked for, and the answer to the save is not looked at.     *)
DragEnd ==
  LET t == finger.tile
  IN /\ finger.kind = "tile"
     /\ Touch(t, [shown[t] EXCEPT !.drag = FALSE])
     /\ finger' = Rest
     /\ tasks' = tasks \cup
          {[NewTask("save", "write") EXCEPT !.tile = t,
              !.value = shown[t].place,
              !.like = IF finger.calm THEN finger.to ELSE shown[t].place]}
     /\ UNCHANGED <<database, apart, map, mode, drawing, drawn, fetch, todo>>

(* Leaving edit mode first saves the sensors that are still marked, one    *)
(* after the other.                                                        *)
ToggleEdit ==
  /\ OnTop /\ \A t \in tasks : t.kind # "leave"
  /\ Spend("toggles")
  /\ IF mode.edit /\ Dragged # {}
     THEN /\ \E t \in Dragged :
               tasks' = tasks \cup
                 {[NewTask("leave", "write") EXCEPT
                     !.tile = t, !.value = tiles[t].place]}
          /\ mode' = mode
     ELSE /\ mode' = [Due(mode) EXCEPT !.edit = ~@, !.draw = FALSE]
          /\ tasks' = tasks
  /\ UNCHANGED <<database, tiles, shown, apart, map, drawing, drawn, finger,
                 fetch>>

ToggleDraw ==
  /\ mode.edit /\ OnTop /\ Spend("toggles")
  /\ mode' = [Due(mode) EXCEPT !.draw = ~@]
  /\ UNCHANGED <<database, tiles, shown, apart, map, drawing, drawn, finger,
                 fetch, tasks>>

DrawStart ==
  /\ mode.draw /\ OnTop /\ finger = Rest
  /\ Spend("draws")
  /\ drawn' = drawn + 1 /\ drawing' = drawn + 1
  /\ finger' = [Rest EXCEPT !.kind = "draw", !.to = drawn + 1]
  /\ UNCHANGED <<database, tiles, shown, apart, map, mode, fetch, tasks>>

(* Nothing is left to name when another drawing's end has cleared it.      *)
DrawEnd ==
  /\ finger.kind = "draw"
  /\ finger' = Rest
  /\ IF drawing = 0 \/ ~mode.open THEN tasks' = tasks
     ELSE \E n \in Numbers :
            tasks' = tasks \cup {[NewTask("create", "ask") EXCEPT
                                   !.like = finger.to, !.num = n]}
  /\ UNCHANGED <<database, tiles, shown, apart, map, mode, drawing, drawn,
                 fetch, todo>>

----------------------------------------------------------------------------
(* What is tapped, and what the dialogs answer.                            *)

Begin(t) ==
  /\ \E n \in Numbers : tasks' = tasks \cup {[t EXCEPT !.num = n]}
  /\ UNCHANGED <<database, page, fetch>>

(* A zone's three buttons.  Deleting looks the zone up again by geometry,  *)
(* assigning a controller asks for the controllers there are.              *)
TapZone(z, kind) ==
  /\ mode.edit /\ OnTop /\ z \in map
  /\ Spend(IF kind = "delete" THEN "deletes" ELSE "dialogs")
  /\ Begin([NewTask(kind, IF kind = "alarms" THEN "ask" ELSE "find") EXCEPT
              !.zone = z.id, !.like = z.like, !.value = z.alarms])

TapTile(t) ==
  /\ mode.edit /\ OnTop /\ t \in DOMAIN shown
  /\ Spend("dialogs")
  /\ Begin([NewTask(IF t \in Sensor THEN "sensor" ELSE "device", "ask") EXCEPT
              !.tile = t, !.own = t \notin apart, !.value = shown[t].name])

TapBin(t) ==
  /\ mode.edit /\ OnTop /\ t \in DOMAIN shown
  /\ Spend("unassigns")
  /\ Begin([NewTask("unassign", "write") EXCEPT !.tile = t])

(* The answer to the fetch that comes before a dialog, which is not shown  *)
(* any more if the page is closed; the delete gives up when no zone, or an *)
(* empty answer, fits.                                                     *)
Find(t) ==
  LET Ask(z) == \E n \in Numbers :
        tasks' = IF mode.open
                 THEN Becomes(t, [t EXCEPT !.zone = z, !.step = "ask", !.num = n])
                 ELSE Done(t)
  IN /\ t.step = "find"
     /\ \/ t.kind = "hub" /\ Ask(t.zone) /\ todo' = todo
        \/ t.kind = "delete" /\ todo' = todo
           /\ \E z \in zones : z.like = t.like /\ Ask(z.id)
        \/ /\ t.kind = "delete" /\ tasks' = Done(t)
           /\ IF \E z \in zones : z.like = t.like THEN Spend("faults")
                                                  ELSE todo' = todo
     /\ UNCHANGED <<database, page, fetch>>

(* Cancelled, dismissed, or given a name.                                  *)
Dismiss(t) ==
  /\ t \in Top
  /\ tasks' = Without(tasks, {t})
  /\ UNCHANGED <<database, page, fetch, todo>>

ConfirmDelete(t) ==
  /\ t \in Top /\ t.kind = "delete"
  /\ tasks' = Becomes(t, [t EXCEPT !.value = 0, !.step = "write"])
  /\ UNCHANGED <<database, page, fetch, todo>>

(* One value stands for all that a dialog holds.  The name of a device is  *)
(* only sent when it was changed.  The dialog stays, and only that for the *)
(* alarms disables its button until it has the answer.                     *)
Confirm(t) ==
  /\ t \in Top /\ t.kind \in Dialog
  /\ t.kind = "alarms" => ~\E s \in tasks \ {t} : s.kind = "alarms" /\ s.num = t.num
  /\ Spend("dialogs")
  /\ \E v \in 0 .. 1, n \in Numbers :
       tasks' = tasks \cup {[t EXCEPT !.value = v,
         !.num = IF t.kind = "alarms" THEN @ ELSE n,
         !.step = IF t.kind = "device" /\ v = t.value THEN "more" ELSE "write"]}
  /\ UNCHANGED <<database, page, fetch>>

(* Back from the page.                                                     *)
Close ==
  /\ OnTop /\ Spend("closes")
  /\ mode' = [mode EXCEPT !.open = FALSE]
  /\ UNCHANGED <<database, tiles, shown, apart, map, drawing, drawn, finger,
                 fetch, tasks>>

----------------------------------------------------------------------------
(* Writes, served and answered.                                            *)

(* POST .../position: a device outside every zone is refused.              *)
WritePlace(t) ==
  /\ t.kind \in {"save", "leave"} /\ t.step = "write"
  /\ \/ /\ t.tile \in Sensor \/ rows[t.tile].zone # 0
        /\ rows' = [rows EXCEPT ![t.tile].place = t.value] /\ todo' = todo
     \/ t.tile \in Device /\ rows[t.tile].zone = 0 /\ UNCHANGED <<rows, todo>>
     \/ Spend("faults") /\ rows' = rows
  /\ tasks' = IF t.kind = "save" THEN Done(t) ELSE On(t, "show")
  /\ UNCHANGED <<zones, made, page, fetch>>

(* The mark is taken off the object that was saved, whether the save came  *)
(* through or not; then the next sensor, or out of edit mode.              *)
Unmark(t) ==
  LET rest == Dragged \ (IF t.own THEN {t.tile} ELSE {})
  IN /\ t.kind = "leave" /\ t.step = "show"
     /\ tiles' = IF t.own THEN [tiles EXCEPT ![t.tile].drag = FALSE] ELSE tiles
     /\ shown' = IF t.own /\ t.tile \notin apart
                 THEN [shown EXCEPT ![t.tile].drag = FALSE] ELSE shown
     /\ finger' = IF finger.tile = t.tile
                  THEN [finger EXCEPT !.calm = FALSE] ELSE finger
     /\ IF rest \ {t.tile} = {}
        THEN mode' = [Due(mode) EXCEPT !.edit = ~@, !.draw = FALSE]
             /\ tasks' = Done(t)
        ELSE mode' = mode /\ \E s \in rest \ {t.tile} :
               tasks' = Becomes(t, [t EXCEPT !.step = "write", !.tile = s,
                                             !.value = tiles[s].place])
     /\ UNCHANGED <<database, apart, map, drawing, drawn, fetch, todo>>

WriteZone(t) ==
  /\ t.kind = "create" /\ t.step = "write"
  /\ \/ /\ made' = made + 1 /\ todo' = todo
        /\ zones' = zones \cup {[id |-> made + 1, like |-> t.value,
                                 by |-> t.like, alarms |-> 0, hub |-> 0]}
     \/ Spend("faults") /\ UNCHANGED <<zones, made>>
  /\ tasks' = On(t, "read")
  /\ UNCHANGED <<rows, page, fetch>>

(* DELETE /zones/:id, which puts its tiles out of it, .../config-alarms    *)
(* and .../assign-controller.                                              *)
Outcome(t, z) ==
  CASE t.kind = "delete" -> {}
    [] t.kind = "alarms" -> {[z EXCEPT !.alarms = t.value]}
    [] t.kind = "hub" -> {[z EXCEPT !.hub = t.value]}

Emptied(t) ==
  [u \in Tile |-> IF t.kind = "delete" /\ rows[u].zone = t.zone
                  THEN [rows[u] EXCEPT !.zone = 0] ELSE rows[u]]

(* A failed delete gives up, and so do failed alarms.  Nobody notices that *)
(* the controller was not assigned: a route is popped all the same.        *)
ChangeZone(t) ==
  LET found == \E z \in zones : z.id = t.zone
  IN /\ t.kind \in {"delete", "alarms", "hub"} /\ t.step = "write"
     /\ \/ /\ \E z \in zones :
                /\ z.id = t.zone /\ todo' = todo
                /\ zones' = (zones \ {z}) \cup Outcome(t, z)
                /\ rows' = Emptied(t)
           /\ t.kind # "hub" => tasks' = On(t, "read") /\ mode' = mode
        \/ /\ IF found THEN Spend("faults") ELSE todo' = todo
           /\ UNCHANGED <<zones, rows>>
           /\ t.kind # "hub" => tasks' = Done(t) /\ mode' = mode
     /\ t.kind = "hub" => /\ Pop(IF mode.open THEN On(t, "read") ELSE Done(t))
                          /\ mode' = Popped(mode)
     /\ UNCHANGED <<made, tiles, shown, apart, map, drawing, drawn, finger, fetch>>

(* A 403 for a tile that is in no zone, or a failure.                      *)
Refused(t) == IF rows[t.tile].zone = 0 THEN todo' = todo ELSE Spend("faults")

(* update-name; the name then goes into the object the dialog was opened   *)
(* for, which need not be on the page any more.                            *)
WriteName(t) ==
  /\ t.kind \in {"sensor", "device"} /\ t.step = "write"
  /\ \/ /\ rows[t.tile].zone # 0 /\ todo' = todo
        /\ rows' = [rows EXCEPT ![t.tile].name = t.value]
        /\ tiles' = IF t.own THEN [tiles EXCEPT ![t.tile].name = t.value]
                    ELSE tiles
        /\ shown' = IF t.own /\ t.tile \notin apart
                    THEN [shown EXCEPT ![t.tile].name = t.value] ELSE shown
        /\ IF t.kind = "device" /\ mode.open
           THEN tasks' = On(t, "more") /\ mode' = Due(mode)
           ELSE Pop(Done(t)) /\ mode' = Popped(Due(mode))
     \/ /\ Refused(t)
        /\ tasks' = Done(t)
        /\ UNCHANGED <<rows, tiles, shown, mode>>
  /\ UNCHANGED <<zones, made, apart, map, drawing, drawn, finger, fetch>>

(* update-params; the tile shows them after the next fetch.  A failure     *)
(* leaves the dialog open, although the name is already changed.           *)
WriteLimits(t) ==
  /\ t.kind = "device" /\ t.step = "more"
  /\ \/ /\ rows[t.tile].zone # 0 /\ todo' = todo
        /\ rows' = [rows EXCEPT ![t.tile].limits = t.value]
        /\ Pop(Done(t)) /\ mode' = Popped(mode)
     \/ Refused(t) /\ tasks' = Done(t) /\ UNCHANGED <<rows, mode>>
  /\ UNCHANGED <<zones, made, tiles, shown, apart, map, drawing, drawn, finger,
                 fetch>>

(* unassign-zone, then all of a fetch for a sensor, but only the devices,  *)
(* and no frame, for a device.                                             *)
Unassign(t) ==
  /\ t.kind = "unassign" /\ t.step = "write"
  /\ \/ \E f \in Free :
          /\ rows[t.tile].zone # 0 /\ todo' = todo
          /\ rows' = [rows EXCEPT ![t.tile].zone = 0]
          /\ IF ~mode.open THEN UNCHANGED <<fetch, mode>>
             ELSE IF t.tile \in Sensor THEN FetchAll(f) /\ mode' = Due(mode)
             ELSE /\ fetch' = [fetch EXCEPT ![f].devices = "asked"]
                  /\ mode' = mode
     \/ Refused(t) /\ UNCHANGED <<rows, fetch, mode>>
  /\ tasks' = Done(t)
  /\ UNCHANGED <<zones, made, tiles, shown, apart, map, drawing, drawn, finger>>

(* await _fetchZones(), and what follows it; saved alarms pop a route.     *)
ReadZones(t) ==
  /\ t.step = "read"
  /\ \/ /\ todo' = todo
        /\ tasks' = Becomes(t, [t EXCEPT !.seen = zones, !.step = "show"])
     \/ Spend("faults") /\ tasks' = On(t, "show")
  /\ UNCHANGED <<database, page, fetch>>

ShowZones(t) ==
  /\ t.step = "show" /\ t.kind # "leave"
  /\ map' = t.seen
  /\ drawing' = IF t.kind = "create" THEN 0 ELSE drawing
  /\ IF t.kind = "alarms" THEN Pop(Done(t)) /\ mode' = Popped(Due(mode))
                          ELSE tasks' = Done(t) /\ mode' = Due(mode)
  /\ UNCHANGED <<database, tiles, shown, apart, drawn, finger, fetch, todo>>

----------------------------------------------------------------------------
Pending(t) ==
  \/ Find(t) \/ WritePlace(t) \/ Unmark(t) \/ WriteZone(t)
  \/ ChangeZone(t) \/ WriteName(t) \/ WriteLimits(t) \/ Unassign(t)
  \/ ReadZones(t) \/ ShowZones(t)

Proceeds(f) == \E part \in {"logs", "zones", "devices"} :
                 Serve(f, part) \/ Answer(f, part)

Next ==
  \/ \E f \in Free : Tick(f)
  \/ \E f \in 1 .. Fetches : Proceeds(f)
  \/ Frame
  \/ DragMove \/ DragEnd \/ ToggleEdit \/ ToggleDraw \/ DrawStart \/ DrawEnd
  \/ Close
  \/ \E t \in Tile : DragStart(t) \/ TapTile(t) \/ TapBin(t)
  \/ \E z \in map, kind \in {"delete", "alarms", "hub"} : TapZone(z, kind)
  \/ \E t \in tasks : Pending(t) \/ Dismiss(t) \/ ConfirmDelete(t) \/ Confirm(t)

----------------------------------------------------------------------------
TypeOK ==
  /\ rows \in [Tile -> Row] /\ zones \in ZoneList /\ made \in Nat
  /\ tiles \in [DOMAIN tiles -> Object] /\ DOMAIN tiles \subseteq Tile
  /\ shown \in [DOMAIN shown -> Object] /\ DOMAIN shown \subseteq Tile
  /\ apart \subseteq DOMAIN shown /\ map \in ZoneList
  /\ mode \in [edit : BOOLEAN, draw : BOOLEAN, due : BOOLEAN, count : Nat,
              open : BOOLEAN]
  /\ drawing \in 0 .. drawn /\ drawn \in Nat /\ finger \in Gesture
  /\ fetch \in [1 .. Fetches -> Fetch]
  /\ tasks \subseteq Task /\ todo \in [Kinds -> Nat]

(* What the fingers did is what reaches the database, although lists and   *)
(* the rectangle being drawn are replaced meanwhile: a zone has the        *)
(* rectangle whose dialog asked for it, once; the zone a confirmed delete  *)
(* removes has the geometry that was tapped; and a tile is saved where the *)
(* finger let it go, unless the finger moved it before the frame that      *)
(* follows new objects, or new objects throw it back: a device always, a   *)
(* sensor when an answer before had left it out, or its mark was taken off *)
(* (greenhouse_view.dart:415-497, 856-942, 1122-1192).                     *)
EditsAreExact ==
  /\ \A z \in zones : z.like = z.by
  /\ \A y, z \in zones : y.like = z.like => y = z
  /\ \A t \in tasks :
       /\ t.kind = "delete" /\ t.step \in {"ask", "write"} =>
            \A z \in zones : z.id = t.zone => z.like = t.like
       /\ t.kind = "save" => t.value = t.like

(* The page shows what the database has.                                   *)
MapIsTrue ==
  /\ map = zones
  /\ DOMAIN shown = {t \in Tile : rows[t].zone # 0}
  /\ \A t \in DOMAIN shown :
       /\ shown[t].place = rows[t].place /\ shown[t].name = rows[t].name
       /\ shown[t].limits = rows[t].limits
=============================================================================
