-------------------------- MODULE MobileAppProofs --------------------------
(***************************************************************************)
(* Theorems about the mobile application, for any users, phones,           *)
(* greenhouses, tiles and fetches, and for any calls, faults and restarts. *)
(*                                                                         *)
(* The page of a greenhouse.  EditsAreExact is not inductive.  That a save *)
(* has the place the finger let the tile go at rests on FingerHolds: as    *)
(* long as the gesture is calm, the object on the screen and the one the   *)
(* next frame will show, which are one object unless the tile is apart     *)
(* (SameObject), are at the finger's place, and a sensor's is marked, so   *)
(* that the next answer carries the place over.  That a zone has the       *)
(* rectangle its dialog asked for rests on NamesHold: while a dialog for a *)
(* name is open nothing but its own rectangle can be currentDrawing, and   *)
(* no zone has that rectangle yet.                                         *)
(*                                                                         *)
(* The session.  HomeIsTheUsers rests on who can enter a session.  No two  *)
(* phones carry the same session id (SidsApart); of one phone at most one  *)
(* call that lets in is listened to, and the phone then waits on its first *)
(* page (CallsHold); so the session of a home page is entered by strays    *)
(* only.  FlowsAreSafe takes that over from the answer to the login to the *)
(* home page that is opened with it, HomesAreSafe keeps it for the cookie  *)
(* and for the list that was asked for, and HousesHold keeps a greenhouse  *)
(* from changing its owner while it is on a list.  All of it speaks only   *)
(* of phones whose application was not yet left with a home page below the *)
(* page for logging in, and Sound is what shows that there is none: home   *)
(* pages lie below others only where buried says so.                       *)
(***************************************************************************)
EXTENDS MobileApp, Sequences, FiniteSetTheorems, TLAPS

----------------------------------------------------------------------------
(* The page of a greenhouse.                                               *)

(* A tile that is not apart has one object.                                *)
SameObject ==
  \A t \in DOMAIN shown \ apart : t \in DOMAIN tiles /\ tiles[t] = shown[t]

FingerHolds ==
  /\ finger.kind = "tile" => finger.tile \in DOMAIN shown
  /\ finger.calm =>
       /\ finger.kind = "tile"
       /\ shown[finger.tile].place = finger.to
       /\ finger.tile \in DOMAIN tiles =>
            /\ tiles[finger.tile].place = finger.to
            /\ finger.tile \in Sensor => tiles[finger.tile].drag

SavesHold ==
  \A t \in tasks : t.kind = "save" => t.step = "write" /\ t.value = t.like

ZonesHold ==
  /\ \A z \in zones : z.id <= made /\ z.like = z.by /\ z.like <= drawn
  /\ \A y, z \in zones : y.like = z.like \/ y.id = z.id => y = z

Creating(t) == t.kind = "create" /\ t.step \in {"ask", "write"}

(* No zone has the rectangle that is being drawn, and none is to get it.   *)
NewDrawing == /\ \A z \in zones : z.like # finger.to
              /\ \A t \in tasks : Creating(t) => t.like # finger.to

NamesHold ==
  /\ \A t \in tasks : Creating(t) =>
       /\ t.like <= drawn
       /\ \A z \in zones : z.like # t.like
       /\ t.step = "ask" => drawing \in {0, t.like}
       /\ t.step = "write" => t.value = t.like
  /\ \A s, t \in tasks :
       Creating(s) /\ Creating(t) /\ s.like = t.like => s = t
  /\ finger.kind = "draw" =>
       /\ finger.to <= drawn /\ drawing \in {0, finger.to}
       /\ NewDrawing
       /\ \A t \in tasks : t.kind = "create" => t.step # "ask"

DeletesHold ==
  \A t \in tasks :
    t.kind = "delete" /\ t.step \in {"ask", "write"} =>
      t.zone <= made /\ \A z \in zones : z.id = t.zone => z.like = t.like

RowsOK == rows \in [Tile -> Row]
ZonesOK == zones \in ZoneList /\ made \in Nat
TilesOK ==
  /\ tiles \in [DOMAIN tiles -> Object] /\ DOMAIN tiles \subseteq Tile
  /\ shown \in [DOMAIN shown -> Object] /\ DOMAIN shown \subseteq Tile
  /\ apart \subseteq DOMAIN shown
MapOK == map \in ZoneList
Modes == [edit : BOOLEAN, draw : BOOLEAN, due : BOOLEAN, count : Nat,
          open : BOOLEAN]
ModeOK == mode \in Modes
DrawingOK == drawing \in 0 .. drawn /\ drawn \in Nat
FingerOK == finger \in Gesture
FetchOK == fetch \in [1 .. Fetches -> Fetch]
TasksOK == tasks \subseteq Task
TodoOK == todo \in [Kinds -> Nat]

Types == /\ RowsOK /\ ZonesOK /\ TilesOK /\ MapOK /\ ModeOK /\ DrawingOK
         /\ FingerOK /\ FetchOK /\ TasksOK /\ TodoOK

LEMMA TypesAreTypes == (TypeOK <=> Types) /\ (TypeOK' <=> Types')
  BY DEF TypeOK, Types, RowsOK, ZonesOK, TilesOK, MapOK, ModeOK, Modes,
     DrawingOK, FingerOK, FetchOK, TasksOK, TodoOK

----------------------------------------------------------------------------
LEMMA KindNames == {"drags", "moves", "draws", "deletes", "dialogs",
                    "unassigns", "toggles", "faults", "closes"} \subseteq Kinds
  BY DEF Kinds

LEMMA Spending ==
  ASSUME TodoOK, NEW kind \in Kinds, Spend(kind)
  PROVE  TodoOK'
  BY DEF TodoOK, Spend

LEMMA ModeSteps ==
  ASSUME ModeOK
  PROVE  /\ mode.edit \in BOOLEAN /\ mode.draw \in BOOLEAN
         /\ mode.open \in BOOLEAN /\ Due(mode) \in Modes
         /\ [Due(mode) EXCEPT !.edit = ~@, !.draw = FALSE] \in Modes
         /\ [Due(mode) EXCEPT !.draw = ~@] \in Modes
         /\ [mode EXCEPT !.open = FALSE] \in Modes
  BY DEF ModeOK, Due, Modes

LEMMA ModePops ==
  ASSUME ModeOK
  PROVE  Popped(mode) \in Modes /\ Popped(Due(mode)) \in Modes
<1> DEFINE still(m) == m.open /\ Top # {}
<1>1. still(mode) \in BOOLEAN /\ still(Due(mode)) \in BOOLEAN OBVIOUS
<1>2. \A m \in Modes, b \in BOOLEAN : [m EXCEPT !.open = b] \in Modes BY DEF Modes
<1>3. mode \in Modes /\ Due(mode) \in Modes BY ModeSteps DEF ModeOK
<1>4. /\ Popped(mode) = [mode EXCEPT !.open = still(mode)]
      /\ Popped(Due(mode)) = [Due(mode) EXCEPT !.open = still(Due(mode))]
  BY <1>3 DEF Popped, Modes
<1> HIDE DEF still
<1> QED BY <1>1, <1>2, <1>3, <1>4

(* The fields of a task, and the tasks it becomes.                         *)
LEMMA TaskFields ==
  ASSUME TasksOK, NEW t \in tasks
  PROVE  /\ t \in Task /\ t.tile \in Tile \cup {0} /\ t.own \in BOOLEAN
         /\ t.zone \in Nat /\ t.like \in Nat /\ t.value \in Nat
         /\ t.seen \in ZoneList /\ t.num \in Nat
  BY DEF TasksOK, Task

LEMMA Becoming ==
  ASSUME TasksOK, NEW t \in tasks
  PROVE  /\ Done(t) \subseteq Task
         /\ \A u \in Task : Becomes(t, u) \subseteq Task
         /\ \A step \in {"find", "ask", "write", "more", "read", "show"} :
              On(t, step) \subseteq Task
  BY DEF TasksOK, Done, Becomes, On, Task

LEMMA NumbersAreNumbers ==
  ASSUME TasksOK
  PROVE  Numbers \subseteq Nat
  BY TaskFields DEF Numbers

(* The tasks that are left when dialogs go.                                *)
LEMMA Leaving ==
  ASSUME TasksOK, DrawingOK, NEW T, T \subseteq Task, NEW D, D \subseteq tasks
  PROVE  Without(T, D) \subseteq Task
<1>1. drawing \in Nat BY DEF DrawingOK
<1>2. ASSUME NEW d \in D PROVE Remains(d) \subseteq Task
  <2>1. d \in Task BY DEF TasksOK
  <2>2. [d EXCEPT !.step = "read"] \in Task BY <2>1 DEF Task
  <2>3. [d EXCEPT !.value = drawing, !.step = "write"] \in Task BY <1>1, <2>1 DEF Task
  <2> QED BY <2>2, <2>3 DEF Remains
<1> QED BY <1>2 DEF Without

LEMMA TopTasks == Top \subseteq tasks /\ \A t \in Top : t.step = "ask"
  BY DEF Top, Asking

LEMMA EmptyList == {} \in ZoneList
  BY FS_EmptySet DEF ZoneList

LEMMA NewTasks ==
  ASSUME NEW kind \in {"save", "leave", "create", "delete", "unassign",
                       "sensor", "device", "alarms", "hub"},
         NEW step \in {"find", "ask", "write", "more", "read", "show"}
  PROVE  /\ NewTask(kind, step) \in Task
         /\ NewTask(kind, step).kind = kind /\ NewTask(kind, step).step = step
  BY EmptyList DEF NewTask, Task, Dialog

LEMMA NewFetches ==
  /\ NoFetch \in Fetch
  /\ [NoFetch EXCEPT !.all = TRUE, !.logs = "asked", !.zones = "asked",
                     !.devices = "asked"] \in Fetch
  /\ [NoFetch EXCEPT !.devices = "asked"] \in Fetch
  BY EmptyList DEF NoFetch, Fetch, Progress

LEMMA RenewedTiles ==
  /\ Renewed("logs") = Sensor /\ Renewed("devices") = Device
  /\ Renewed("zones") = {}
  /\ \A piece : Renewed(piece) \subseteq Tile
  BY DEF Renewed, Tile

LEMMA ListedLines ==
  ASSUME RowsOK, NEW piece
  PROVE  Listed(piece) \subseteq Line
  BY RenewedTiles DEF RowsOK, Row, Listed, Line

LEMMA DraggedSensors == Dragged \subseteq Sensor /\ Dragged \subseteq DOMAIN tiles
  BY DEF Dragged

(* What new objects are.                                                   *)
LEMMA NewTiles ==
  ASSUME TilesOK, NEW l \in Line
  PROVE  /\ NewTile(l) \in Object
         /\ l.id \in Dragged => /\ NewTile(l).place = tiles[l.id].place
                                /\ NewTile(l).drag
<1>1. l.place \in Nat /\ l.name \in Nat /\ l.limits \in Nat BY DEF Line
<1>2. l.id \in Dragged => tiles[l.id] \in Object
  BY DraggedSensors DEF TilesOK
<1>3. l.id \in Dragged => tiles[l.id].place \in Nat BY <1>2 DEF Object
<1> DEFINE p == IF l.id \in Dragged THEN tiles[l.id].place ELSE l.place
           d == l.id \in Dragged
<1>4. /\ p \in Nat /\ d \in BOOLEAN
      /\ d <=> l.id \in Dragged
      /\ l.id \in Dragged => p = tiles[l.id].place
  BY <1>1, <1>3
<1>5. NewTile(l) = [place |-> p, name |-> l.name, limits |-> l.limits, drag |-> d]
  BY DEF NewTile
<1> HIDE DEF p, d
<1>6. NewTile(l) \in Object BY <1>1, <1>4, <1>5 DEF Object
<1>7. NewTile(l).place = p /\ NewTile(l).drag = d BY <1>5
<1> QED BY <1>4, <1>6, <1>7

LEMMA Replacing ==
  ASSUME TilesOK, NEW piece, NEW answer \in SUBSET Line,
         NEW new, new = Replaced(piece, answer)
  PROVE  /\ new \in [DOMAIN new -> Object] /\ DOMAIN new \subseteq Tile
         /\ \A t \in DOMAIN tiles \ Renewed(piece) :
              t \in DOMAIN new /\ new[t] = tiles[t]
         /\ \A t \in DOMAIN new \ Renewed(piece) : t \in DOMAIN tiles
         /\ \A t \in DOMAIN new \cap Dragged :
              new[t].place = tiles[t].place /\ new[t].drag
<1> DEFINE others == DOMAIN tiles \ Renewed(piece)
           lines == {l \in answer : l.id \in Renewed(piece)}
           line(t) == CHOOSE l \in lines : l.id = t
<1>1. new = [t \in others \cup {l.id : l \in lines} |->
               IF t \in others THEN tiles[t] ELSE NewTile(line(t))]
  BY DEF Replaced
<1>2. \A t \in {l.id : l \in lines} : line(t) \in lines /\ line(t).id = t
  OBVIOUS
<1>3. \A l \in lines : l \in Line /\ l.id \in Renewed(piece) OBVIOUS
<1>4. \A t \in others : t \in Tile /\ tiles[t] \in Object BY DEF TilesOK
<1>5. \A l \in lines : l.id \in Tile BY <1>3 DEF Line
<1> HIDE DEF lines, others, line
<1>6. \A t \in DOMAIN new : t \in Tile /\ new[t] \in Object
  <2> SUFFICES ASSUME NEW t \in DOMAIN new PROVE t \in Tile /\ new[t] \in Object
    OBVIOUS
  <2>1. CASE t \in others BY <1>1, <1>4, <2>1
  <2>2. CASE t \notin others
    <3>1. t \in {l.id : l \in lines} /\ new[t] = NewTile(line(t)) BY <1>1, <2>2
    <3>2. line(t) \in lines BY <1>2, <3>1
    <3> QED BY <1>3, <1>5, <3>1, <3>2, NewTiles
  <2> QED BY <2>1, <2>2
<1>7. new \in [DOMAIN new -> Object] BY <1>1, <1>6
<1>8. \A t \in others : t \in DOMAIN new /\ new[t] = tiles[t] BY <1>1
<1>9. \A t \in DOMAIN new \ Renewed(piece) : t \in DOMAIN tiles
  BY <1>1, <1>2, <1>3 DEF others
<1>10. ASSUME NEW t \in DOMAIN new \cap Dragged
       PROVE  new[t].place = tiles[t].place /\ new[t].drag
  <2>1. CASE t \in others BY <1>1, <2>1 DEF Dragged
  <2>2. CASE t \notin others
    <3>1. t \in {l.id : l \in lines} /\ new[t] = NewTile(line(t)) BY <1>1, <2>2
    <3>2. line(t) \in Line /\ line(t).id = t BY <1>2, <1>3, <3>1
    <3> QED BY <3>1, <3>2, NewTiles
  <2> QED BY <2>1, <2>2
<1> QED BY <1>6, <1>7, <1>8, <1>9, <1>10 DEF others

(* A callback that changes the object of the last frame.                   *)
LEMMA Touching ==
  ASSUME TilesOK, NEW t \in DOMAIN shown, NEW object \in Object,
         Touch(t, object), UNCHANGED apart
  PROVE  TilesOK'
  BY DEF TilesOK, Touch

LEMMA ObjectSteps ==
  ASSUME NEW o \in Object
  PROVE  /\ o.place \in Nat /\ o.name \in Nat /\ o.drag \in BOOLEAN
         /\ \A drag \in BOOLEAN : [o EXCEPT !.drag = drag] \in Object
         /\ \A name \in Nat : [o EXCEPT !.name = name] \in Object
         /\ [o EXCEPT !.place = @ + 1] \in Object
  BY DEF Object

----------------------------------------------------------------------------
LEMMA FrameTypes ==
  ASSUME Types, Frame
  PROVE  ModeOK' /\ FingerOK' /\ TilesOK'
<1>1. TilesOK' BY DEF Frame, Types, TilesOK
<1>2. Cardinality(map) \in Nat
  BY FS_CardinalityType DEF Types, MapOK, ZoneList
<1>3. ModeOK' BY <1>2 DEF Frame, Types, ModeOK, Modes
<1>4. finger \in Gesture /\ Rest \in Gesture BY DEF Types, FingerOK, Gesture, Rest
<1>5. \A t \in DOMAIN tiles : [finger EXCEPT !.tile = t, !.calm = FALSE] \in Gesture
  BY <1>4 DEF Types, TilesOK, Gesture
<1>6. FingerOK' BY <1>4, <1>5 DEF Frame, FingerOK
<1> QED BY <1>1, <1>3, <1>6

LEMMA FetchSteps ==
  ASSUME NEW a \in Fetch, NEW p \in {"logs", "zones", "devices"}, NEW v \in Progress,
         NEW rest, rest = [a EXCEPT ![p] = v]
  PROVE  /\ rest \in Fetch /\ rest.map = a.map /\ rest.tiles = a.tiles
         /\ rest.map \in ZoneList /\ rest.tiles \in SUBSET Line
<1>1. CASE p = "logs" BY <1>1 DEF Fetch
<1>2. CASE p = "zones" BY <1>2 DEF Fetch
<1>3. CASE p = "devices" BY <1>3 DEF Fetch
<1> QED BY <1>1, <1>2, <1>3

LEMMA AnswerTypes ==
  ASSUME Types, NEW f \in 1 .. Fetches,
         NEW p \in {"logs", "zones", "devices"}, Answer(f, p)
  PROVE  Types'
<1> USE DEF Types
<1> DEFINE rest == [fetch[f] EXCEPT ![p] = "done"]
<1>2. rest \in Fetch /\ rest.map \in ZoneList /\ rest.tiles \in SUBSET Line
  BY FetchSteps DEF FetchOK, Progress
<1> HIDE DEF rest
<1>3. FetchOK' BY <1>2, NewFetches DEF Answer, FetchOK, rest
<1>4. MapOK' BY <1>2 DEF Answer, MapOK, rest
<1>5. TilesOK'
  <2>1. CASE p = "zones" BY <2>1 DEF Answer, TilesOK
  <2>2. CASE p # "zones"
    <3>1. tiles' = Replaced(p, rest.tiles) /\ shown' = shown
          /\ apart' = apart \cup (DOMAIN shown \cap Renewed(p))
      BY <2>2 DEF Answer, rest
    <3>2. tiles' \in [DOMAIN tiles' -> Object] /\ DOMAIN tiles' \subseteq Tile
      BY <1>2, <3>1, Replacing
    <3> QED BY <3>1, <3>2 DEF TilesOK
  <2> QED BY <2>1, <2>2
<1>6. ModeOK' BY ModeSteps DEF Answer, ModeOK
<1>7. FingerOK' BY DEF Answer, FingerOK, Gesture
<1>8. TasksOK'
  <2>1. \A t \in tasks : [t EXCEPT !.own = FALSE] \in Task BY DEF TasksOK, Task
  <2> QED BY <2>1 DEF Answer, TasksOK
<1>9. RowsOK' /\ ZonesOK' /\ DrawingOK' /\ TodoOK'
  BY DEF Answer, database, RowsOK, ZonesOK, DrawingOK, TodoOK
<1> QED BY <1>3, <1>4, <1>5, <1>6, <1>7, <1>8, <1>9

LEMMA ServeTypes ==
  ASSUME Types, NEW f \in 1 .. Fetches,
         NEW p \in {"logs", "zones", "devices"}, Serve(f, p)
  PROVE  Types'
<1> USE DEF Types
<1> DEFINE rest == [fetch[f] EXCEPT ![p] = "read"]
           full == [rest EXCEPT !.map = IF p = "zones" THEN zones ELSE @,
                                !.tiles = @ \cup Listed(p)]
<1>1. rest \in Fetch /\ rest.map \in ZoneList /\ rest.tiles \in SUBSET Line
  BY FetchSteps DEF FetchOK, Progress
<1>2. Listed(p) \subseteq Line /\ zones \in ZoneList BY ListedLines DEF ZonesOK
<1> HIDE DEF rest
<1>3. full \in Fetch
  <2> DEFINE lines == rest.tiles \cup Listed(p)
  <2>1. lines \in SUBSET Line BY <1>1, <1>2
  <2>2. full = [rest EXCEPT !.map = IF p = "zones" THEN zones ELSE @, !.tiles = lines]
    BY <1>1 DEF Fetch
  <2> HIDE DEF lines
  <2>3. CASE p = "zones" BY <1>1, <1>2, <2>1, <2>2, <2>3 DEF Fetch
  <2>4. CASE p # "zones" BY <1>1, <1>2, <2>1, <2>2, <2>4 DEF Fetch
  <2> QED BY <2>3, <2>4
<1> HIDE DEF full
<1>6. FetchOK' BY <1>1, <1>3 DEF Serve, FetchOK, rest, full
<1>4. TodoOK' BY Spending, KindNames DEF Serve, TodoOK
<1>5. /\ RowsOK' /\ ZonesOK' /\ TilesOK' /\ MapOK' /\ ModeOK' /\ DrawingOK'
      /\ FingerOK' /\ TasksOK'
  BY DEF Serve, database, page, RowsOK, ZonesOK, TilesOK, MapOK, ModeOK,
     DrawingOK, FingerOK, TasksOK
<1> QED BY <1>4, <1>5, <1>6

LEMMA TypeStep == Types /\ FingerHolds /\ [Next]_vars => Types'
<1> SUFFICES ASSUME Types, FingerHolds, [Next]_vars PROVE Types' OBVIOUS
<1> USE DEF Types, database, page
<1>1. ASSUME NEW f \in Free, Tick(f) PROVE Types'
  <2>1. ModeOK' BY <1>1, ModeSteps DEF Tick, ModeOK
  <2>2. FetchOK' BY <1>1, NewFetches DEF Tick, FetchAll, FetchOK, Free
  <2>3. RowsOK' /\ ZonesOK' /\ TilesOK' /\ MapOK' /\ DrawingOK' /\ FingerOK' /\ TasksOK' /\ TodoOK'
    BY <1>1 DEF Tick, RowsOK, ZonesOK, TilesOK, MapOK, DrawingOK, FingerOK, TasksOK, TodoOK
  <2> QED BY <2>1, <2>2, <2>3
<1>2. ASSUME NEW f \in 1 .. Fetches, NEW p \in {"logs", "zones", "devices"}, Serve(f, p) PROVE Types'
  BY <1>2, ServeTypes
<1>3. ASSUME NEW f \in 1 .. Fetches, NEW p \in {"logs", "zones", "devices"}, Answer(f, p) PROVE Types'
  BY <1>3, AnswerTypes
<1>4. CASE Frame
  <2>1. ModeOK' /\ FingerOK' /\ TilesOK' BY <1>4, FrameTypes
  <2>2. RowsOK' /\ ZonesOK' /\ MapOK' /\ DrawingOK' /\ FetchOK' /\ TasksOK' /\ TodoOK'
    BY <1>4 DEF Frame, RowsOK, ZonesOK, MapOK, DrawingOK, FetchOK, TasksOK, TodoOK
  <2> QED BY <2>1, <2>2
<1>5. CASE DragMove
  <2>1. TilesOK'
    <3>1. finger.tile \in DOMAIN shown BY <1>5 DEF DragMove, FingerHolds
    <3>2. shown[finger.tile] \in Object BY <3>1 DEF TilesOK
    <3> QED BY <1>5, <3>1, <3>2, ObjectSteps, Touching DEF DragMove
  <2>2. ModeOK' BY <1>5, ModeSteps DEF DragMove, ModeOK
  <2>3. FingerOK'
    <3> DEFINE calm == finger.calm /\ finger.tile \notin apart
               to == finger.to + 1
    <3>1. calm \in BOOLEAN /\ to \in Nat BY DEF FingerOK, Gesture
    <3>2. finger' = [finger EXCEPT !.to = to, !.calm = calm]
      BY <1>5 DEF DragMove, FingerOK, Gesture
    <3> HIDE DEF calm, to
    <3> QED BY <3>1, <3>2 DEF FingerOK, Gesture
  <2>4. TodoOK' BY <1>5, Spending, KindNames DEF DragMove
  <2>5. RowsOK' /\ ZonesOK' /\ MapOK' /\ DrawingOK' /\ FetchOK' /\ TasksOK'
    BY <1>5 DEF DragMove, RowsOK, ZonesOK, MapOK, DrawingOK, FetchOK, TasksOK
  <2> QED BY <2>1, <2>2, <2>3, <2>4, <2>5
<1>6. ASSUME NEW t \in Tile, DragStart(t) PROVE Types'
  <2>1. TilesOK'
    <3>1. t \in DOMAIN shown /\ shown[t] \in Object BY <1>6 DEF DragStart, TilesOK
    <3> QED BY <1>6, <3>1, ObjectSteps, Touching DEF DragStart
  <2>2. ModeOK' BY <1>6, ModeSteps DEF DragStart, ModeOK
  <2>3. FingerOK'
    <3>1. shown[t] \in Object BY <1>6 DEF DragStart, TilesOK
    <3>2. shown[t].place \in Nat BY <3>1, ObjectSteps
    <3> QED BY <1>6, <3>2 DEF DragStart, FingerOK, Gesture
  <2>4. TodoOK' BY <1>6, Spending, KindNames DEF DragStart
  <2>5. RowsOK' /\ ZonesOK' /\ MapOK' /\ DrawingOK' /\ FetchOK' /\ TasksOK'
    BY <1>6 DEF DragStart, RowsOK, ZonesOK, MapOK, DrawingOK, FetchOK, TasksOK
  <2> QED BY <2>1, <2>2, <2>3, <2>4, <2>5
<1>7. CASE DragEnd
  <2>1. TilesOK'
    <3>1. finger.tile \in DOMAIN shown BY <1>7 DEF DragEnd, FingerHolds
    <3>2. shown[finger.tile] \in Object BY <3>1 DEF TilesOK
    <3> QED BY <1>7, <3>1, <3>2, ObjectSteps, Touching DEF DragEnd
  <2>2. FingerOK' BY <1>7 DEF DragEnd, FingerOK, Rest, Gesture
  <2>3. TasksOK'
    <3>1. finger.tile \in DOMAIN shown BY <1>7 DEF DragEnd, FingerHolds
    <3>2. shown[finger.tile] \in Object BY <3>1 DEF TilesOK
    <3>3. /\ shown[finger.tile].place \in Nat /\ finger.to \in Nat
          /\ finger.tile \in Tile \cup {0} /\ finger.calm \in BOOLEAN
      BY <3>2, ObjectSteps DEF FingerOK, Gesture
    <3> DEFINE new == NewTask("save", "write")
               like == IF finger.calm THEN finger.to ELSE shown[finger.tile].place
    <3>4. new \in Task /\ like \in Nat BY <3>3, NewTasks
    <3>5. tasks' = tasks \cup {[new EXCEPT !.tile = finger.tile,
                     !.value = shown[finger.tile].place, !.like = like]}
      BY <1>7 DEF DragEnd
    <3> HIDE DEF new, like
    <3>6. \A tile \in Tile \cup {0}, value \in Nat :
            [new EXCEPT !.tile = tile, !.value = value, !.like = like] \in Task
      BY <3>4 DEF Task
    <3> QED BY <3>3, <3>5, <3>6 DEF TasksOK
  <2>4. RowsOK' /\ ZonesOK' /\ MapOK' /\ ModeOK' /\ DrawingOK' /\ FetchOK' /\ TodoOK'
    BY <1>7 DEF DragEnd, RowsOK, ZonesOK, MapOK, ModeOK, DrawingOK, FetchOK, TodoOK
  <2> QED BY <2>1, <2>2, <2>3, <2>4
<1>8. CASE ToggleEdit
  <2>1. ModeOK' BY <1>8, ModeSteps DEF ToggleEdit, ModeOK
  <2>2. TasksOK'
    <3> DEFINE new == NewTask("leave", "write")
    <3>1. new \in Task BY NewTasks
    <3>2. CASE tasks' = tasks BY <3>2 DEF TasksOK
    <3>3. ASSUME NEW t \in Dragged,
                 tasks' = tasks \cup {[new EXCEPT !.tile = t, !.value = tiles[t].place]}
          PROVE  TasksOK'
      <4>1. tiles[t] \in Object /\ t \in Tile BY DraggedSensors DEF TilesOK
      <4>2. tiles[t].place \in Nat BY <4>1, ObjectSteps
      <4> HIDE DEF new
      <4>3. \A tile \in Tile, value \in Nat :
              [new EXCEPT !.tile = tile, !.value = value] \in Task
        BY <3>1 DEF Task
      <4> QED BY <3>3, <4>1, <4>2, <4>3 DEF TasksOK
    <3> QED BY <1>8, <3>2, <3>3 DEF ToggleEdit
  <2>3. TodoOK' BY <1>8, Spending, KindNames DEF ToggleEdit
  <2>4. RowsOK' /\ ZonesOK' /\ TilesOK' /\ MapOK' /\ DrawingOK' /\ FingerOK' /\ FetchOK'
    BY <1>8 DEF ToggleEdit, RowsOK, ZonesOK, TilesOK, MapOK, DrawingOK, FingerOK, FetchOK
  <2> QED BY <2>1, <2>2, <2>3, <2>4
<1>9. CASE ToggleDraw
  <2>1. ModeOK' BY <1>9, ModeSteps DEF ToggleDraw, ModeOK
  <2>2. TodoOK' BY <1>9, Spending, KindNames DEF ToggleDraw
  <2>3. RowsOK' /\ ZonesOK' /\ TilesOK' /\ MapOK' /\ DrawingOK' /\ FingerOK' /\ FetchOK' /\ TasksOK'
    BY <1>9 DEF ToggleDraw, RowsOK, ZonesOK, TilesOK, MapOK, DrawingOK, FingerOK, FetchOK, TasksOK
  <2> QED BY <2>1, <2>2, <2>3
<1>10. CASE DrawStart
  <2>1. DrawingOK' BY <1>10 DEF DrawStart, DrawingOK
  <2>2. FingerOK'
    <3> DEFINE to == drawn + 1
    <3>1. to \in Nat BY DEF DrawingOK
    <3>2. finger' = [Rest EXCEPT !.kind = "draw", !.to = to] BY <1>10 DEF DrawStart
    <3> HIDE DEF to
    <3> QED BY <3>1, <3>2 DEF FingerOK, Rest, Gesture
  <2>3. TodoOK' BY <1>10, Spending, KindNames DEF DrawStart
  <2>4. RowsOK' /\ ZonesOK' /\ TilesOK' /\ MapOK' /\ ModeOK' /\ FetchOK' /\ TasksOK'
    BY <1>10 DEF DrawStart, RowsOK, ZonesOK, TilesOK, MapOK, ModeOK, FetchOK, TasksOK
  <2> QED BY <2>1, <2>2, <2>3, <2>4
<1>11. CASE DrawEnd
  <2>1. FingerOK' BY <1>11 DEF DrawEnd, FingerOK, Rest, Gesture
  <2>2. TasksOK'
    <3> DEFINE new == NewTask("create", "ask")
    <3>1. new \in Task BY NewTasks
    <3>2. finger.to \in Nat BY DEF FingerOK, Gesture
    <3>3. CASE tasks' = tasks BY <3>3 DEF TasksOK
    <3>4. ASSUME NEW n \in Numbers,
                 tasks' = tasks \cup {[new EXCEPT !.like = finger.to, !.num = n]}
          PROVE  TasksOK'
      <4>1. n \in Nat BY NumbersAreNumbers
      <4> HIDE DEF new
      <4> QED BY <3>1, <3>2, <3>4, <4>1 DEF TasksOK, Task
    <3> QED BY <1>11, <3>3, <3>4 DEF DrawEnd
  <2>3. RowsOK' /\ ZonesOK' /\ TilesOK' /\ MapOK' /\ ModeOK' /\ DrawingOK' /\ FetchOK' /\ TodoOK'
    BY <1>11 DEF DrawEnd, RowsOK, ZonesOK, TilesOK, MapOK, ModeOK, DrawingOK, FetchOK, TodoOK
  <2> QED BY <2>1, <2>2, <2>3
<1>12. ASSUME NEW t \in Tile, TapTile(t) PROVE Types'
  <2>1. TasksOK'
    <3> DEFINE new == NewTask(IF t \in Sensor THEN "sensor" ELSE "device", "ask")
    <3>1. new \in Task BY NewTasks
    <3>2. shown[t] \in Object BY <1>12 DEF TapTile, TilesOK
    <3>3. shown[t].name \in Nat BY <3>2, ObjectSteps
    <3> DEFINE own == t \notin apart
               value == shown[t].name
               tapped == [new EXCEPT !.tile = t, !.own = own, !.value = value]
    <3>4. own \in BOOLEAN OBVIOUS
    <3>5. PICK n \in Numbers : tasks' = tasks \cup {[tapped EXCEPT !.num = n]}
      BY <1>12 DEF TapTile, Begin
    <3> HIDE DEF new, own, value
    <3>6. tapped \in Task BY <3>1, <3>3, <3>4 DEF Task, value
    <3> HIDE DEF tapped
    <3>7. [tapped EXCEPT !.num = n] \in Task BY <3>6, NumbersAreNumbers DEF Task
    <3> QED BY <3>5, <3>7 DEF TasksOK
  <2>2. TodoOK' BY <1>12, Spending, KindNames DEF TapTile
  <2>3. RowsOK' /\ ZonesOK' /\ TilesOK' /\ MapOK' /\ ModeOK' /\ DrawingOK' /\ FingerOK' /\ FetchOK'
    BY <1>12 DEF TapTile, RowsOK, ZonesOK, TilesOK, MapOK, ModeOK, DrawingOK, FingerOK, FetchOK, Begin
  <2> QED BY <2>1, <2>2, <2>3
<1>13. ASSUME NEW t \in Tile, TapBin(t) PROVE Types'
  <2>1. TasksOK'
    <3> DEFINE new == NewTask("unassign", "write")
    <3>1. new \in Task BY NewTasks
    <3> DEFINE tapped == [new EXCEPT !.tile = t]
    <3>2. PICK n \in Numbers : tasks' = tasks \cup {[tapped EXCEPT !.num = n]}
      BY <1>13 DEF TapBin, Begin
    <3> HIDE DEF new
    <3>3. tapped \in Task BY <3>1 DEF Task
    <3> HIDE DEF tapped
    <3>4. [tapped EXCEPT !.num = n] \in Task BY <3>3, NumbersAreNumbers DEF Task
    <3> QED BY <3>2, <3>4 DEF TasksOK
  <2>2. TodoOK' BY <1>13, Spending, KindNames DEF TapBin
  <2>3. RowsOK' /\ ZonesOK' /\ TilesOK' /\ MapOK' /\ ModeOK' /\ DrawingOK' /\ FingerOK' /\ FetchOK'
    BY <1>13 DEF TapBin, RowsOK, ZonesOK, TilesOK, MapOK, ModeOK, DrawingOK, FingerOK, FetchOK, Begin
  <2> QED BY <2>1, <2>2, <2>3
<1>14. ASSUME NEW z \in map, NEW kind \in {"delete", "alarms", "hub"}, TapZone(z, kind) PROVE Types'
  <2>1. TasksOK'
    <3> DEFINE new == NewTask(kind, IF kind = "alarms" THEN "ask" ELSE "find")
    <3>1. new \in Task BY NewTasks
    <3>2. z \in ZoneRow BY DEF MapOK, ZoneList
    <3>3. z.id \in Nat /\ z.like \in Nat /\ z.alarms \in Nat BY <3>2 DEF ZoneRow
    <3> DEFINE tapped == [new EXCEPT !.zone = z.id, !.like = z.like, !.value = z.alarms]
    <3>4. PICK n \in Numbers : tasks' = tasks \cup {[tapped EXCEPT !.num = n]}
      BY <1>14 DEF TapZone, Begin
    <3> HIDE DEF new
    <3>5. tapped \in Task BY <3>1, <3>3 DEF Task
    <3> HIDE DEF tapped
    <3>6. [tapped EXCEPT !.num = n] \in Task BY <3>5, NumbersAreNumbers DEF Task
    <3> QED BY <3>4, <3>6 DEF TasksOK
  <2>2. TodoOK' BY <1>14, Spending, KindNames DEF TapZone
  <2>3. RowsOK' /\ ZonesOK' /\ TilesOK' /\ MapOK' /\ ModeOK' /\ DrawingOK' /\ FingerOK' /\ FetchOK'
    BY <1>14 DEF TapZone, RowsOK, ZonesOK, TilesOK, MapOK, ModeOK, DrawingOK, FingerOK, FetchOK, Begin
  <2> QED BY <2>1, <2>2, <2>3
<1>15. ASSUME NEW t \in tasks, Find(t) PROVE Types'
  <2>1. TasksOK'
    <3>1. ASSUME NEW zone \in Nat, NEW n \in Numbers
          PROVE  [t EXCEPT !.zone = zone, !.step = "ask", !.num = n] \in Task
      BY TaskFields, NumbersAreNumbers DEF Task
    <3>2. ASSUME NEW z \in zones PROVE z.id \in Nat
      <4>1. z \in ZoneRow BY DEF ZonesOK, ZoneList
      <4> QED BY <4>1 DEF ZoneRow
    <3>3. t.zone \in Nat BY TaskFields
    <3>4. ASSUME NEW zone \in Nat, NEW n \in Numbers,
                 tasks' = IF mode.open
                          THEN Becomes(t, [t EXCEPT !.zone = zone, !.step = "ask", !.num = n])
                          ELSE Done(t)
          PROVE  TasksOK'
      BY <3>1, <3>4, Becoming DEF TasksOK
    <3>5. CASE tasks' = Done(t) BY <3>5, Becoming DEF TasksOK
    <3> QED BY <1>15, <3>2, <3>3, <3>4, <3>5 DEF Find
  <2>2. TodoOK' BY <1>15, Spending, KindNames DEF Find, TodoOK
  <2>3. RowsOK' /\ ZonesOK' /\ TilesOK' /\ MapOK' /\ ModeOK' /\ DrawingOK' /\ FingerOK' /\ FetchOK'
    BY <1>15 DEF Find, RowsOK, ZonesOK, TilesOK, MapOK, ModeOK, DrawingOK, FingerOK, FetchOK
  <2> QED BY <2>1, <2>2, <2>3
<1>16. ASSUME NEW t \in tasks, Dismiss(t) PROVE Types'
  <2>1. TasksOK' BY <1>16, Leaving DEF Dismiss, TasksOK
  <2>2. RowsOK' /\ ZonesOK' /\ TilesOK' /\ MapOK' /\ ModeOK' /\ DrawingOK' /\ FingerOK' /\ FetchOK' /\ TodoOK'
    BY <1>16 DEF Dismiss, RowsOK, ZonesOK, TilesOK, MapOK, ModeOK, DrawingOK, FingerOK, FetchOK, TodoOK
  <2> QED BY <2>1, <2>2
<1>17. ASSUME NEW t \in tasks, WritePlace(t) PROVE Types'
  <2>1. RowsOK' BY <1>17, TaskFields DEF WritePlace, RowsOK, Row
  <2>2. TasksOK' BY <1>17, Becoming DEF WritePlace, TasksOK
  <2>3. TodoOK' BY <1>17, Spending, KindNames DEF WritePlace, TodoOK
  <2>4. ZonesOK' /\ TilesOK' /\ MapOK' /\ ModeOK' /\ DrawingOK' /\ FingerOK' /\ FetchOK'
    BY <1>17 DEF WritePlace, ZonesOK, TilesOK, MapOK, ModeOK, DrawingOK, FingerOK, FetchOK
  <2> QED BY <2>1, <2>2, <2>3, <2>4
<1>18. ASSUME NEW t \in tasks, Unmark(t) PROVE Types'
  <2>1. TilesOK'
    <3>1. \A o \in Object : [o EXCEPT !.drag = FALSE] \in Object BY ObjectSteps
    <3> QED BY <1>18, <3>1 DEF Unmark, TilesOK
  <2>2. ModeOK' BY <1>18, ModeSteps DEF Unmark, ModeOK
  <2>3. FingerOK' BY <1>18 DEF Unmark, FingerOK, Gesture
  <2>4. TasksOK'
    <3>1. ASSUME NEW s \in Dragged
          PROVE  [t EXCEPT !.step = "write", !.tile = s, !.value = tiles[s].place] \in Task
      <4>1. tiles[s] \in Object /\ s \in Tile BY DraggedSensors DEF TilesOK
      <4>2. tiles[s].place \in Nat BY <4>1, ObjectSteps
      <4> QED BY <4>1, <4>2, TaskFields DEF Task
    <3> QED BY <1>18, <3>1, Becoming DEF Unmark, TasksOK
  <2>5. RowsOK' /\ ZonesOK' /\ MapOK' /\ DrawingOK' /\ FetchOK' /\ TodoOK'
    BY <1>18 DEF Unmark, RowsOK, ZonesOK, MapOK, DrawingOK, FetchOK, TodoOK
  <2> QED BY <2>1, <2>2, <2>3, <2>4, <2>5
<1>19. ASSUME NEW t \in tasks, WriteZone(t) PROVE Types'
  <2>1. ZonesOK'
    <3> DEFINE new == [id |-> made + 1, like |-> t.value, by |-> t.like,
                       alarms |-> 0, hub |-> 0]
    <3>1. new \in ZoneRow BY TaskFields DEF ZonesOK, ZoneRow
    <3> HIDE DEF new
    <3>2. zones \cup {new} \in ZoneList
      BY <3>1, FS_AddElement DEF ZonesOK, ZoneList
    <3> QED BY <1>19, <3>2 DEF WriteZone, ZonesOK, new
  <2>2. TasksOK' BY <1>19, Becoming DEF WriteZone, TasksOK
  <2>3. TodoOK' BY <1>19, Spending, KindNames DEF WriteZone, TodoOK
  <2>4. RowsOK' /\ TilesOK' /\ MapOK' /\ ModeOK' /\ DrawingOK' /\ FingerOK' /\ FetchOK'
    BY <1>19 DEF WriteZone, RowsOK, TilesOK, MapOK, ModeOK, DrawingOK, FingerOK, FetchOK
  <2> QED BY <2>1, <2>2, <2>3, <2>4
<1>20. ASSUME NEW t \in tasks, ChangeZone(t) PROVE Types'
  <2>1. ZonesOK'
    <3>1. ASSUME NEW z \in zones
          PROVE  zones \ {z} \in ZoneList /\ (zones \ {z}) \cup Outcome(t, z) \in ZoneList
      <4>1. zones \ {z} \in ZoneList BY FS_RemoveElement DEF ZonesOK, ZoneList
      <4>2. z \in ZoneRow BY DEF ZonesOK, ZoneList
      <4>3. [z EXCEPT !.alarms = t.value] \in ZoneRow /\ [z EXCEPT !.hub = t.value] \in ZoneRow
        BY <4>2, TaskFields DEF ZoneRow
      <4>4. \A u \in ZoneRow : (zones \ {z}) \cup {u} \in ZoneList
        BY <4>1, FS_AddElement DEF ZoneList
      <4> QED BY <1>20, <4>1, <4>3, <4>4 DEF ChangeZone, Outcome
    <3> QED BY <1>20, <3>1 DEF ChangeZone, ZonesOK
  <2>2. TasksOK'
    <3>1. Done(t) \subseteq Task /\ On(t, "read") \subseteq Task BY Becoming
    <3>2. tasks' \in {Done(t), On(t, "read"), Without(Done(t), Top), Without(On(t, "read"), Top)}
      BY <1>20 DEF ChangeZone, Pop
    <3> QED BY <3>1, <3>2, TopTasks, Leaving DEF TasksOK
  <2>3. TodoOK' BY <1>20, Spending, KindNames DEF ChangeZone, TodoOK
  <2>4. RowsOK'
    <3>1. \A r \in Row : [r EXCEPT !.zone = 0] \in Row BY DEF Row
    <3> QED BY <1>20, <3>1 DEF ChangeZone, Emptied, RowsOK
  <2>5. ModeOK' BY <1>20, ModePops DEF ChangeZone, ModeOK
  <2>6. TilesOK' /\ MapOK' /\ DrawingOK' /\ FingerOK' /\ FetchOK'
    BY <1>20 DEF ChangeZone, TilesOK, MapOK, DrawingOK, FingerOK, FetchOK
  <2> QED BY <2>1, <2>2, <2>3, <2>4, <2>5, <2>6
<1>21. ASSUME NEW t \in tasks, WriteName(t) PROVE Types'
  <2>1. RowsOK' BY <1>21, TaskFields DEF WriteName, RowsOK, Row
  <2>2. TilesOK'
    <3>1. \A o \in Object : [o EXCEPT !.name = t.value] \in Object
      BY ObjectSteps, TaskFields
    <3> QED BY <1>21, <3>1 DEF WriteName, TilesOK
  <2>3. ModeOK' BY <1>21, ModeSteps, ModePops DEF WriteName, ModeOK
  <2>4. TasksOK'
    <3>1. Done(t) \subseteq Task /\ On(t, "more") \subseteq Task BY Becoming
    <3>2. tasks' \in {Done(t), On(t, "more"), Without(Done(t), Top)}
      BY <1>21 DEF WriteName, Pop
    <3> QED BY <3>1, <3>2, TopTasks, Leaving DEF TasksOK
  <2>5. TodoOK' BY <1>21, Spending, KindNames DEF WriteName, Refused, TodoOK
  <2>6. ZonesOK' /\ MapOK' /\ DrawingOK' /\ FingerOK' /\ FetchOK'
    BY <1>21 DEF WriteName, ZonesOK, MapOK, DrawingOK, FingerOK, FetchOK
  <2> QED BY <2>1, <2>2, <2>3, <2>4, <2>5, <2>6
<1>22. ASSUME NEW t \in tasks, WriteLimits(t) PROVE Types'
  <2>1. RowsOK' BY <1>22, TaskFields DEF WriteLimits, RowsOK, Row
  <2>2. TasksOK'
    <3>1. Done(t) \subseteq Task BY Becoming
    <3>2. tasks' \in {Done(t), Without(Done(t), Top)} BY <1>22 DEF WriteLimits, Pop
    <3> QED BY <3>1, <3>2, TopTasks, Leaving DEF TasksOK
  <2>3. TodoOK' BY <1>22, Spending, KindNames DEF WriteLimits, Refused, TodoOK
  <2>4. ModeOK' BY <1>22, ModePops DEF WriteLimits, ModeOK
  <2>5. ZonesOK' /\ TilesOK' /\ MapOK' /\ DrawingOK' /\ FingerOK' /\ FetchOK'
    BY <1>22 DEF WriteLimits, ZonesOK, TilesOK, MapOK, DrawingOK, FingerOK, FetchOK
  <2> QED BY <2>1, <2>2, <2>3, <2>4, <2>5
<1>23. ASSUME NEW t \in tasks, Unassign(t) PROVE Types'
  <2>1. RowsOK'
    <3>1. rows' = rows \/ rows' = [rows EXCEPT ![t.tile].zone = 0]
      BY <1>23 DEF Unassign
    <3>2. \A r \in Row : [r EXCEPT !.zone = 0] \in Row BY DEF Row
    <3> QED BY <3>1, <3>2 DEF RowsOK
  <2>2. ModeOK' BY <1>23, ModeSteps DEF Unassign, ModeOK
  <2>3. FetchOK' BY <1>23, NewFetches DEF Unassign, FetchAll, FetchOK, Free
  <2>4. TasksOK' BY <1>23, Becoming DEF Unassign, TasksOK
  <2>5. TodoOK' BY <1>23, Spending, KindNames DEF Unassign, Refused, TodoOK
  <2>6. ZonesOK' /\ TilesOK' /\ MapOK' /\ DrawingOK' /\ FingerOK'
    BY <1>23 DEF Unassign, ZonesOK, TilesOK, MapOK, DrawingOK, FingerOK
  <2> QED BY <2>1, <2>2, <2>3, <2>4, <2>5, <2>6
<1>24. ASSUME NEW t \in tasks, ReadZones(t) PROVE Types'
  <2>1. TasksOK'
    <3>1. [t EXCEPT !.seen = zones, !.step = "show"] \in Task
      BY TaskFields DEF ZonesOK, Task
    <3> QED BY <1>24, <3>1, Becoming DEF ReadZones, TasksOK
  <2>2. TodoOK' BY <1>24, Spending, KindNames DEF ReadZones, TodoOK
  <2>3. RowsOK' /\ ZonesOK' /\ TilesOK' /\ MapOK' /\ ModeOK' /\ DrawingOK' /\ FingerOK' /\ FetchOK'
    BY <1>24 DEF ReadZones, RowsOK, ZonesOK, TilesOK, MapOK, ModeOK, DrawingOK, FingerOK, FetchOK
  <2> QED BY <2>1, <2>2, <2>3
<1>25. ASSUME NEW t \in tasks, ShowZones(t) PROVE Types'
  <2>1. MapOK' BY <1>25, TaskFields DEF ShowZones, MapOK
  <2>2. ModeOK' BY <1>25, ModeSteps, ModePops DEF ShowZones, ModeOK
  <2>3. DrawingOK' BY <1>25 DEF ShowZones, DrawingOK
  <2>4. TasksOK'
    <3>1. Done(t) \subseteq Task BY Becoming
    <3>2. tasks' \in {Done(t), Without(Done(t), Top)} BY <1>25 DEF ShowZones, Pop
    <3> QED BY <3>1, <3>2, TopTasks, Leaving DEF TasksOK
  <2>5. RowsOK' /\ ZonesOK' /\ TilesOK' /\ FingerOK' /\ FetchOK' /\ TodoOK'
    BY <1>25 DEF ShowZones, RowsOK, ZonesOK, TilesOK, FingerOK, FetchOK, TodoOK
  <2> QED BY <2>1, <2>2, <2>3, <2>4, <2>5
<1>26. ASSUME NEW t \in tasks, ConfirmDelete(t) PROVE Types'
  <2>1. TasksOK'
    <3>1. [t EXCEPT !.value = 0, !.step = "write"] \in Task BY TaskFields DEF Task
    <3> QED BY <1>26, <3>1, Becoming DEF ConfirmDelete, TasksOK
  <2>2. RowsOK' /\ ZonesOK' /\ TilesOK' /\ MapOK' /\ ModeOK' /\ DrawingOK' /\ FingerOK' /\ FetchOK' /\ TodoOK'
    BY <1>26 DEF ConfirmDelete, RowsOK, ZonesOK, TilesOK, MapOK, ModeOK, DrawingOK, FingerOK, FetchOK, TodoOK
  <2> QED BY <2>1, <2>2
<1>27. ASSUME NEW t \in tasks, Confirm(t) PROVE Types'
  <2>1. TasksOK'
    <3>1. PICK v \in 0 .. 1 : \E n \in Numbers :
             tasks' = tasks \cup {[t EXCEPT !.value = v,
               !.num = IF t.kind = "alarms" THEN @ ELSE n,
               !.step = IF t.kind = "device" /\ v = t.value THEN "more" ELSE "write"]}
      BY <1>27 DEF Confirm
    <3>2. PICK n \in Numbers : 
             tasks' = tasks \cup {[t EXCEPT !.value = v,
               !.num = IF t.kind = "alarms" THEN @ ELSE n,
               !.step = IF t.kind = "device" /\ v = t.value THEN "more" ELSE "write"]}
      BY <3>1
    <3> DEFINE step == IF t.kind = "device" /\ v = t.value THEN "more" ELSE "write"
               num == IF t.kind = "alarms" THEN t.num ELSE n
    <3>3. step \in {"more", "write"} /\ v \in Nat /\ num \in Nat
      BY TaskFields, NumbersAreNumbers
    <3>4. tasks' = tasks \cup {[t EXCEPT !.value = v, !.num = num, !.step = step]}
      BY <3>2, TaskFields DEF Task
    <3> HIDE DEF step, num
    <3>5. [t EXCEPT !.value = v, !.num = num, !.step = step] \in Task
      BY <3>3, TaskFields DEF Task
    <3> QED BY <3>4, <3>5 DEF TasksOK
  <2>2. TodoOK' BY <1>27, Spending, KindNames DEF Confirm
  <2>3. RowsOK' /\ ZonesOK' /\ TilesOK' /\ MapOK' /\ ModeOK' /\ DrawingOK' /\ FingerOK' /\ FetchOK'
    BY <1>27 DEF Confirm, RowsOK, ZonesOK, TilesOK, MapOK, ModeOK, DrawingOK, FingerOK, FetchOK
  <2> QED BY <2>1, <2>2, <2>3
<1>29. CASE Close
  <2>1. ModeOK' BY <1>29, ModeSteps DEF Close, ModeOK
  <2>2. TodoOK' BY <1>29, Spending, KindNames DEF Close
  <2>3. RowsOK' /\ ZonesOK' /\ TilesOK' /\ MapOK' /\ DrawingOK' /\ FingerOK' /\ FetchOK' /\ TasksOK'
    BY <1>29 DEF Close, RowsOK, ZonesOK, TilesOK, MapOK, DrawingOK, FingerOK, FetchOK, TasksOK
  <2> QED BY <2>1, <2>2, <2>3
<1>28. CASE UNCHANGED vars
  BY <1>28 DEF vars, RowsOK, ZonesOK, TilesOK, MapOK, ModeOK, DrawingOK, FingerOK,
     FetchOK, TasksOK, TodoOK
<1> QED BY <1>1, <1>2, <1>3, <1>4, <1>5, <1>6, <1>7, <1>8, <1>9, <1>10, <1>11, <1>12, <1>13, <1>14, <1>15, <1>16, <1>17, <1>18, <1>19, <1>20, <1>21, <1>22, <1>23, <1>24, <1>25, <1>26, <1>27, <1>28, <1>29 DEF Next, Proceeds, Pending

----------------------------------------------------------------------------
(* The objects of the tiles, and the finger on one of them.                *)
LEMMA Resting ==
  /\ Rest \in Gesture /\ Rest.kind = "none" /\ ~Rest.calm
  /\ \A to \in Nat : LET g == [Rest EXCEPT !.kind = "draw", !.to = to]
                    IN g.kind = "draw" /\ g.to = to /\ ~g.calm
  BY DEF Rest, Gesture

LEMMA FrameObjects ==
  ASSUME Types, SameObject, FingerHolds, Frame
  PROVE  SameObject' /\ FingerHolds'
<1>1. SameObject' BY DEF Frame, SameObject
<1>2. shown' = tiles BY DEF Frame
<1>3. CASE finger' = Rest
  <2>1. finger'.kind # "tile" /\ ~finger'.calm BY <1>3, Resting
  <2> QED BY <1>1, <2>1 DEF FingerHolds
<1>4. CASE finger.kind = "tile" /\ \E t \in DOMAIN tiles :
             finger' = [finger EXCEPT !.tile = t, !.calm = FALSE]
  <2>1. PICK t \in DOMAIN tiles : finger' = [finger EXCEPT !.tile = t, !.calm = FALSE]
    BY <1>4
  <2>2. finger'.tile = t /\ ~finger'.calm
    BY <2>1 DEF Types, FingerOK, Gesture
  <2> QED BY <1>1, <1>2, <2>2 DEF FingerHolds
<1>5. CASE finger' = finger /\ (finger.kind = "tile" => DOMAIN shown = DOMAIN tiles)
  <2>1. tiles' = tiles BY DEF Frame
  <2> QED BY <1>1, <1>2, <1>5, <2>1 DEF FingerHolds
<1> QED BY <1>1, <1>3, <1>4, <1>5 DEF Frame

LEMMA AnswerObjects ==
  ASSUME Types, SameObject, FingerHolds, NEW f \in 1 .. Fetches,
         NEW p \in {"logs", "zones", "devices"}, Answer(f, p)
  PROVE  SameObject' /\ FingerHolds'
<1>1. shown' = shown BY DEF Answer
<1>2. finger' = finger \/ finger' = [finger EXCEPT !.calm = FALSE] BY DEF Answer
<1>3. /\ finger'.kind = finger.kind /\ finger'.tile = finger.tile
      /\ finger'.to = finger.to
      /\ finger'.calm => finger.calm /\ finger.tile \notin Renewed(p) \ Dragged
  BY <1>2 DEF Answer, Types, FingerOK, Gesture
<1>4. CASE p = "zones"
  <2>1. tiles' = tiles /\ apart' = apart BY <1>4 DEF Answer
  <2> QED BY <1>1, <1>3, <2>1 DEF SameObject, FingerHolds
<1>5. CASE p # "zones"
  <2> DEFINE rest == [fetch[f] EXCEPT ![p] = "done"]
  <2>1. rest.tiles \in SUBSET Line
    BY FetchSteps DEF Types, FetchOK, Progress
  <2>2. tiles' = Replaced(p, rest.tiles)
        /\ apart' = apart \cup (DOMAIN shown \cap Renewed(p))
    BY <1>5 DEF Answer
  <2> HIDE DEF rest
  <2>3. /\ \A t \in DOMAIN tiles \ Renewed(p) :
             t \in DOMAIN tiles' /\ tiles'[t] = tiles[t]
        /\ \A t \in DOMAIN tiles' \ Renewed(p) : t \in DOMAIN tiles
        /\ \A t \in DOMAIN tiles' \cap Dragged :
             tiles'[t].place = tiles[t].place /\ tiles'[t].drag
    BY <2>1, <2>2, Replacing DEF Types
  <2>4. SameObject' BY <1>1, <2>2, <2>3 DEF SameObject
  <2>5. finger'.kind = "tile" => finger'.tile \in DOMAIN shown'
    BY <1>1, <1>3 DEF FingerHolds
  <2>6. ASSUME finger'.calm, finger'.tile \in DOMAIN tiles'
        PROVE  /\ tiles'[finger'.tile].place = finger'.to
               /\ finger'.tile \in Sensor => tiles'[finger'.tile].drag
    <3> DEFINE t == finger.tile
    <3>1. finger.calm /\ t \in DOMAIN tiles' /\ t \notin Renewed(p) \ Dragged
      BY <1>3, <2>6
    <3>2. CASE t \in Dragged
      BY <1>3, <2>3, <3>1, <3>2, DraggedSensors DEF FingerHolds
    <3>3. CASE t \notin Renewed(p)
      BY <1>3, <2>3, <3>1, <3>3 DEF FingerHolds
    <3> QED BY <3>1, <3>2, <3>3
  <2>7. FingerHolds' BY <1>1, <1>3, <2>5, <2>6 DEF FingerHolds
  <2> QED BY <2>4, <2>7
<1> QED BY <1>4, <1>5

LEMMA TouchedObjects ==
  ASSUME Types, SameObject, NEW t \in DOMAIN shown, NEW object,
         Touch(t, object), UNCHANGED apart
  PROVE  /\ SameObject' /\ shown'[t] = object /\ DOMAIN shown' = DOMAIN shown
         /\ t \notin apart => tiles'[t] = object
<1>1. DOMAIN shown' = DOMAIN shown /\ shown'[t] = object
  BY DEF Touch, Types, TilesOK
<1>2. t \notin apart => t \in DOMAIN tiles BY DEF SameObject
<1> QED BY <1>1, <1>2 DEF SameObject, Touch, Types, TilesOK

LEMMA ObjectStep ==
  Types /\ SameObject /\ FingerHolds /\ [Next]_vars => SameObject' /\ FingerHolds'
<1> SUFFICES ASSUME Types, SameObject, FingerHolds, [Next]_vars
             PROVE  SameObject' /\ FingerHolds'
  OBVIOUS
<1>1. CASE UNCHANGED <<tiles, shown, apart, finger>>
  BY <1>1 DEF SameObject, FingerHolds
<1>2. ASSUME NEW f \in 1 .. Fetches, NEW p \in {"logs", "zones", "devices"},
             Answer(f, p)
      PROVE  SameObject' /\ FingerHolds'
  BY <1>2, AnswerObjects
<1>3. CASE Frame BY <1>3, FrameObjects
<1>4. ASSUME NEW t \in Tile, DragStart(t) PROVE SameObject' /\ FingerHolds'
  <2> DEFINE object == [shown[t] EXCEPT !.drag = TRUE]
  <2>1. t \in DOMAIN shown /\ Touch(t, object) /\ UNCHANGED apart
    BY <1>4 DEF DragStart
  <2>2. shown[t] \in Object BY <2>1 DEF Types, TilesOK
  <2>3. object.place = shown[t].place /\ object.drag BY <2>2 DEF Object
  <2> HIDE DEF object
  <2>4. SameObject' /\ shown'[t] = object /\ DOMAIN shown' = DOMAIN shown
        /\ (t \notin apart => tiles'[t] = object)
    BY <2>1, TouchedObjects
  <2>5. finger'.kind = "tile" /\ finger'.tile = t /\ finger'.to = shown[t].place
        /\ (finger'.calm => t \notin apart)
    BY <1>4 DEF DragStart
  <2> QED BY <2>1, <2>3, <2>4, <2>5 DEF FingerHolds
<1>5. CASE DragMove
  <2> DEFINE t == finger.tile
             object == [shown[t] EXCEPT !.place = @ + 1]
  <2>1. t \in DOMAIN shown BY <1>5 DEF DragMove, FingerHolds
  <2>2. Touch(t, object) /\ UNCHANGED apart BY <1>5 DEF DragMove
  <2>3. shown[t] \in Object BY <2>1 DEF Types, TilesOK
  <2>4. object.place = shown[t].place + 1 /\ object.drag = shown[t].drag
    BY <2>3 DEF Object
  <2>5. finger' = [finger EXCEPT !.to = @ + 1, !.calm = @ /\ t \notin apart]
    BY <1>5 DEF DragMove
  <2>6. finger'.kind = finger.kind /\ finger'.tile = t /\ finger'.to = finger.to + 1
        /\ (finger'.calm => finger.calm /\ t \notin apart)
    BY <2>5 DEF Types, FingerOK, Gesture
  <2>7. finger.calm => shown[t].place = finger.to /\ (t \in DOMAIN tiles /\ t \in Sensor => tiles[t].drag)
    BY DEF FingerHolds
  <2>8. t \notin apart => t \in DOMAIN tiles /\ tiles[t] = shown[t]
    BY <2>1 DEF SameObject
  <2> HIDE DEF object, t
  <2>9. SameObject' /\ shown'[t] = object /\ DOMAIN shown' = DOMAIN shown
        /\ (t \notin apart => tiles'[t] = object)
    BY <2>1, <2>2, TouchedObjects
  <2> QED BY <2>1, <2>4, <2>6, <2>7, <2>8, <2>9 DEF FingerHolds
<1>6. CASE DragEnd
  <2>1. finger.tile \in DOMAIN shown BY <1>6 DEF DragEnd, FingerHolds
  <2>2. SameObject' BY <1>6, <2>1, TouchedObjects DEF DragEnd
  <2>3. FingerHolds' BY <1>6 DEF DragEnd, Rest, FingerHolds
  <2> QED BY <2>2, <2>3
<1>7. CASE DrawStart \/ DrawEnd
  <2>1. finger'.kind # "tile" /\ ~finger'.calm
    <3>1. CASE DrawStart
      <4>1. drawn + 1 \in Nat BY DEF Types, DrawingOK
      <4>2. finger' = [Rest EXCEPT !.kind = "draw", !.to = drawn + 1]
        BY <3>1 DEF DrawStart
      <4> QED BY <4>1, <4>2, Resting
    <3>2. CASE DrawEnd BY <3>2, Resting DEF DrawEnd
    <3> QED BY <1>7, <3>1, <3>2
  <2>2. UNCHANGED <<tiles, shown, apart>> BY <1>7 DEF DrawStart, DrawEnd
  <2> QED BY <2>1, <2>2 DEF SameObject, FingerHolds
<1>8. ASSUME NEW t \in tasks, Unmark(t) PROVE SameObject' /\ FingerHolds'
  <2>1. apart' = apart /\ DOMAIN tiles' = DOMAIN tiles /\ DOMAIN shown' = DOMAIN shown
    BY <1>8 DEF Unmark
  <2>2. SameObject' BY <1>8, <2>1 DEF Unmark, SameObject
  <2>3. finger'.kind = finger.kind /\ finger'.tile = finger.tile
        /\ finger'.to = finger.to
        /\ (finger'.calm => finger.calm /\ finger.tile # t.tile)
    BY <1>8 DEF Unmark, Types, FingerOK, Gesture
  <2>4. /\ \A u \in DOMAIN tiles : u # t.tile => tiles'[u] = tiles[u]
        /\ \A u \in DOMAIN shown : u # t.tile => shown'[u] = shown[u]
    BY <1>8 DEF Unmark, Types, TilesOK
  <2> QED BY <2>1, <2>2, <2>3, <2>4 DEF FingerHolds
<1>9. ASSUME NEW t \in tasks, WriteName(t) PROVE SameObject' /\ FingerHolds'
  <2>1. apart' = apart /\ finger' = finger
        /\ DOMAIN tiles' = DOMAIN tiles /\ DOMAIN shown' = DOMAIN shown
    BY <1>9 DEF WriteName
  <2>2. SameObject' BY <1>9, <2>1 DEF WriteName, SameObject
  <2>3. /\ \A u \in DOMAIN tiles : tiles'[u].place = tiles[u].place
                                   /\ tiles'[u].drag = tiles[u].drag
        /\ \A u \in DOMAIN shown : shown'[u].place = shown[u].place
    BY <1>9 DEF WriteName, Types, TilesOK, Object
  <2> QED BY <2>1, <2>2, <2>3 DEF FingerHolds
<1> QED
  BY <1>1, <1>2, <1>3, <1>4, <1>5, <1>6, <1>7, <1>8, <1>9
  DEF Next, Proceeds, Pending, Tick, Serve, ToggleEdit, ToggleDraw, TapTile,
      TapBin, TapZone, Begin, Find, WritePlace, WriteZone, ChangeZone,
      WriteLimits, Unassign, ReadZones, ShowZones, Dismiss, ConfirmDelete, Confirm,
      Close, vars, page

----------------------------------------------------------------------------
(* What the tasks know of the zones and of the finger's place.             *)
TasksHold == SavesHold /\ ZonesHold /\ NamesHold /\ DeletesHold

(* A task none of this depends on.                                         *)
Idle(t) ==
  /\ t.kind = "save" => t.step = "write" /\ t.value = t.like
  /\ t.kind \in {"create", "delete"} => t.step \notin {"ask", "write"}

(* What a dialog for a name goes on as.                                    *)
Heir(d) == [d EXCEPT !.value = drawing, !.step = "write"]
Named(u) == \E d \in tasks : /\ d \notin tasks' /\ d.kind = "create" /\ d.step = "ask"
                             /\ drawing # 0 /\ u = Heir(d)

LEMMA NamedTasks ==
  ASSUME Types, TasksHold, NEW u, Named(u)
  PROVE  /\ \E d \in tasks : d \notin tasks' /\ Creating(d) /\ d.step = "ask"
                             /\ d.like = u.like /\ u = Heir(d)
         /\ u.kind = "create" /\ u.step = "write" /\ u.value = u.like
         /\ u.like <= drawn /\ \A z \in zones : z.like # u.like
         /\ finger.kind # "draw"
<1>1. PICK d \in tasks : /\ d \notin tasks' /\ d.kind = "create" /\ d.step = "ask"
                         /\ drawing # 0 /\ u = Heir(d)
  BY DEF Named
<1>2. /\ u.kind = "create" /\ u.step = "write" /\ u.value = drawing
      /\ u.like = d.like
  BY <1>1, TaskFields DEF Heir, Types, Task
<1>3. Creating(d) BY <1>1 DEF Creating
<1>4. d.like <= drawn /\ drawing = d.like /\ \A z \in zones : z.like # d.like
  BY <1>1, <1>3 DEF TasksHold, NamesHold
<1>5. finger.kind # "draw" BY <1>1 DEF TasksHold, NamesHold
<1> QED BY <1>1, <1>2, <1>3, <1>4, <1>5

LEMMA IdleStep ==
  ASSUME Types, TasksHold, ZonesHold', drawn' = drawn, drawing' \in {0, drawing},
         made' = made, finger'.kind = "draw" => finger' = finger,
         \A u \in tasks' : u \in tasks \/ Idle(u) \/ Named(u),
         \A y \in zones' : \E z \in zones : y.id = z.id /\ y.like = z.like
  PROVE  TasksHold'
<1> USE DEF TasksHold
<1>1. \A u \in tasks' : Named(u) => u.kind = "create" /\ u.step = "write"
  BY NamedTasks
<1>2. SavesHold' BY <1>1 DEF SavesHold, Idle
<1>3. DeletesHold' BY <1>1 DEF DeletesHold, Idle
<1>4. \A u \in tasks' : Creating(u) => u \in tasks \/ Named(u) BY DEF Idle, Creating
<1>5. NamesHold'
  <2>1. \A t \in tasks' : Creating(t) =>
          /\ t.like <= drawn'
          /\ \A z \in zones' : z.like # t.like
          /\ t.step = "ask" => drawing' \in {0, t.like}
          /\ t.step = "write" => t.value = t.like
    <3> SUFFICES ASSUME NEW t \in tasks', Creating(t)
                 PROVE  /\ t.like <= drawn'
                        /\ \A z \in zones' : z.like # t.like
                        /\ t.step = "ask" => drawing' \in {0, t.like}
                        /\ t.step = "write" => t.value = t.like
      OBVIOUS
    <3>1. CASE t \in tasks BY <3>1 DEF NamesHold
    <3>2. CASE Named(t) BY <3>2, NamedTasks
    <3> QED BY <1>4, <3>1, <3>2
  <2>2. ASSUME NEW s \in tasks', NEW t \in tasks', Creating(s), Creating(t),
               s.like = t.like
        PROVE  s = t
    <3>1. CASE s \in tasks /\ t \in tasks BY <2>2, <3>1 DEF NamesHold
    <3>2. ASSUME NEW x \in tasks', NEW y \in tasks', x \in tasks, Creating(x),
                 Named(y), x.like = y.like
          PROVE  FALSE
      <4>1. PICK d \in tasks : d \notin tasks' /\ Creating(d) /\ d.like = y.like
        BY <3>2, NamedTasks
      <4>2. x = d BY <3>2, <4>1 DEF NamesHold
      <4> QED BY <3>2, <4>1, <4>2
    <3>3. CASE Named(s) /\ Named(t)
      <4>1. PICK d \in tasks : Creating(d) /\ d.like = s.like /\ s = Heir(d)
        BY <3>3, NamedTasks
      <4>2. PICK e \in tasks : Creating(e) /\ e.like = t.like /\ t = Heir(e)
        BY <3>3, NamedTasks
      <4>3. d = e BY <2>2, <4>1, <4>2 DEF NamesHold
      <4> QED BY <4>1, <4>2, <4>3
    <3> QED BY <1>4, <2>2, <3>1, <3>2, <3>3
  <2>3. ASSUME finger'.kind = "draw"
        PROVE  /\ finger'.to <= drawn' /\ drawing' \in {0, finger'.to}
               /\ NewDrawing'
               /\ \A t \in tasks' : t.kind = "create" => t.step # "ask"
    <3>1. finger' = finger /\ finger.kind = "draw" BY <2>3
    <3>2. finger.to <= drawn /\ drawing \in {0, finger.to} /\ NewDrawing
      BY <3>1 DEF NamesHold
    <3>3. \A u \in tasks' : u \in tasks \/ Idle(u) BY <3>1, NamedTasks
    <3>4. NewDrawing' BY <3>1, <3>2, <3>3 DEF NewDrawing, Idle, Creating
    <3>5. \A t \in tasks' : t.kind = "create" => t.step # "ask"
      BY <3>1, <3>3 DEF NamesHold, Idle
    <3> QED BY <3>1, <3>2, <3>4, <3>5
  <2>4. \A s, t \in tasks' : Creating(s) /\ Creating(t) /\ s.like = t.like => s = t
    BY <2>2
  <2> QED BY <2>1, <2>3, <2>4 DEF NamesHold, Creating
<1> QED BY <1>2, <1>3, <1>5

LEMMA SameZones ==
  ASSUME ZonesHold, UNCHANGED <<zones, made, drawn>>
  PROVE  /\ ZonesHold'
         /\ \A y \in zones' : \E z \in zones : y.id = z.id /\ y.like = z.like
  BY DEF ZonesHold

LEMMA Quiet ==
  ASSUME Types, TasksHold, UNCHANGED <<zones, made, drawn>>, drawing' \in {0, drawing},
         finger'.kind = "draw" => finger' = finger,
         \A u \in tasks' : u \in tasks \/ Idle(u) \/ Named(u)
  PROVE  TasksHold'
  BY IdleStep, SameZones DEF TasksHold

(* Where tasks come from, and where they go.                               *)
LEMMA OnStep ==
  ASSUME Types, NEW t \in tasks,
         NEW step \in {"find", "ask", "write", "more", "read", "show"},
         t.kind # "save",
         t.kind \in {"create", "delete"} => step \notin {"ask", "write"}
  PROVE  \A u \in On(t, step) : u \in tasks \/ Idle(u)
  BY TaskFields DEF Types, On, Becomes, Done, Idle, Task

LEMMA PoppedTasks ==
  ASSUME Types, NEW T, \A u \in T : u \in tasks \/ Idle(u),
         NEW D, D \subseteq Top, tasks' = Without(T, D)
  PROVE  \A u \in tasks' : u \in tasks \/ Idle(u) \/ Named(u)
<1>1. \A d \in D : d \in tasks /\ d.step = "ask" BY TopTasks
<1>2. \A d \in D : \A u \in Remains(d) : u.step \in {"read", "write"}
  BY <1>1, TaskFields DEF Remains, Types, Task
<1>3. \A d \in D : d \notin tasks' BY <1>1, <1>2 DEF Without
<1>4. ASSUME NEW d \in D, NEW u \in Remains(d) PROVE Idle(u) \/ Named(u)
  <2>1. d.kind = "create" BY DEF Remains
  <2>2. CASE drawing = 0
    <3>1. u = [d EXCEPT !.step = "read"] BY <2>1, <2>2 DEF Remains
    <3>2. u.kind = "create" /\ u.step = "read"
      BY <1>1, <2>1, <3>1, TaskFields DEF Types, Task
    <3> QED BY <3>2 DEF Idle
  <2>3. CASE drawing # 0
    <3>1. u = Heir(d) BY <2>1, <2>3 DEF Remains, Heir
    <3> QED BY <1>1, <1>3, <2>1, <2>3, <3>1 DEF Named
  <2> QED BY <2>2, <2>3
<1> QED BY <1>4 DEF Without

LEMMA AnswerTasks ==
  ASSUME Types, TasksHold, NEW f \in 1 .. Fetches,
         NEW p \in {"logs", "zones", "devices"}, Answer(f, p)
  PROVE  TasksHold'
<1>1. /\ UNCHANGED <<zones, made, drawn, drawing>>
      /\ finger'.kind = finger.kind /\ finger'.to = finger.to
  BY DEF Answer, database, Types, FingerOK, Gesture
<1> DEFINE new(t) == IF t.tile \in Renewed(p) THEN [t EXCEPT !.own = FALSE] ELSE t
<1>2. tasks' = {new(t) : t \in tasks} BY DEF Answer
<1>3. \A t \in tasks : /\ new(t).kind = t.kind /\ new(t).step = t.step
                       /\ new(t).like = t.like /\ new(t).value = t.value
                       /\ new(t).zone = t.zone
  BY TaskFields DEF Types, Task
<1> HIDE DEF new
<1>4. \A t \in tasks : Creating(new(t)) <=> Creating(t) BY <1>3 DEF Creating
<1> USE DEF TasksHold
<1>5. SavesHold' BY <1>2, <1>3 DEF SavesHold
<1>6. DeletesHold' BY <1>1, <1>2, <1>3 DEF DeletesHold
<1>7. ZonesHold' BY <1>1 DEF ZonesHold
<1>8. \A s, t \in tasks' :
        Creating(s) /\ Creating(t) /\ s.like = t.like => s = t
  BY <1>2, <1>3, <1>4 DEF NamesHold
<1>9. \A t \in tasks' : Creating(t) =>
        /\ t.like <= drawn'
        /\ \A z \in zones' : z.like # t.like
        /\ t.step = "ask" => drawing' \in {0, t.like}
        /\ t.step = "write" => t.value = t.like
  BY <1>1, <1>2, <1>3, <1>4 DEF NamesHold
<1>10. ASSUME finger'.kind = "draw"
       PROVE  /\ finger'.to <= drawn' /\ drawing' \in {0, finger'.to}
              /\ NewDrawing'
              /\ \A t \in tasks' : t.kind = "create" => t.step # "ask"
  <2>1. NewDrawing BY <1>1, <1>10 DEF NamesHold
  <2>2. NewDrawing' BY <1>1, <1>2, <1>3, <1>4, <2>1 DEF NewDrawing
  <2>3. \A t \in tasks' : t.kind = "create" => t.step # "ask"
    BY <1>1, <1>2, <1>3, <1>10 DEF NamesHold
  <2> QED BY <1>1, <1>10, <2>2, <2>3 DEF NamesHold
<1>11. NamesHold' BY <1>8, <1>9, <1>10 DEF NamesHold, Creating
<1> QED BY <1>5, <1>6, <1>7, <1>11

LEMMA DrawStartTasks ==
  ASSUME Types, TasksHold, DrawStart
  PROVE  TasksHold'
<1>1. drawn + 1 \in Nat /\ drawn \in Nat BY DEF Types, DrawingOK
<1>2. /\ UNCHANGED <<zones, made, tasks>>
      /\ drawn' = drawn + 1 /\ drawing' = drawn + 1
      /\ finger'.kind = "draw" /\ finger'.to = drawn + 1
  BY <1>1, Resting DEF DrawStart, database
<1>3. \A t \in tasks : t.step # "ask" BY DEF DrawStart, OnTop, Asking
<1>4. \A z \in zones : z \in ZoneRow BY DEF Types, ZonesOK, ZoneList
<1>5. \A z \in zones : z.like \in Nat BY <1>4 DEF ZoneRow
<1>6. \A t \in tasks : t.like \in Nat BY TaskFields DEF Types
<1> USE DEF TasksHold
<1>7. SavesHold' /\ DeletesHold' BY <1>2 DEF SavesHold, DeletesHold
<1>8. ZonesHold' BY <1>1, <1>2, <1>5 DEF ZonesHold
<1>9. NewDrawing'
  BY <1>1, <1>2, <1>5, <1>6 DEF ZonesHold, NamesHold, NewDrawing, Creating
<1>10. NamesHold'
  BY <1>1, <1>2, <1>3, <1>6, <1>9 DEF NamesHold, Creating
<1> QED BY <1>7, <1>8, <1>10

LEMMA DrawEndTasks ==
  ASSUME Types, TasksHold, DrawEnd
  PROVE  TasksHold'
<1>1. CASE drawing = 0 \/ ~mode.open
  BY <1>1, Quiet, Resting DEF DrawEnd, database
<1>2. CASE drawing # 0 /\ mode.open
  <2>0. PICK n \in Numbers : tasks' = tasks \cup
          {[NewTask("create", "ask") EXCEPT !.like = finger.to, !.num = n]}
    BY <1>2 DEF DrawEnd
  <2> DEFINE ask == NewTask("create", "ask")
             new == [ask EXCEPT !.like = finger.to, !.num = n]
  <2>1. ask \in Task /\ ask.kind = "create" /\ ask.step = "ask" BY NewTasks
  <2>2. finger.to \in Nat BY DEF Types, FingerOK, Gesture
  <2>3. /\ UNCHANGED <<zones, made, drawn, drawing>>
        /\ finger'.kind = "none" /\ tasks' = tasks \cup {new}
        /\ finger.kind = "draw"
    BY <1>2, <2>0, Resting DEF DrawEnd, database
  <2> HIDE DEF ask
  <2>4. new.kind = "create" /\ new.step = "ask" /\ new.like = finger.to
    BY <2>1, <2>2 DEF Task
  <2> HIDE DEF new
  <2> USE DEF TasksHold
  <2>5. /\ finger.to <= drawn /\ drawing = finger.to /\ NewDrawing
        /\ \A t \in tasks : t.kind = "create" => t.step # "ask"
    BY <1>2, <2>3 DEF NamesHold
  <2>6. SavesHold' /\ DeletesHold' BY <2>3, <2>4 DEF SavesHold, DeletesHold
  <2>7. ZonesHold' BY <2>3 DEF ZonesHold
  <2>8. \A t \in tasks' : Creating(t) =>
          /\ t.like <= drawn'
          /\ \A z \in zones' : z.like # t.like
          /\ t.step = "ask" => drawing' \in {0, t.like}
          /\ t.step = "write" => t.value = t.like
    BY <2>3, <2>4, <2>5 DEF NamesHold, NewDrawing
  <2>9. \A s, t \in tasks' :
          Creating(s) /\ Creating(t) /\ s.like = t.like => s = t
    BY <2>3, <2>4, <2>5 DEF NamesHold, NewDrawing
  <2>10. NamesHold' BY <2>3, <2>8, <2>9 DEF NamesHold, Creating
  <2> QED BY <2>6, <2>7, <2>10
<1> QED BY <1>1, <1>2

LEMMA DismissTasks ==
  ASSUME Types, TasksHold, NEW t \in tasks, Dismiss(t)
  PROVE  TasksHold'
<1>1. UNCHANGED <<zones, made, drawn, drawing, finger>>
  BY DEF Dismiss, database, page
<1>2. {t} \subseteq Top /\ tasks' = Without(tasks, {t}) BY DEF Dismiss
<1>3. \A u \in tasks' : u \in tasks \/ Idle(u) \/ Named(u) BY <1>2, PoppedTasks
<1> QED BY <1>1, <1>3, Quiet

LEMMA FindTasks ==
  ASSUME Types, TasksHold, NEW t \in tasks, Find(t)
  PROVE  TasksHold'
<1>0. UNCHANGED <<zones, made, drawn, drawing, finger>>
  BY DEF Find, database, page
<1>1. CASE tasks' = Done(t) BY <1>0, <1>1, Quiet DEF Done
<1>2. ASSUME NEW zone, NEW n, t.kind = "hub",
             tasks' = Becomes(t, [t EXCEPT !.zone = zone, !.step = "ask", !.num = n])
      PROVE  TasksHold'
  <2> DEFINE new == [t EXCEPT !.zone = zone, !.step = "ask", !.num = n]
  <2>1. new.kind = "hub" BY <1>2, TaskFields DEF Types, Task
  <2>2. Idle(new) BY <2>1 DEF Idle
  <2>3. \A u \in tasks' : u \in tasks \/ Idle(u) BY <1>2, <2>2 DEF Becomes, Done
  <2> QED BY <1>0, <2>3, Quiet
<1>3. ASSUME NEW z \in zones, NEW n, z.like = t.like, t.kind = "delete",
             tasks' = Becomes(t, [t EXCEPT !.zone = z.id, !.step = "ask", !.num = n])
      PROVE  TasksHold'
  <2> DEFINE new == [t EXCEPT !.zone = z.id, !.step = "ask", !.num = n]
  <2>1. tasks' = (tasks \ {t}) \cup {new} BY <1>3 DEF Becomes, Done
  <2>2. new.kind = "delete" /\ new.zone = z.id /\ new.like = z.like
    BY <1>3, TaskFields DEF Types, Task
  <2> HIDE DEF new
  <2> USE DEF TasksHold
  <2>3. SavesHold' BY <2>1, <2>2 DEF SavesHold
  <2>4. ZonesHold' BY <1>0 DEF ZonesHold
  <2>5. NamesHold' BY <1>0, <2>1, <2>2 DEF NamesHold, Creating, NewDrawing
  <2>6. DeletesHold' BY <1>0, <2>1, <2>2 DEF DeletesHold, ZonesHold
  <2> QED BY <2>3, <2>4, <2>5, <2>6
<1> QED BY <1>1, <1>2, <1>3 DEF Find

LEMMA ConfirmDeleteTasks ==
  ASSUME Types, TasksHold, NEW t \in tasks, ConfirmDelete(t)
  PROVE  TasksHold'
<1>0. UNCHANGED <<zones, made, drawn, drawing, finger>>
      /\ t.kind = "delete" /\ t.step = "ask"
  BY TopTasks DEF ConfirmDelete, database, page
<1> DEFINE new == [t EXCEPT !.value = 0, !.step = "write"]
<1>1. tasks' = (tasks \ {t}) \cup {new} BY DEF ConfirmDelete, Becomes, Done
<1>2. new.kind = t.kind /\ new.zone = t.zone /\ new.like = t.like
  BY TaskFields DEF Types, Task
<1> HIDE DEF new
<1> USE DEF TasksHold
<1>3. SavesHold' BY <1>0, <1>1, <1>2 DEF SavesHold
<1>4. ZonesHold' BY <1>0 DEF ZonesHold
<1>5. NamesHold' BY <1>0, <1>1, <1>2 DEF NamesHold, Creating, NewDrawing
<1>6. DeletesHold' BY <1>0, <1>1, <1>2 DEF DeletesHold
<1> QED BY <1>3, <1>4, <1>5, <1>6

LEMMA ConfirmTasks ==
  ASSUME Types, TasksHold, NEW t \in tasks, Confirm(t)
  PROVE  TasksHold'
<1>0. UNCHANGED <<zones, made, drawn, drawing, finger>> /\ t.kind \in Dialog
  BY DEF Confirm, database, page
<1>1. PICK v, num, step : tasks' = tasks \cup
          {[t EXCEPT !.value = v, !.num = num, !.step = step]}
  <2>1. ASSUME NEW v, NEW n
        PROVE  [t EXCEPT !.value = v,
                  !.num = IF t.kind = "alarms" THEN @ ELSE n,
                  !.step = IF t.kind = "device" /\ v = t.value THEN "more" ELSE "write"]
               = [t EXCEPT !.value = v,
                    !.num = IF t.kind = "alarms" THEN t.num ELSE n,
                    !.step = IF t.kind = "device" /\ v = t.value THEN "more" ELSE "write"]
    BY TaskFields DEF Types, Task
  <2> QED BY <2>1 DEF Confirm
<1> DEFINE new == [t EXCEPT !.value = v, !.num = num, !.step = step]
<1>2. new.kind = t.kind BY TaskFields DEF Types, Task
<1>3. Idle(new) BY <1>0, <1>2 DEF Idle, Dialog
<1>4. \A u \in tasks' : u \in tasks \/ Idle(u) BY <1>1, <1>3
<1> QED BY <1>0, <1>4, Quiet

LEMMA WriteZoneTasks ==
  ASSUME Types, TasksHold, NEW t \in tasks, WriteZone(t)
  PROVE  TasksHold'
<1>1. /\ UNCHANGED <<drawn, drawing, finger>>
      /\ tasks' = On(t, "read") /\ t.kind = "create" /\ t.step = "write"
  BY DEF WriteZone, page
<1>2. CASE UNCHANGED <<zones, made>> BY <1>1, <1>2, OnStep, Quiet
<1>3. CASE made' = made + 1 /\
           zones' = zones \cup {[id |-> made + 1, like |-> t.value, by |-> t.like,
                                 alarms |-> 0, hub |-> 0]}
  <2> USE DEF TasksHold
  <2>1. /\ t.like <= drawn /\ t.value = t.like
        /\ \A z \in zones : z.like # t.like
        /\ \A s \in tasks : Creating(s) /\ s.like = t.like => s = t
    BY <1>1 DEF NamesHold, Creating
  <2> DEFINE new == [id |-> made + 1, like |-> t.value, by |-> t.like,
                     alarms |-> 0, hub |-> 0]
  <2>2. /\ zones' = zones \cup {new} /\ new.id = made + 1
        /\ new.like = t.like /\ new.by = t.like
    BY <1>3, <2>1
  <2> HIDE DEF new
  <2>3. made \in Nat BY DEF Types, ZonesOK
  <2>4. \A z \in zones : z \in ZoneRow BY DEF Types, ZonesOK, ZoneList
  <2>5. \A z \in zones : z.id \in Nat BY <2>4 DEF ZoneRow
  <2>6. \A u \in tasks' : (u \in tasks /\ u # t) \/ Idle(u)
    BY <1>1, TaskFields DEF On, Becomes, Done, Idle, Types, Task
  <2>7. \A u \in tasks' : Creating(u) => u \in tasks /\ u # t
    BY <2>6 DEF Idle, Creating
  <2>8. SavesHold' BY <2>6 DEF SavesHold, Idle
  <2>9. ZonesHold'
    <3>1. \A z \in zones' : z.id <= made' /\ z.like = z.by /\ z.like <= drawn'
      BY <1>1, <1>3, <2>1, <2>2, <2>3, <2>5 DEF ZonesHold
    <3>2. \A z \in zones : z.id # new.id /\ z.like # new.like
      BY <2>1, <2>2, <2>3, <2>5 DEF ZonesHold
    <3>3. \A y, z \in zones' : y.like = z.like \/ y.id = z.id => y = z
      BY <2>2, <3>2 DEF ZonesHold
    <3> QED BY <3>1, <3>3 DEF ZonesHold
  <2>10. DeletesHold'
    <3>1. \A u \in tasks : u.zone \in Nat BY TaskFields DEF Types
    <3>2. \A u \in tasks' : u.kind = "delete" /\ u.step \in {"ask", "write"} => u \in tasks
      BY <2>6 DEF Idle
    <3> QED BY <1>3, <2>2, <2>3, <3>1, <3>2 DEF DeletesHold
  <2>11. \A s \in tasks' : Creating(s) =>
          /\ s.like <= drawn'
          /\ \A z \in zones' : z.like # s.like
          /\ s.step = "ask" => drawing' \in {0, s.like}
          /\ s.step = "write" => s.value = s.like
    BY <1>1, <2>1, <2>2, <2>7 DEF NamesHold
  <2>12. \A r, s \in tasks' :
          Creating(r) /\ Creating(s) /\ r.like = s.like => r = s
    BY <2>7 DEF NamesHold
  <2>13. ASSUME finger'.kind = "draw"
         PROVE  /\ finger'.to <= drawn' /\ drawing' \in {0, finger'.to}
                /\ NewDrawing'
                /\ \A s \in tasks' : s.kind = "create" => s.step # "ask"
    <3>1. finger' = finger /\ finger.kind = "draw" BY <1>1, <2>13
    <3>2. finger.to <= drawn /\ drawing \in {0, finger.to} /\ NewDrawing
          /\ \A s \in tasks : s.kind = "create" => s.step # "ask"
      BY <3>1 DEF NamesHold
    <3>3. t.like # finger.to BY <1>1, <3>2 DEF NewDrawing, Creating
    <3>4. NewDrawing' BY <2>2, <2>7, <3>1, <3>2, <3>3 DEF NewDrawing
    <3>5. \A s \in tasks' : s.kind = "create" => s.step # "ask"
      BY <2>6, <3>2 DEF Idle
    <3> QED BY <1>1, <3>1, <3>2, <3>4, <3>5
  <2>14. NamesHold' BY <2>11, <2>12, <2>13 DEF NamesHold, Creating
  <2> QED BY <2>8, <2>9, <2>10, <2>14
<1> QED BY <1>2, <1>3 DEF WriteZone

LEMMA ChangeZoneTasks ==
  ASSUME Types, TasksHold, NEW t \in tasks, ChangeZone(t)
  PROVE  TasksHold'
<1>1. /\ UNCHANGED <<made, drawn, drawing, finger>>
      /\ t.kind \in {"delete", "alarms", "hub"}
  BY DEF ChangeZone, page
<1>2. \A u \in tasks' : u \in tasks \/ Idle(u) \/ Named(u)
  <2>1. \A u \in Done(t) : u \in tasks \/ Idle(u) BY DEF Done
  <2>2. \A u \in On(t, "read") : u \in tasks \/ Idle(u) BY <1>1, OnStep
  <2>3. CASE tasks' \in {Done(t), On(t, "read")} BY <2>1, <2>2, <2>3
  <2>4. CASE tasks' \in {Without(Done(t), Top), Without(On(t, "read"), Top)}
    BY <2>1, <2>2, <2>4, PoppedTasks
  <2> QED BY <2>3, <2>4 DEF ChangeZone, Pop
<1>3. CASE zones' = zones BY <1>1, <1>2, <1>3, Quiet
<1>4. ASSUME NEW z \in zones, zones' = (zones \ {z}) \cup Outcome(t, z)
      PROVE  TasksHold'
  <2>1. \A y \in zones : y \in ZoneRow BY DEF Types, ZonesOK, ZoneList
  <2>2. \A u \in Outcome(t, z) : u.id = z.id /\ u.like = z.like /\ u.by = z.by
    BY <1>1, <2>1 DEF Outcome, ZoneRow
  <2>3. \A u, v \in Outcome(t, z) : u = v BY <1>1 DEF Outcome
  <2>4. ZonesHold'
    <3>1. \A y \in zones' : y.id <= made' /\ y.like = y.by /\ y.like <= drawn'
      BY <1>1, <1>4, <2>2 DEF TasksHold, ZonesHold
    <3>2. \A x, y \in zones' : x.like = y.like \/ x.id = y.id => x = y
      BY <1>4, <2>2, <2>3 DEF TasksHold, ZonesHold
    <3> QED BY <3>1, <3>2 DEF ZonesHold
  <2>5. \A y \in zones' : \E x \in zones : y.id = x.id /\ y.like = x.like
    BY <1>4, <2>2
  <2> QED BY <1>1, <1>2, <2>4, <2>5, IdleStep
<1> QED BY <1>3, <1>4 DEF ChangeZone

LEMMA QuietTasks ==
  ASSUME Types, TasksHold, FingerHolds, NEW t \in tasks,
         \/ WritePlace(t) \/ Unmark(t) \/ WriteName(t) \/ WriteLimits(t)
         \/ Unassign(t) \/ ReadZones(t) \/ ShowZones(t)
  PROVE  TasksHold'
<1>1. UNCHANGED <<zones, made, drawn>> /\ drawing' \in {0, drawing}
  <2>1. CASE ShowZones(t) BY <2>1 DEF ShowZones, database
  <2> QED BY <2>1, Zenon DEF WritePlace, Unmark, WriteName, WriteLimits, Unassign, ReadZones,
                      database, page
<1>2. finger'.kind = "draw" => finger' = finger
  <2>1. CASE Unmark(t)
    <3>1. finger.calm => finger.kind = "tile" BY DEF FingerHolds
    <3>2. CASE finger.kind = "draw"
      <4>1. finger.calm = FALSE BY <3>1, <3>2 DEF Types, FingerOK, Gesture
      <4>2. [finger EXCEPT !.calm = FALSE] = finger BY <4>1 DEF Types, FingerOK, Gesture
      <4> QED BY <2>1, <4>2 DEF Unmark
    <3>3. CASE finger.kind # "draw"
      BY <2>1, <3>3 DEF Unmark, Types, FingerOK, Gesture
    <3> QED BY <3>2, <3>3
  <2> QED BY <2>1 DEF WritePlace, WriteName, WriteLimits, Unassign, ReadZones,
                      ShowZones, page
<1>3. \A u \in tasks' : u \in tasks \/ Idle(u) \/ Named(u)
  <2>1. CASE tasks' = Done(t) BY <2>1 DEF Done
  <2>2. CASE WritePlace(t)
    <3>1. tasks' = Done(t) \/ (t.kind = "leave" /\ tasks' = On(t, "show"))
      BY <2>2 DEF WritePlace
    <3> QED BY <2>1, <3>1, OnStep
  <2>3. CASE Unmark(t)
    <3>1. t.kind = "leave" BY <2>3 DEF Unmark
    <3>2. ASSUME NEW s, tasks' = Becomes(t, [t EXCEPT !.step = "write", !.tile = s,
                                                      !.value = tiles[s].place])
          PROVE  \A u \in tasks' : u \in tasks \/ Idle(u)
      BY <3>1, <3>2, TaskFields DEF Becomes, Done, Idle, Types, Task
    <3> QED BY <2>1, <2>3, <3>2 DEF Unmark
  <2>6. \A u \in Done(t) : u \in tasks \/ Idle(u) BY DEF Done
  <2>7. CASE tasks' = Without(Done(t), Top) BY <2>6, <2>7, PoppedTasks
  <2>4. CASE WriteName(t) \/ WriteLimits(t)
    <3>1. /\ t.kind \in {"sensor", "device"}
          /\ tasks' \in {Done(t), On(t, "more"), Without(Done(t), Top)}
      BY <2>4 DEF WriteName, WriteLimits, Pop
    <3> QED BY <2>1, <2>7, <3>1, OnStep
  <2>5. CASE ReadZones(t)
    <3>1. t.kind # "save" BY <2>5 DEF ReadZones, TasksHold, SavesHold
    <3>2. CASE tasks' = On(t, "show") BY <3>1, <3>2, OnStep
    <3>3. CASE tasks' = Becomes(t, [t EXCEPT !.seen = zones, !.step = "show"])
      BY <3>1, <3>3, TaskFields DEF Becomes, Done, Idle, Types, Task
    <3> QED BY <2>5, <3>2, <3>3 DEF ReadZones
  <2> QED BY <2>1, <2>2, <2>3, <2>4, <2>5, <2>7 DEF Unassign, ShowZones, Pop
<1> QED BY <1>1, <1>2, <1>3, Quiet, Zenon

LEMMA QuietGestures ==
  ASSUME Types, TasksHold, FingerHolds,
         \/ \E f \in Free : Tick(f)
         \/ \E f \in 1 .. Fetches, p \in {"logs", "zones", "devices"} : Serve(f, p)
         \/ Frame \/ DragMove \/ DragEnd \/ ToggleEdit \/ ToggleDraw
         \/ \E t \in Tile : DragStart(t) \/ TapTile(t) \/ TapBin(t)
         \/ \E z \in map, kind \in {"delete", "alarms", "hub"} : TapZone(z, kind)
         \/ Close \/ UNCHANGED vars
  PROVE  TasksHold'
<1>1. UNCHANGED <<zones, made, drawn, drawing>>
  BY DEF Tick, Serve, Frame, DragMove, DragEnd, ToggleEdit, ToggleDraw, DragStart,
     TapTile, TapBin, TapZone, Begin, Close, database, page, vars
<1>2. finger'.kind = "draw" => finger' = finger
  <2>1. CASE Frame
    <3>1. CASE finger' = Rest \/ finger' = finger BY <3>1, Resting
    <3>2. ASSUME NEW t, finger.kind = "tile",
                 finger' = [finger EXCEPT !.tile = t, !.calm = FALSE]
          PROVE  finger'.kind = "tile"
      BY <3>2 DEF Types, FingerOK, Gesture
    <3> QED BY <2>1, <3>1, <3>2 DEF Frame
  <2>2. CASE DragMove
    <3>1. finger'.kind = "tile" BY <2>2 DEF DragMove, Types, FingerOK, Gesture
    <3> QED BY <3>1
  <2>3. ASSUME NEW t \in Tile, DragStart(t) PROVE finger'.kind = "tile"
    BY <2>3 DEF DragStart
  <2> QED BY <2>1, <2>2, <2>3, Resting DEF Tick, Serve, DragEnd, ToggleEdit,
             ToggleDraw, TapTile, TapBin, TapZone, Begin, Close, page, vars
<1>3. \A u \in tasks' : u \in tasks \/ Idle(u)
  <2>1. CASE tasks' = tasks BY <2>1
  <2>2. CASE DragEnd
    <3> DEFINE new == NewTask("save", "write")
               place == shown[finger.tile].place
               like == IF finger.calm THEN finger.to ELSE place
    <3>1. new \in Task /\ new.kind = "save" /\ new.step = "write" BY NewTasks
    <3>2. tasks' = tasks \cup
            {[new EXCEPT !.tile = finger.tile, !.value = place, !.like = like]}
      BY <2>2 DEF DragEnd
    <3>3. like = place BY DEF FingerHolds
    <3> HIDE DEF new, place, like
    <3>4. \A t : Idle([new EXCEPT !.tile = t, !.value = place, !.like = place])
      BY <3>1 DEF Idle, Task
    <3> QED BY <3>2, <3>3, <3>4
  <2>3. CASE ToggleEdit
    <3> DEFINE new == NewTask("leave", "write")
    <3>1. new \in Task /\ new.kind = "leave" BY NewTasks
    <3>2. ASSUME NEW t, tasks' = tasks \cup
                   {[new EXCEPT !.tile = t, !.value = tiles[t].place]}
          PROVE  \A u \in tasks' : u \in tasks \/ Idle(u)
      <4> HIDE DEF new
      <4> QED BY <3>1, <3>2 DEF Idle, Task
    <3> QED BY <2>1, <2>3, <3>2 DEF ToggleEdit
  <2>4. ASSUME NEW t \in Tile, TapTile(t)
        PROVE  \A u \in tasks' : u \in tasks \/ Idle(u)
    <3> DEFINE kind == IF t \in Sensor THEN "sensor" ELSE "device"
               new == NewTask(kind, "ask")
    <3>1. kind \in {"sensor", "device"} OBVIOUS
    <3> HIDE DEF kind
    <3>2. new \in Task /\ new.kind = kind BY <3>1, NewTasks
    <3> DEFINE tapped == [new EXCEPT !.tile = t, !.own = t \notin apart,
                                     !.value = shown[t].name]
    <3>3. PICK n \in Numbers : tasks' = tasks \cup {[tapped EXCEPT !.num = n]}
      BY <2>4 DEF TapTile, Begin, kind
    <3> HIDE DEF new
    <3>4. [tapped EXCEPT !.num = n].kind = kind BY <3>2 DEF Task
    <3> QED BY <3>1, <3>3, <3>4 DEF Idle
  <2>5. ASSUME NEW t \in Tile, TapBin(t)
        PROVE  \A u \in tasks' : u \in tasks \/ Idle(u)
    <3> DEFINE new == NewTask("unassign", "write")
    <3>1. new \in Task /\ new.kind = "unassign" BY NewTasks
    <3>2. PICK n \in Numbers : tasks' = tasks \cup {[[new EXCEPT !.tile = t] EXCEPT !.num = n]}
      BY <2>5 DEF TapBin, Begin
    <3> HIDE DEF new
    <3>3. [[new EXCEPT !.tile = t] EXCEPT !.num = n].kind = "unassign" BY <3>1 DEF Task
    <3> QED BY <3>2, <3>3 DEF Idle
  <2>6. ASSUME NEW z \in map, NEW kind \in {"delete", "alarms", "hub"},
               TapZone(z, kind)
        PROVE  \A u \in tasks' : u \in tasks \/ Idle(u)
    <3> DEFINE step == IF kind = "alarms" THEN "ask" ELSE "find"
               new == NewTask(kind, step)
    <3>1. step \in {"ask", "find"} /\ (kind = "delete" => step = "find") OBVIOUS
    <3> DEFINE tapped == [new EXCEPT !.zone = z.id, !.like = z.like, !.value = z.alarms]
    <3>2. PICK n \in Numbers : tasks' = tasks \cup {[tapped EXCEPT !.num = n]}
      BY <2>6 DEF TapZone, Begin
    <3> HIDE DEF step
    <3>3. new \in Task /\ new.kind = kind /\ new.step = step BY <3>1, NewTasks
    <3> HIDE DEF new
    <3>4. [tapped EXCEPT !.num = n].kind = kind /\ [tapped EXCEPT !.num = n].step = step
      BY <3>3 DEF Task
    <3> QED BY <3>1, <3>2, <3>4 DEF Idle
  <2> QED BY <2>1, <2>2, <2>3, <2>4, <2>5, <2>6 DEF Tick, Serve, Frame, DragMove,
             ToggleDraw, DragStart, Close, page, vars
<1> QED BY <1>1, <1>2, <1>3, Quiet

LEMMA TasksStep == Types /\ FingerHolds /\ TasksHold /\ [Next]_vars => TasksHold'
<1> SUFFICES ASSUME Types, FingerHolds, TasksHold, [Next]_vars PROVE TasksHold'
  OBVIOUS
<1>1. ASSUME NEW t \in tasks,
             Pending(t) \/ Dismiss(t) \/ ConfirmDelete(t) \/ Confirm(t)
      PROVE  TasksHold'
  BY <1>1, DismissTasks, FindTasks, ConfirmDeleteTasks, ConfirmTasks, WriteZoneTasks,
     ChangeZoneTasks, QuietTasks DEF Pending
<1>2. ASSUME NEW f \in 1 .. Fetches, NEW p \in {"logs", "zones", "devices"},
             Answer(f, p)
      PROVE  TasksHold'
  BY <1>2, AnswerTasks
<1> QED BY <1>1, <1>2, DrawStartTasks, DrawEndTasks, QuietGestures DEF Next, Proceeds

----------------------------------------------------------------------------
(* The session behind the home page.                                       *)
Flow == Session!Login \cup {"whoami", "token"}
HeardFlow(c) == c.heard /\ c.op \in Flow

(* The session sid, in the store S with the strays T, is the user's u, or  *)
(* is gone, or a stray login has entered it.                               *)
Safe(S, T, sid, u) ==
  sid # None => S[sid] \in {u, None} \/ <<sid, S[sid]>> \in T

CallsHold ==
  /\ \A c \in calls :
       /\ c.step = "checked" => c.op \in Session!Login /\ c.sid # None
       /\ c.step = "done" => c.heard
       /\ c.op \in Session!Login => c.user \in User
       /\ c.op \in Session!Edit => c.house \in Greenhouse
       /\ HeardFlow(c) => \/ app[c.phone].buried
                          \/ app[c.phone].page = "auth" /\ app[c.phone].loading
  /\ \A c, d \in calls :
       HeardFlow(c) /\ HeardFlow(d) /\ c.phone = d.phone =>
         c = d \/ app[c.phone].buried

Carries(p, s) == \/ app[p].cookie = s
                 \/ ~app[p].buried /\ app[p].fetch.sid = s
                 \/ \E c \in calls : c.phone = p /\ c.sid = s
SidsApart ==
  \A s \in Session!Sid, p, q \in Phone :
    Carries(p, s) => s <= minted /\ (Carries(q, s) => p = q)

FlowIsSafe(c, S, T, cookie) ==
  c.heard =>
    /\ c.op \in {"whoami", "token"} => Safe(S, T, cookie, c.user)
    /\ c.op \in Session!Login /\ c.step = "done" /\ c.ok => Safe(S, T, c.sid, c.user)

FlowsAreSafe ==
  \A c \in calls :
    app[c.phone].buried \/ FlowIsSafe(c, session, strays, app[c.phone].cookie)

(* The greenhouse g in H belongs to u, or to a user who strayed into the   *)
(* session of the cookie, if there still is one.                           *)
OwnedBy(H, T, g, u, cookie) ==
  /\ H[g].owner # None
  /\ \/ H[g].owner = u
     \/ \E s \in T : s[2] = H[g].owner /\ cookie \in {s[1], None}

HomeIsSafe(a, S, T, H) ==
  a.page = "home" =>
    /\ Safe(S, T, a.cookie, a.who) /\ Safe(S, T, a.fetch.sid, a.who)
    /\ a.cookie = None \/ a.fetch.sid \in {a.cookie, None}
    /\ \A l \in a.list \cup a.fetch.lines : OwnedBy(H, T, l.id, a.who, a.cookie)

HomesAreSafe ==
  \A p \in Phone : app[p].buried \/ HomeIsSafe(app[p], session, strays, house)

Adding(c) == c.op = "add" /\ c.step = "sent"
HousesHold ==
  /\ \A g \in Greenhouse : house[g].there => house[g].owner # None
  /\ \A c \in calls : Adding(c) => house[c.house].owner = None
  /\ \A c, d \in calls : Adding(c) /\ Adding(d) /\ c.house = d.house => c = d

StoreOK == /\ accounts \subseteq User /\ token \in [User -> Phone \cup {None}]
           /\ session \in [Session!Sid -> User \cup {None}]
           /\ minted \in 0 .. Sessions /\ granted \subseteq Phone
           /\ strays \subseteq Session!Sid \X User
HousesOK == house \in [Greenhouse -> Session!Row]
AppsOK == /\ app \in [Phone -> Session!App]
          /\ \A p \in Phone : app[p].buried \/ app[p].below = <<>>
CallsOK == calls \subseteq Session!Call
LeftOK == left \in Session!Budget

SessionTypes == StoreOK /\ HousesOK /\ AppsOK /\ CallsOK /\ LeftOK

LEMMA SessionTypesAreTypes ==
  SessionTypes => Session!TypeOK
  BY DEF Session!TypeOK, SessionTypes, StoreOK, HousesOK, AppsOK, CallsOK, LeftOK

----------------------------------------------------------------------------
LEMMA CallFields ==
  ASSUME CallsOK, NEW c \in calls
  PROVE  /\ c \in Session!Call /\ c.phone \in Phone /\ c.user \in User \cup {None}
         /\ c.sid \in Session!Sid \cup {None} /\ c.ok \in BOOLEAN
         /\ c.heard \in BOOLEAN /\ c.visit \in Nat /\ c.id \in 1 .. Calls
         /\ c.house \in Greenhouse \cup {None} /\ c.name \in Name \cup {None}
         /\ c.op \in Session!Login \cup Session!Edit \cup {"whoami", "token", "logout"}
  BY DEF CallsOK, Session!Call

(* What the records of the application become.                             *)
LEMMA AppFields ==
  ASSUME NEW a \in Session!App
  PROVE  /\ a.cookie \in Session!Sid \cup {None} /\ a.who \in User \cup {None}
         /\ a.visit \in Nat /\ a.loading \in BOOLEAN /\ a.edit \in BOOLEAN
         /\ a.list \in SUBSET Session!Line /\ a.fetch \in Session!Fetched
         /\ a.fetch.sid \in Session!Sid \cup {None}
         /\ a.fetch.lines \in SUBSET Session!Line
         /\ a.page \in {"auth", "home", "blank"} /\ a.opened \in Nat
         /\ a.below \in Seq(Session!Home) /\ a.buried \in BOOLEAN
  BY DEF Session!App, Session!Fetched

(* An application, with home pages below others only if it says so.        *)
Sound(a) == a \in Session!App /\ (a.buried \/ a.below = <<>>)

(* What the invariants speak of stays.                                     *)
Alike(a, b) ==
  /\ b.buried = a.buried /\ b.page = a.page /\ b.loading = a.loading
  /\ b.cookie = a.cookie /\ b.who = a.who /\ b.list = a.list /\ b.fetch = a.fetch
  /\ b.visit = a.visit

(* The home page is left.                                                  *)
Leaves(a, b) == a.page = "home" /\ b.page # "home" /\ b.fetch.sid = None

LEMMA Fetching ==
  ASSUME NEW sid \in Session!Sid \cup {None}
  PROVE  /\ Session!NoFetch.sid = None /\ Session!NoFetch.lines = {}
         /\ Session!NoFetch \in Session!Fetched
         /\ LET f == [Session!NoFetch EXCEPT !.step = "asked", !.sid = sid]
            IN f.sid = sid /\ f.lines = {} /\ f \in Session!Fetched
  BY DEF Session!NoFetch, Session!Fetched

LEMMA Launching ==
  ASSUME NEW cookie \in Session!Sid \cup {None}, NEW visit \in Nat,
         NEW b, b = Session!Launched(cookie, visit)
  PROVE  /\ b \in Session!App /\ b.page = "auth" /\ b.cookie = cookie
         /\ b.fetch.sid = None /\ b.list = {} /\ b.below = <<>> /\ ~b.buried
<1>1. <<>> \in Seq(Session!Home) OBVIOUS
<1>2. b.fetch = Session!NoFetch BY DEF Session!Launched
<1> QED BY <1>1, <1>2, Fetching DEF Session!Launched, Session!App

LEMMA AskingAgain ==
  ASSUME NEW a, Sound(a), NEW b, b = Session!Asked(a)
  PROVE  /\ Sound(b) /\ b.page = a.page /\ b.loading = a.loading
         /\ b.cookie = a.cookie /\ b.who = a.who /\ b.list = a.list
         /\ b.fetch.sid = a.cookie /\ b.fetch.lines = {} /\ b.buried = a.buried
<1> DEFINE f == [Session!NoFetch EXCEPT !.step = "asked", !.sid = a.cookie]
<1>1. f.sid = a.cookie /\ f.lines = {} /\ f \in Session!Fetched
  BY AppFields, Fetching DEF Sound
<1>2. b = [a EXCEPT !.fetch = f] BY DEF Session!Asked, Session!AskedWith
<1> HIDE DEF f
<1> QED BY <1>1, <1>2 DEF Session!App, Sound

LEMMA Homecoming ==
  ASSUME NEW a, Sound(a), NEW u \in User \cup {None}, NEW b, b = Session!AtHome(a, u)
  PROVE  /\ Sound(b) /\ b.page = "home" /\ b.cookie = a.cookie /\ b.buried = a.buried
         /\ b.who = u /\ b.list = {} /\ b.fetch.sid = a.cookie /\ b.fetch.lines = {}
<1>2. PICK l : l = Session!Launched(a.cookie, a.opened + 1) OBVIOUS
<1> DEFINE h == [l EXCEPT !.page = "home", !.who = u, !.below = a.below,
                          !.buried = a.buried]
<1>0. /\ a.cookie \in Session!Sid \cup {None} /\ a.opened + 1 \in Nat
      /\ a.below \in Seq(Session!Home) /\ a.buried \in BOOLEAN
  BY AppFields DEF Sound
<1>1. l \in Session!App /\ l.cookie = a.cookie /\ l.list = {}
  BY <1>0, <1>2, Launching
<1>3. Sound(h) /\ h.page = "home" /\ h.who = u /\ h.cookie = a.cookie
      /\ h.list = {} /\ h.buried = a.buried
  BY <1>0, <1>1 DEF Session!App, Sound
<1>4. b = Session!Asked(h) BY <1>2 DEF Session!AtHome
<1> HIDE DEF h
<1> QED BY <1>3, <1>4, AskingAgain

LEMMA BelowHomes ==
  ASSUME NEW a \in Session!App
  PROVE  Session!HomeOf(a) \in Session!Home
  BY AppFields DEF Session!HomeOf, Session!Home

LEMMA AskingBelow ==
  ASSUME NEW h \in Session!Home, NEW sid \in Session!Sid \cup {None}
  PROVE  Session!AskedWith(h, sid) \in Session!Home
<1> DEFINE f == [Session!NoFetch EXCEPT !.step = "asked", !.sid = sid]
<1>1. f \in Session!Fetched BY Fetching
<1> HIDE DEF f
<1>2. [h EXCEPT !.fetch = f] \in Session!Home BY <1>1 DEF Session!Home
<1> QED BY <1>2 DEF Session!AskedWith, f

LEMMA ReadingBelow ==
  ASSUME NEW h \in Session!Home
  PROVE  /\ Session!Reading(h) \in Session!Home
         /\ \A lines \in SUBSET Session!Line :
              [h EXCEPT !.list = lines, !.fetch = Session!NoFetch] \in Session!Home
<1> DEFINE lines == Session!Of(Session!Holder(h.fetch.sid))
           f == [h.fetch EXCEPT !.step = "read", !.lines = lines]
<1>1. lines \in SUBSET Session!Line BY DEF Session!Of
<1>2. Session!Reading(h) = [h EXCEPT !.fetch = f]
  BY DEF Session!Reading, Session!Home, Session!Fetched
<1>3. h.fetch \in Session!Fetched BY DEF Session!Home
<1> HIDE DEF lines
<1>4. f \in Session!Fetched BY <1>1, <1>3 DEF Session!Fetched
<1> HIDE DEF f
<1>5. Session!NoFetch \in Session!Fetched
  <2>1. None \in Session!Sid \cup {None} OBVIOUS
  <2> QED BY <2>1, Fetching
<1> QED BY <1>2, <1>4, <1>5 DEF Session!Home

(* A page goes and the one below is shown.                                 *)
LEMMA Popping ==
  ASSUME NEW a, Sound(a), NEW b, b = Session!Popped(a)
  PROVE  /\ Sound(b) /\ b.cookie = a.cookie /\ b.buried = a.buried
         /\ \/ b.buried
            \/ a.over # "none" /\ Alike(a, b)
            \/ a.over = "none" /\ b.page = "blank" /\ b.fetch.sid = None
<1>0. /\ a.cookie \in Session!Sid \cup {None} /\ a.opened \in Nat
      /\ a.below \in Seq(Session!Home) /\ a.buried \in BOOLEAN
  BY AppFields DEF Sound
<1>5. PICK l, cookie, opened :
        /\ cookie = a.cookie /\ opened = a.opened
        /\ l = Session!Launched(cookie, opened)
  OBVIOUS
<1> DEFINE h == a.below[Len(a.below)]
           rest == SubSeq(a.below, 1, Len(a.below) - 1)
<1>1. /\ l \in Session!App /\ l.cookie = a.cookie /\ l.fetch.sid = None
      /\ l.below = <<>>
  <2>1. cookie \in Session!Sid \cup {None} /\ opened \in Nat BY <1>0, <1>5
  <2>2. /\ l \in Session!App /\ l.cookie = cookie /\ l.fetch.sid = None
        /\ l.below = <<>>
    BY <1>5, <2>1, Launching
  <2> QED BY <1>5, <2>2
<1>2. CASE a.over # "none"
  <2>1. b = [a EXCEPT !.over = "none"] BY <1>2 DEF Session!Popped
  <2> QED BY <1>2, <2>1 DEF Session!App, Sound, Alike
<1>3. CASE a.over = "none" /\ a.below = <<>>
  <2>1. b = [l EXCEPT !.page = "blank", !.buried = a.buried]
    BY <1>3, <1>5 DEF Session!Popped
  <2> QED BY <1>0, <1>1, <1>3, <2>1 DEF Session!App, Sound
<1>4. CASE a.over = "none" /\ a.below # <<>>
  <2>1. b = [l EXCEPT !.page = "home", !.who = h.who, !.visit = h.visit,
                      !.edit = h.edit, !.list = h.list, !.fetch = h.fetch,
                      !.buried = a.buried, !.below = rest]
    BY <1>4, <1>5 DEF Session!Popped
  <2>2. h \in Session!Home /\ rest \in Seq(Session!Home) BY <1>0, <1>4
  <2>3. /\ h.who \in User \cup {None} /\ h.visit \in Nat /\ h.edit \in BOOLEAN
        /\ h.list \in SUBSET Session!Line /\ h.fetch \in Session!Fetched
    <3> HIDE DEF h
    <3> QED BY <2>2 DEF Session!Home
  <2>4. a.buried BY <1>4 DEF Sound
  <2> HIDE DEF h, rest
  <2>5. PICK who, visit, edit, list, fch :
          /\ who = h.who /\ visit = h.visit /\ edit = h.edit
          /\ list = h.list /\ fch = h.fetch
    OBVIOUS
  <2>6. b = [l EXCEPT !.page = "home", !.who = who, !.visit = visit,
                      !.edit = edit, !.list = list, !.fetch = fch,
                      !.buried = a.buried, !.below = rest]
    BY <2>1, <2>5
  <2>7. /\ who \in User \cup {None} /\ visit \in Nat /\ edit \in BOOLEAN
        /\ list \in SUBSET Session!Line /\ fch \in Session!Fetched
    BY <2>3, <2>5
  <2>8. b \in Session!App
    <3>1. PICK d : d = [l EXCEPT !.who = who, !.visit = visit, !.edit = edit,
                                 !.list = list, !.fetch = fch]
      OBVIOUS
    <3>2. d \in Session!App BY <1>1, <2>7, <3>1 DEF Session!App
    <3>3. b = [d EXCEPT !.page = "home", !.buried = a.buried, !.below = rest]
      BY <1>1, <2>6, <3>1 DEF Session!App
    <3> QED BY <1>0, <2>2, <3>2, <3>3 DEF Session!App
  <2>9. b.cookie = l.cookie /\ b.buried = a.buried BY <1>1, <2>6 DEF Session!App
  <2> QED BY <1>1, <2>4, <2>8, <2>9 DEF Sound
<1> QED BY <1>2, <1>3, <1>4

(* The first page takes the place of the one on top.                       *)
LEMMA GoingBack ==
  ASSUME NEW a, Sound(a), NEW c, NEW b, b = Session!Back(a, c)
  PROVE  /\ Sound(b) /\ b.cookie = a.cookie /\ (a.buried => b.buried)
         /\ b.buried \/ b = a \/ Leaves(a, b)
<1>1. CASE b = a BY <1>1
<1>2. CASE Session!Mounted(a, c)
  <2> DEFINE under == IF a.page = "home" /\ a.over # "none"
                      THEN Append(a.below, Session!HomeOf(a)) ELSE a.below
             l == Session!Launched(a.cookie, a.opened + 1)
  <2>1. b = [l EXCEPT !.below = under, !.buried = a.buried \/ under # <<>>]
    BY <1>2 DEF Session!Back
  <2>2. /\ a.cookie \in Session!Sid \cup {None} /\ a.opened + 1 \in Nat
        /\ a.below \in Seq(Session!Home) /\ a.buried \in BOOLEAN
    BY AppFields DEF Sound
  <2>3. under \in Seq(Session!Home) BY <2>2, BelowHomes DEF Sound
  <2>4. /\ l \in Session!App /\ l.cookie = a.cookie /\ l.fetch.sid = None
        /\ l.page = "auth"
    BY <2>2, Launching
  <2>5. a.buried \/ a.page = "home"
    BY <1>2 DEF Session!Mounted, Sound
  <2> HIDE DEF l, under
  <2> DEFINE buried == a.buried \/ under # <<>>
  <2>6. buried \in BOOLEAN /\ (a.buried => buried) /\ (~buried => under = <<>>)
    OBVIOUS
  <2>7. b = [l EXCEPT !.below = under, !.buried = buried] BY <2>1
  <2> HIDE DEF buried
  <2> QED BY <2>3, <2>4, <2>5, <2>6, <2>7 DEF Session!App, Sound, Leaves
<1> QED BY <1>1, <1>2 DEF Session!Back

(* A change was made, and the home page it came from asks again.           *)
LEMMA Editing ==
  ASSUME NEW a, Sound(a), NEW c, NEW b, b = Session!Edited(a, c)
  PROVE  /\ Sound(b) /\ b.cookie = a.cookie /\ b.buried = a.buried
         /\ \/ b.buried \/ Leaves(a, b)
            \/ /\ b.page = a.page /\ b.who = a.who /\ b.list = a.list
               /\ b.loading = a.loading
               /\ b.fetch = a.fetch \/ (b.fetch.sid = a.cookie /\ b.fetch.lines = {})
<1>1. CASE b = a BY <1>1
<1>2. CASE Session!Mounted(a, c)
  <2>0. a.buried \/ (a.page = "home" /\ a.visit = c.visit)
    BY <1>2 DEF Session!Mounted, Sound
  <2>1. PICK d : d = IF c.op = "delete" THEN a ELSE Session!Popped(a) OBVIOUS
  <2>2. /\ Sound(d) /\ d.cookie = a.cookie /\ d.buried = a.buried
        /\ d.buried \/ Alike(a, d) \/ (d.page = "blank" /\ d.fetch.sid = None)
    BY <2>1, Popping DEF Alike
  <2>3. CASE d.page = "home" /\ d.visit = c.visit
    <3>0. b = Session!Asked(d) BY <1>2, <2>1, <2>3 DEF Session!Edited
    <3>1. /\ Sound(b) /\ b.page = d.page /\ b.loading = d.loading
          /\ b.cookie = d.cookie /\ b.who = d.who /\ b.list = d.list
          /\ b.fetch.sid = d.cookie /\ b.fetch.lines = {} /\ b.buried = d.buried
      BY <2>2, <3>0, AskingAgain
    <3>2. CASE a.buried BY <2>2, <3>1, <3>2
    <3>3. CASE Alike(a, d) BY <2>2, <3>1, <3>3 DEF Alike
    <3>4. d.page # "blank" BY <2>3
    <3> QED BY <2>2, <3>2, <3>3, <3>4
  <2>4. CASE ~(d.page = "home" /\ d.visit = c.visit)
    <3> DEFINE below == [i \in DOMAIN d.below |->
                 IF d.below[i].visit = c.visit
                 THEN Session!AskedWith(d.below[i], d.cookie) ELSE d.below[i]]
    <3>1. b = [d EXCEPT !.below = below]
      BY <1>2, <2>1, <2>4 DEF Session!Edited
    <3>2. d.below \in Seq(Session!Home) /\ d.cookie \in Session!Sid \cup {None}
      BY <2>2, AppFields DEF Sound
    <3>3. below \in Seq(Session!Home) /\ (d.below = <<>> => below = <<>>)
      <4> DEFINE n == Len(d.below)
      <4>1. /\ n \in Nat /\ DOMAIN d.below = 1 .. n
            /\ \A i \in 1 .. n : d.below[i] \in Session!Home
            /\ d.below = <<>> => n = 0
        BY <3>2
      <4>2. \A i \in 1 .. n :
              Session!AskedWith(d.below[i], d.cookie) \in Session!Home
        BY <3>2, <4>1, AskingBelow
      <4>3. below \in [1 .. n -> Session!Home] BY <4>1, <4>2
      <4> HIDE DEF below, n
      <4> QED BY <4>1, <4>3
    <3> HIDE DEF below
    <3>4. /\ Sound(b) /\ b.cookie = d.cookie /\ b.buried = d.buried
          /\ b.page = d.page /\ b.fetch = d.fetch
      BY <2>2, <3>1, <3>3 DEF Sound, Session!App
    <3> QED BY <2>0, <2>2, <2>4, <3>4 DEF Leaves, Alike
  <2> QED BY <2>3, <2>4
<1> QED BY <1>1, <1>2 DEF Session!Edited

LEMMA Failing ==
  ASSUME NEW a, Sound(a), NEW c \in Session!Call, NEW b, b = Session!AfterFailure(a, c)
  PROVE  /\ Sound(b) /\ b.cookie = a.cookie /\ (a.buried => b.buried)
         /\ \/ b.buried \/ Leaves(a, b)
            \/ /\ b.page = a.page /\ b.who = a.who /\ b.list = a.list
               /\ b.fetch = a.fetch
               /\ c.op \notin Flow => b = a
<1>1. CASE b = a BY <1>1
<1>2. CASE c.op = "logout" /\ b = Session!Back(a, c) BY <1>2, GoingBack
<1>3. CASE c.op \in Flow /\ b = [a EXCEPT !.flow = "refused"]
  BY <1>3 DEF Session!App, Sound
<1>4. CASE c.op \in Flow /\ b = [a EXCEPT !.loading = FALSE, !.flow = "none"]
  BY <1>4 DEF Session!App, Sound
<1>5. c.op \in Session!Edit \cup {"logout"} \cup Flow
  BY DEF Session!Call, Flow
<1> QED BY <1>1, <1>2, <1>3, <1>4, <1>5 DEF Session!AfterFailure

LEMMA Succeeding ==
  ASSUME NEW a, Sound(a), NEW c \in Session!Call, NEW b, b = Session!AfterSuccess(a, c)
  PROVE  /\ Sound(b) /\ (a.buried => b.buried)
         /\ c.op \in Session!Login => b.cookie = c.sid /\ b.page = a.page
              /\ b.loading = a.loading /\ b.who = a.who /\ b.list = a.list
              /\ b.fetch = a.fetch
         /\ c.op \in {"whoami", "token"} => b.cookie = a.cookie /\
              \/ /\ b.page = a.page /\ b.who = a.who /\ b.list = a.list
                 /\ b.fetch = a.fetch /\ (Session!Following(c) # {} => b = a)
              \/ /\ b.page = "home" /\ b.who = c.user /\ b.list = {}
                 /\ b.fetch.sid = a.cookie /\ b.fetch.lines = {}
                 /\ Session!Following(c) = {}
         /\ c.op \notin Flow => b.cookie \in {a.cookie, None} /\
              \/ b.buried \/ Leaves(a, b)
              \/ /\ b.page = a.page /\ b.who = a.who /\ b.list = a.list
                 /\ b.loading = a.loading
                 /\ b.fetch = a.fetch \/ (b.fetch.sid = a.cookie /\ b.fetch.lines = {})
<1>1. CASE c.op \in Session!Edit
  <2>1. c.op \notin Flow BY <1>1 DEF Flow, Session!Edit, Session!Login
  <2>2. b = Session!Edited(a, c)
    BY <1>1 DEF Session!AfterSuccess, Session!Edit, Session!Login
  <2> QED BY <2>1, <2>2, Editing DEF Flow
<1>2. CASE c.op = "logout"
  <2> DEFINE d == [a EXCEPT !.cookie = None]
  <2>1. /\ Sound(d) /\ d.page = a.page /\ d.who = a.who /\ d.list = a.list
        /\ d.loading = a.loading /\ d.fetch = a.fetch /\ d.cookie = None
        /\ d.buried = a.buried
    BY DEF Session!App, Sound
  <2>2. b = Session!Back(d, c)
    BY <1>2 DEF Session!AfterSuccess, Session!Edit, Session!Login
  <2> HIDE DEF d
  <2>3. c.op \notin Flow BY <1>2 DEF Flow, Session!Login
  <2> QED BY <2>1, <2>2, <2>3, GoingBack DEF Flow, Leaves
<1>3. CASE c.op \in Session!Login
  <2>1. b = [a EXCEPT !.cookie = c.sid] /\ c.op \notin {"whoami", "token"}
    BY <1>3 DEF Session!AfterSuccess, Session!Edit, Session!Login
  <2>2. c.sid \in Session!Sid \cup {None} BY Zenon DEF Session!Call
  <2> QED BY <1>3, <2>1, <2>2 DEF Session!App, Flow, Sound
<1>4. CASE c.op \in {"whoami", "token"}
  <2>1. c.op \in Flow /\ c.op \notin Session!Login
    BY <1>4 DEF Flow, Session!Login
  <2>2. CASE /\ Session!Following(c) = {}
             /\ b = [a EXCEPT !.loading = FALSE, !.flow = "none"]
    BY <2>1, <2>2 DEF Session!App, Sound
  <2>3. CASE b = a BY <2>1, <2>3
  <2>4. CASE Session!Following(c) = {} /\ b = Session!AtHome(a, c.user)
    <3>1. c.user \in User \cup {None} BY DEF Session!Call
    <3> QED BY <2>1, <2>4, <3>1, Homecoming
  <2> QED BY <1>4, <2>2, <2>3, <2>4, Zenon
      DEF Session!AfterSuccess, Session!Edit, Session!Login
<1>5. c.op \in Session!Edit \cup {"logout"} \cup Session!Login \cup {"whoami", "token"}
  BY DEF Session!Call
<1> QED BY <1>1, <1>2, <1>3, <1>4, <1>5

(* New calls, and calls that are answered.                                 *)
LEMMA NewIds == Session!Unused # {} => Session!NewId \in 1 .. Calls
  BY DEF Session!NewId, Session!Unused

Sends(c, a, p, op, u, g) ==
  /\ c \in Session!Call /\ c.phone = p /\ c.op = op /\ c.user = u
  /\ c.sid = a.cookie /\ c.step = "sent" /\ c.heard /\ c.house = g

LEMMA Sending ==
  ASSUME NEW n \in 1 .. Calls, NEW a \in Session!App, NEW p \in Phone,
         NEW op \in Session!Login \cup Session!Edit \cup {"whoami", "token", "logout"},
         NEW u \in User \cup {None}, NEW g \in Greenhouse \cup {None},
         NEW name \in Name \cup {None}
  PROVE  Sends(Session!NewCall(n, a, p, op, u, g, name), a, p, op, u, g)
  BY AppFields DEF Session!NewCall, Session!Call, Sends

LEMMA SendingNothing ==
  ASSUME NEW n \in 1 .. Calls, NEW a \in Session!App, NEW p \in Phone,
         NEW op \in Session!Login \cup {"whoami", "token", "logout"},
         NEW u \in User \cup {None}
  PROVE  Sends(Session!NewCall(n, a, p, op, u, None, None), a, p, op, u, None)
<1>1. /\ op \in Session!Login \cup Session!Edit \cup {"whoami", "token", "logout"}
      /\ None \in Greenhouse \cup {None} /\ None \in Name \cup {None}
  OBVIOUS
<1> QED BY <1>1, Sending

(* What an answered call leaves behind, if anybody still listens.          *)
LEMMA Answering ==
  ASSUME CallsOK, NEW c \in calls, NEW ok \in BOOLEAN
  PROVE  \E new \in Session!Call :
           /\ new.phone = c.phone /\ new.op = c.op /\ new.user = c.user
           /\ new.sid = c.sid /\ new.heard = c.heard /\ new.house = c.house
           /\ new.step = "done" /\ new.ok = ok
           /\ Session!Answered(c, ok) =
                (calls \ {c}) \cup (IF c.heard THEN {new} ELSE {})
<1> DEFINE new == [c EXCEPT !.step = "done", !.ok = ok]
<1>1. /\ new \in Session!Call /\ new.phone = c.phone /\ new.op = c.op
      /\ new.user = c.user /\ new.sid = c.sid /\ new.heard = c.heard
      /\ new.house = c.house /\ new.step = "done" /\ new.ok = ok
  BY CallFields DEF Session!Call
<1>2. Session!Answered(c, ok) =
        (calls \ {c}) \cup (IF c.heard THEN {new} ELSE {})
  BY DEF Session!Answered
<1> HIDE DEF new
<1> QED BY <1>1, <1>2

----------------------------------------------------------------------------
(* The steps, as what they do to the calls and to the applications.        *)
LEMMA Budgeting ==
  ASSUME LeftOK, NEW kind \in {"logins", "opens", "edits", "faults", "restarts"},
         Session!Spend(kind)
  PROVE  LeftOK'
  BY DEF LeftOK, Session!Spend, Session!Budget

Served(c, X) ==
  /\ calls' = (calls \ {c}) \cup X
  /\ \A d, e \in X : d = e
  /\ \A d \in X :
       /\ d \in Session!Call /\ d.phone = c.phone /\ d.op = c.op
       /\ d.user = c.user /\ d.heard = c.heard /\ d.house = c.house
       /\ d.step \in {"checked", "done"}
       /\ d.step = "checked" => /\ c.op \in Session!Login /\ d.sid \in Session!Sid
                                /\ \/ d.sid = c.sid
                                   \/ d.sid = minted + 1 /\ minted' = minted + 1
       /\ d.step = "done" =>
            /\ c.heard /\ d.sid = c.sid
            /\ c.op \in Session!Login /\ d.ok => Session!Enter(c)

LEMMA Serving ==
  ASSUME SessionTypes, CallsHold, NEW c \in calls, Session!Backend(c)
  PROVE  \E X : Served(c, X)
<1> USE DEF SessionTypes
<1>1. ASSUME NEW ok \in BOOLEAN, calls' = Session!Answered(c, ok),
             c.op \in Session!Login /\ ok => Session!Enter(c)
      PROVE  \E X : Served(c, X)
  <2>1. PICK new \in Session!Call :
           /\ new.phone = c.phone /\ new.op = c.op /\ new.user = c.user
           /\ new.sid = c.sid /\ new.heard = c.heard /\ new.house = c.house
           /\ new.step = "done" /\ new.ok = ok
           /\ Session!Answered(c, ok) =
                (calls \ {c}) \cup (IF c.heard THEN {new} ELSE {})
    BY Answering
  <2> WITNESS IF c.heard THEN {new} ELSE {}
  <2> QED BY <1>1, <2>1 DEF Served
<1>2. CASE Session!Check(c)
  <2>1. PICK s \in Session!Sid :
          /\ IF Session!Holder(c.sid) # None THEN s = c.sid /\ minted' = minted
                                             ELSE s = minted + 1 /\ minted' = s
          /\ calls' = (calls \ {c}) \cup {[c EXCEPT !.step = "checked", !.sid = s]}
    BY <1>2 DEF Session!Check
  <2> DEFINE new == [c EXCEPT !.step = "checked", !.sid = s]
  <2>2. /\ new \in Session!Call /\ new.phone = c.phone /\ new.op = c.op
        /\ new.user = c.user /\ new.heard = c.heard /\ new.house = c.house
        /\ new.step = "checked" /\ new.sid = s
    BY CallFields DEF Session!Call
  <2>3. c.op \in Session!Login BY <1>2 DEF Session!Check
  <2> HIDE DEF new
  <2> WITNESS {new}
  <2> QED BY <2>1, <2>2, <2>3 DEF Served, new
<1>3. CASE Session!Enter(c)
  BY <1>1, <1>3 DEF Session!Enter
<1>4. CASE Session!Leave(c) \/ Session!Serve(c) \/ Session!Alter(c)
  <2>1. c.op \notin Session!Login /\ calls' = Session!Answered(c, TRUE)
    BY <1>4 DEF Session!Leave, Session!Serve, Session!Alter, Session!Login,
       Session!Edit
  <2> QED BY <1>1, <2>1
<1>5. CASE Session!Refuse(c)
  <2>1. calls' = Session!Answered(c, FALSE) BY <1>5 DEF Session!Refuse
  <2> QED BY <1>1, <2>1
<1> QED BY <1>2, <1>3, <1>4, <1>5 DEF Session!Backend

LEMMA BackendTypes ==
  ASSUME SessionTypes, CallsHold, NEW c \in calls, Session!Backend(c)
  PROVE  SessionTypes'
<1> USE DEF SessionTypes
<1>1. PICK X : Served(c, X) BY Serving
<1>2. CallsOK' BY <1>1 DEF Served, CallsOK
<1>3. AppsOK' BY DEF AppsOK, Session!Backend, Session!Check, Session!Enter,
        Session!Leave, Session!Serve, Session!Alter, Session!Refuse
<1>4. LeftOK' BY Budgeting DEF LeftOK, Session!Backend, Session!Check, Session!Enter,
        Session!Leave, Session!Serve, Session!Alter, Session!Refuse
<1>5. HousesOK'
  <2>1. CASE house' = house BY <2>1 DEF HousesOK
  <2>2. CASE Session!Alter(c)
    <3>1. Session!Holder(c.sid) \in User
      BY <2>2, CallFields DEF Session!Alter, Session!Holder, StoreOK
    <3>2. c.name \in Name \cup {None} BY CallFields
    <3>3. [owner |-> Session!Holder(c.sid), name |-> c.name, there |-> TRUE]
            \in Session!Row
      BY <3>1, <3>2 DEF Session!Row
    <3>4. \A r \in Session!Row : /\ [r EXCEPT !.name = c.name] \in Session!Row
                                 /\ [r EXCEPT !.there = FALSE] \in Session!Row
      BY <3>2 DEF Session!Row
    <3> QED BY <2>2, <3>3, <3>4 DEF Session!Alter, Session!Edit, HousesOK
  <2> QED BY <2>1, <2>2 DEF Session!Backend, Session!Check, Session!Enter,
        Session!Leave, Session!Serve, Session!Refuse
<1>6. StoreOK'
  <2>1. CASE Session!Check(c)
    <3>1. minted' \in 0 .. Sessions
      BY <2>1 DEF Session!Check, Session!Sid, StoreOK
    <3> QED BY <2>1, <3>1 DEF Session!Check, StoreOK
  <2>2. CASE Session!Enter(c)
    <3>1. c.sid \in Session!Sid /\ c.user \in User
      BY <2>2, CallFields DEF Session!Enter, CallsHold
    <3> QED BY <2>2, <3>1 DEF Session!Enter, StoreOK
  <2>3. CASE Session!Leave(c) BY <2>3 DEF Session!Leave, StoreOK
  <2>4. CASE Session!Serve(c)
    <3>1. c.phone \in Phone BY CallFields
    <3> QED BY <2>4, <3>1 DEF Session!Serve, StoreOK
  <2>5. CASE Session!Alter(c) \/ Session!Refuse(c)
    BY <2>5 DEF Session!Alter, Session!Refuse, StoreOK
  <2> QED BY <2>1, <2>2, <2>3, <2>4, <2>5 DEF Session!Backend
<1> QED BY <1>2, <1>3, <1>4, <1>5, <1>6

(* A page changes by itself: edit mode, timer, list, cookie, what lies     *)
(* over it.                                                                *)
Local(p, b) ==
  LET a == app[p]
  IN /\ Sound(b) /\ app' = [app EXCEPT ![p] = b] /\ calls' = calls
     /\ b.cookie \in {a.cookie, None} /\ b.buried = a.buried
     /\ \/ b.buried
        \/ /\ b.page = a.page /\ b.loading = a.loading /\ b.who = a.who
           /\ b.fetch.sid \in {a.fetch.sid, a.cookie, None}
           /\ b.list \subseteq a.list \cup a.fetch.lines
           /\ \/ b.fetch.lines \subseteq a.fetch.lines
              \/ b.fetch.lines = Session!Of(Session!Holder(a.fetch.sid))

OnItsOwn(p) ==
  \/ Session!ToggleEdit(p) \/ Session!Tick(p) \/ Session!Refresh(p)
  \/ Session!Read(p) \/ Session!Show(p) \/ Session!Expire(p) \/ Session!GoBack(p)
  \/ \E what \in {"dialog", "other"} : Session!Open(p, what)
  \/ \E i \in DOMAIN app[p].below : Session!Behind(p, i)

LEMMA SoundApps == AppsOK => \A p \in Phone : app[p] \in Session!App /\ Sound(app[p])
  BY DEF AppsOK, Sound

LEMMA AppReplaced ==
  ASSUME AppsOK, NEW p \in Phone, NEW b, Sound(b), app' = [app EXCEPT ![p] = b]
  PROVE  AppsOK' /\ app'[p] = b /\ \A q \in Phone \ {p} : app'[q] = app[q]
  BY DEF AppsOK, Sound

LEMMA BehindTurns ==
  ASSUME SessionTypes, NEW p \in Phone, NEW i \in DOMAIN app[p].below,
         Session!Behind(p, i)
  PROVE  \E b : Local(p, b)
<1> USE DEF SessionTypes
<1> DEFINE a == app[p]
           h == a.below[i]
<1>0. /\ a \in Session!App /\ Sound(a) /\ calls' = calls
      /\ a.below \in Seq(Session!Home)
  BY SoundApps, AppFields DEF Session!Behind
<1>1. a.buried BY <1>0 DEF Sound
<1>2. h \in Session!Home /\ a.cookie \in Session!Sid \cup {None}
  BY <1>0, AppFields
<1>3. PICK x \in Session!Home : app' = [app EXCEPT ![p].below[i] = x]
  <2>1. /\ Session!AskedWith(h, a.cookie) \in Session!Home
        /\ Session!Reading(h) \in Session!Home
        /\ [h EXCEPT !.list = h.fetch.lines, !.fetch = Session!NoFetch] \in Session!Home
        /\ [h EXCEPT !.list = {}, !.fetch = Session!NoFetch] \in Session!Home
    <3>1. h.fetch.lines \in SUBSET Session!Line /\ {} \in SUBSET Session!Line
      BY <1>2 DEF Session!Home, Session!Fetched
    <3> HIDE DEF a, h
    <3> QED BY <1>2, <3>1, AskingBelow, ReadingBelow
  <2> QED BY <2>1 DEF Session!Behind
<1>4. PICK below : below = [a.below EXCEPT ![i] = x] OBVIOUS
<1>5. below \in Seq(Session!Home) BY <1>0, <1>4
<1>6. PICK b : b = [a EXCEPT !.below = below] OBVIOUS
<1>7. app' = [app EXCEPT ![p] = b]
  BY <1>0, <1>3, <1>4, <1>6 DEF AppsOK, Session!App
<1>8. Sound(b) /\ b.buried = a.buried /\ b.cookie = a.cookie
  BY <1>0, <1>1, <1>5, <1>6 DEF Sound, Session!App
<1> QED BY <1>0, <1>1, <1>7, <1>8 DEF Local

LEMMA Turning ==
  ASSUME SessionTypes, NEW p \in Phone, OnItsOwn(p)
  PROVE  /\ \E b : Local(p, b)
         /\ UNCHANGED <<accounts, token, session, minted, house, granted, strays>>
<1> USE DEF SessionTypes
<1> DEFINE a == app[p]
<1>0. a \in Session!App /\ Sound(a) BY SoundApps
<1>1. UNCHANGED <<accounts, token, session, minted, house, granted, strays>>
      /\ calls' = calls
  BY DEF OnItsOwn, Session!ToggleEdit, Session!Tick, Session!Refresh, Session!Read,
     Session!Show, Session!Expire, Session!GoBack, Session!Open, Session!Behind
<1>2. ASSUME NEW b, app' = [app EXCEPT ![p] = b], Sound(b), Alike(a, b)
      PROVE  Local(p, b)
  BY <1>1, <1>2 DEF Alike, Local
<1>3. CASE Session!ToggleEdit(p) \/ \E what \in {"dialog", "other"} : Session!Open(p, what)
  <2>1. PICK b : /\ \/ b = [a EXCEPT !.edit = ~@]
                    \/ \E what \in {"dialog", "other"} : b = [a EXCEPT !.over = what]
                 /\ app' = [app EXCEPT ![p] = b]
    BY <1>3 DEF Session!ToggleEdit, Session!Open, AppsOK, Session!App
  <2>2. Sound(b) /\ Alike(a, b)
    BY <1>0, <2>1 DEF Session!App, Sound, Alike
  <2> QED BY <1>1, <1>2, <2>1, <2>2
<1>4. CASE Session!Tick(p) \/ Session!Refresh(p)
  <2>1. app' = [app EXCEPT ![p] = Session!Asked(a)]
    BY <1>4 DEF Session!Tick, Session!Refresh
  <2>2. Local(p, Session!Asked(a)) BY <1>0, <1>1, <2>1, AskingAgain DEF Local
  <2> QED BY <1>1, <2>2
<1>5. CASE Session!Read(p)
  <2> DEFINE lines == Session!Of(Session!Holder(a.fetch.sid))
             f == [a.fetch EXCEPT !.step = "read", !.lines = lines]
             b == [a EXCEPT !.fetch = f]
  <2>1. app' = [app EXCEPT ![p] = b]
    BY <1>0, <1>5 DEF Session!Read, Session!Reading, AppsOK, Session!App, Session!Fetched
  <2>2. lines \in SUBSET Session!Line BY DEF Session!Of
  <2> HIDE DEF lines
  <2>3. f.sid = a.fetch.sid /\ f.lines = lines /\ f \in Session!Fetched
    <3>1. a.fetch \in Session!Fetched BY <1>0, AppFields
    <3> HIDE DEF a
    <3> QED BY <2>2, <3>1 DEF Session!Fetched
  <2> HIDE DEF f
  <2>4. /\ Sound(b) /\ b.page = a.page /\ b.loading = a.loading
        /\ b.who = a.who /\ b.cookie = a.cookie /\ b.list = a.list /\ b.fetch = f
        /\ b.buried = a.buried
    BY <1>0, <2>3 DEF Session!App, Sound
  <2> QED BY <1>1, <2>1, <2>3, <2>4 DEF Local, lines
<1>6. CASE Session!Show(p)
  <2>1. ASSUME NEW lines \in SUBSET Session!Line, lines \subseteq a.fetch.lines,
               app' = [app EXCEPT ![p].list = lines, ![p].fetch = Session!NoFetch]
        PROVE  \E b : Local(p, b)
    <3> DEFINE b == [a EXCEPT !.list = lines, !.fetch = Session!NoFetch]
    <3>1. app' = [app EXCEPT ![p] = b] BY <1>0, <2>1 DEF AppsOK
    <3>2. None \in Session!Sid \cup {None} OBVIOUS
    <3>3. /\ Sound(b) /\ b.page = a.page /\ b.loading = a.loading
          /\ b.who = a.who /\ b.cookie = a.cookie /\ b.list = lines
          /\ b.fetch = Session!NoFetch /\ b.buried = a.buried
      BY <1>0, <3>2, Fetching DEF Session!App, Sound
    <3>4. b.fetch.sid = None /\ b.fetch.lines = {} BY <3>2, <3>3, Fetching
    <3> QED BY <1>1, <2>1, <3>1, <3>3, <3>4 DEF Local
  <2>2. a.fetch.lines \in SUBSET Session!Line BY <1>0, AppFields
  <2>3. \/ app' = [app EXCEPT ![p].list = a.fetch.lines, ![p].fetch = Session!NoFetch]
        \/ app' = [app EXCEPT ![p].list = {}, ![p].fetch = Session!NoFetch]
    BY <1>6 DEF Session!Show
  <2> HIDE DEF a
  <2> QED BY <1>1, <2>1, <2>2, <2>3
<1>7. CASE Session!Expire(p)
  <2> DEFINE b == [a EXCEPT !.cookie = None]
  <2>1. app' = [app EXCEPT ![p] = b] BY <1>7 DEF Session!Expire
  <2>2. /\ Sound(b) /\ b.page = a.page /\ b.loading = a.loading
        /\ b.who = a.who /\ b.cookie = None /\ b.fetch = a.fetch
        /\ b.list = a.list /\ b.buried = a.buried
    BY <1>0 DEF Session!App, Sound
  <2> QED BY <1>1, <2>1, <2>2 DEF Local
<1>8. CASE Session!GoBack(p)
  <2>1. PICK d : d = Session!Popped(a) OBVIOUS
  <2>2. /\ Sound(d) /\ d.cookie = a.cookie /\ d.buried = a.buried
        /\ d.buried \/ Alike(a, d)
    <3>1. a.over # "none" \/ a.below # <<>> BY <1>8 DEF Session!GoBack
    <3> HIDE DEF a
    <3> QED BY <1>0, <2>1, <3>1, Popping DEF Sound
  <2>3. app' = [app EXCEPT ![p] = d] \/ app' = [app EXCEPT ![p] = Session!Asked(d)]
    BY <1>8, <2>1 DEF Session!GoBack
  <2>4. CASE app' = [app EXCEPT ![p] = d]
    <3>1. Local(p, d) BY <1>1, <2>2, <2>4 DEF Local, Alike
    <3> QED BY <1>1, <3>1
  <2>5. CASE app' = [app EXCEPT ![p] = Session!Asked(d)]
    <3>1. PICK b : b = Session!Asked(d) OBVIOUS
    <3>2. /\ Sound(b) /\ b.page = d.page /\ b.loading = d.loading
          /\ b.cookie = d.cookie /\ b.who = d.who /\ b.list = d.list
          /\ b.fetch.sid = d.cookie /\ b.fetch.lines = {} /\ b.buried = d.buried
      BY <2>2, <3>1, AskingAgain
    <3>3. Local(p, b) BY <1>1, <2>2, <2>5, <3>1, <3>2 DEF Local, Alike
    <3> QED BY <1>1, <3>3
  <2> QED BY <2>3, <2>4, <2>5
<1>9. CASE \E i \in DOMAIN app[p].below : Session!Behind(p, i)
  BY <1>1, <1>9, BehindTurns
<1> QED BY <1>1, <1>3, <1>4, <1>5, <1>6, <1>7, <1>8, <1>9 DEF OnItsOwn

(* A call is sent.                                                         *)
Sent(p, n) == /\ calls' = calls \cup {n} /\ n \in Session!Call
              /\ n.phone = p /\ n.sid = app[p].cookie /\ n.step = "sent" /\ n.heard
              /\ n.op \in Session!Login => n.user \in User
              /\ n.op \in Session!Edit => n.house \in Greenhouse

Requests(p) ==
  \/ Session!Logout(p)
  \/ \E g \in Greenhouse, op \in Session!Edit, name \in Name :
       Session!Change(p, op, g, name)

LEMMA Requesting ==
  ASSUME SessionTypes, NEW p \in Phone, Requests(p)
  PROVE  /\ UNCHANGED <<accounts, token, session, minted, house, granted, strays>>
         /\ \E b : app' = [app EXCEPT ![p] = b] /\ Sound(b) /\ Alike(app[p], b)
         /\ \E n : /\ Sent(p, n) /\ n.op \notin Flow
                   /\ n.op = "add" => /\ house[n.house].owner = None
                                      /\ \A c \in calls : c.house # n.house
<1> USE DEF SessionTypes
<1> DEFINE a == app[p]
<1>0. a \in Session!App /\ Sound(a) BY SoundApps
<1>1. a.who \in User \cup {None} BY <1>0, AppFields
<1>2. CASE Session!Logout(p)
  <2> DEFINE n == Session!NewCall(Session!NewId, a, p, "logout", a.who, None, None)
  <2>1. Session!NewId \in 1 .. Calls BY <1>2, NewIds DEF Session!Logout
  <2>2. /\ n \in Session!Call /\ n.phone = p /\ n.op = "logout"
        /\ n.sid = a.cookie /\ n.step = "sent" /\ n.heard
    <3>1. "logout" \in Session!Login \cup {"whoami", "token", "logout"} OBVIOUS
    <3>2. Sends(n, a, p, "logout", a.who, None)
      BY <1>0, <1>1, <2>1, <3>1, SendingNothing
    <3> HIDE DEF n, a
    <3> QED BY <3>2 DEF Sends
  <2>3. calls' = calls \cup {n} BY <1>2 DEF Session!Logout
  <2> HIDE DEF n
  <2>4. "logout" \notin Flow /\ "logout" \notin Session!Edit /\ "logout" \notin Session!Login
    BY DEF Flow, Session!Login, Session!Edit
  <2>5. app' = [app EXCEPT ![p] = a] /\ Alike(a, a)
    BY <1>2 DEF Session!Logout, AppsOK, Alike
  <2> QED BY <1>0, <1>2, <2>2, <2>3, <2>4, <2>5 DEF Session!Logout, Sent
<1>3. ASSUME NEW g \in Greenhouse, NEW op \in Session!Edit, NEW name \in Name,
             Session!Change(p, op, g, name)
      PROVE  /\ UNCHANGED <<accounts, token, session, minted, house, granted, strays>>
             /\ \E b : app' = [app EXCEPT ![p] = b] /\ Sound(b) /\ Alike(a, b)
             /\ \E n : /\ Sent(p, n) /\ n.op \notin Flow
                       /\ n.op = "add" => /\ house[n.house].owner = None
                                          /\ \A c \in calls : c.house # n.house
  <2> DEFINE n == Session!NewCall(Session!NewId, a, p, op, a.who, g, name)
  <2>1. Session!NewId \in 1 .. Calls BY <1>3, NewIds DEF Session!Change
  <2>2. /\ n \in Session!Call /\ n.phone = p /\ n.op = op /\ n.house = g
        /\ n.sid = a.cookie /\ n.step = "sent" /\ n.heard
    <3>1. /\ op \in Session!Login \cup Session!Edit \cup {"whoami", "token", "logout"}
          /\ g \in Greenhouse \cup {None} /\ name \in Name \cup {None}
      OBVIOUS
    <3>2. Sends(n, a, p, op, a.who, g)
      BY <1>0, <1>1, <2>1, <3>1, Sending
    <3> HIDE DEF n
    <3> QED BY <3>2 DEF Sends
  <2>3. calls' = calls \cup {n} BY <1>3 DEF Session!Change
  <2> HIDE DEF n
  <2>4. op \notin Flow /\ op \notin Session!Login
    BY DEF Flow, Session!Login, Session!Edit
  <2>5. \E b : app' = [app EXCEPT ![p] = b] /\ Sound(b) /\ Alike(a, b)
    <3>1. PICK b : /\ b = a \/ b = [a EXCEPT !.over = "none"]
                   /\ app' = [app EXCEPT ![p] = b]
      BY <1>3 DEF Session!Change, AppsOK
    <3>2. Sound(b) /\ Alike(a, b) BY <1>0, <3>1 DEF Session!App, Sound, Alike
    <3> QED BY <3>1, <3>2
  <2> HIDE DEF a
  <2> QED BY <1>3, <2>2, <2>3, <2>4, <2>5 DEF Session!Change, Sent, a
<1> QED BY <1>2, <1>3 DEF Requests

LEMMA Submitting ==
  ASSUME SessionTypes, NEW p \in Phone, NEW u \in User, NEW op \in Session!Login,
         Session!Submit(p, op, u)
  PROVE  /\ UNCHANGED <<accounts, token, session, minted, house, granted, strays>>
         /\ app[p].page = "auth" /\ ~app[p].loading
         /\ \E n : Sent(p, n) /\ n.op = op
         /\ \E b :
              /\ app' = [app EXCEPT ![p] = b] /\ Sound(b) /\ b.buried = app[p].buried
              /\ b.page = app[p].page /\ b.loading /\ b.cookie = app[p].cookie
              /\ b.fetch = app[p].fetch
<1> USE DEF SessionTypes
<1>0. app[p] \in Session!App /\ Sound(app[p]) BY SoundApps
<1> DEFINE n == Session!NewCall(Session!NewId, app[p], p, op, u, None, None)
           b == [app[p] EXCEPT !.loading = TRUE, !.flow = op]
<1>1. Session!NewId \in 1 .. Calls BY NewIds DEF Session!Submit
<1>2. /\ n \in Session!Call /\ n.phone = p /\ n.op = op /\ n.user = u
      /\ n.sid = app[p].cookie /\ n.step = "sent" /\ n.heard
  <2>1. op \in Session!Login \cup {"whoami", "token", "logout"}
        /\ u \in User \cup {None}
    OBVIOUS
  <2> QED BY <1>0, <1>1, <2>1, SendingNothing DEF Sends
<1>3. calls' = calls \cup {n} BY DEF Session!Submit
<1>4. op \notin Session!Edit BY DEF Session!Login, Session!Edit
<1>5. app' = [app EXCEPT ![p] = b] BY <1>0 DEF Session!Submit, AppsOK
<1>6. /\ Sound(b) /\ b.page = app[p].page /\ b.loading
      /\ b.cookie = app[p].cookie /\ b.fetch = app[p].fetch
      /\ b.buried = app[p].buried
  BY <1>0 DEF Session!App, Session!Login, Sound
<1> HIDE DEF n, b
<1>7. Sent(p, n) BY <1>2, <1>3, <1>4 DEF Sent
<1> QED BY <1>2, <1>5, <1>6, <1>7 DEF Session!Submit

(* An answer is heard, or the connection breaks.                           *)
Heard(c) == IF c.ok THEN Session!AfterSuccess(app[c.phone], c)
                    ELSE Session!AfterFailure(app[c.phone], c)

LEMMA Hearing ==
  ASSUME SessionTypes, CallsHold, NEW c \in calls, Session!Hear(c)
  PROVE  /\ UNCHANGED <<accounts, token, session, minted, house, granted, strays>>
         /\ c.heard /\ c.step = "done"
         /\ app' = [app EXCEPT ![c.phone] = Heard(c)] /\ Sound(Heard(c))
         /\ app[c.phone].buried => Heard(c).buried
         /\ \E X : /\ calls' = (calls \ {c}) \cup X
                   /\ \A d, e \in X : d = e
                   /\ \A d \in X :
                        /\ c.ok /\ d \in Session!Call /\ d.phone = c.phone
                        /\ d.user = c.user /\ d.heard /\ d.step = "sent"
                        /\ d.sid = app'[c.phone].cookie
                        /\ Session!Following(c) # {}
                        /\ \/ c.op = "register" /\ d.op = "login"
                           \/ c.op = "login" /\ d.op = "whoami"
                           \/ c.op = "whoami" /\ d.op = "token"
<1> USE DEF SessionTypes
<1>0. /\ c.phone \in Phone /\ Sound(app[c.phone]) /\ c \in Session!Call
  BY CallFields, SoundApps
<1>1. PICK a : a = Heard(c) OBVIOUS
<1>2. Sound(a) /\ (app[c.phone].buried => a.buried)
  BY <1>0, <1>1, Succeeding, Failing DEF Heard
<1>3. app' = [app EXCEPT ![c.phone] = a] BY <1>1 DEF Session!Hear, Heard
<1>4. app'[c.phone] = a BY <1>0, <1>3 DEF AppsOK
<1>5. PICK sid \in Session!Sid \cup {None} : sid = a.cookie
  BY <1>2, AppFields DEF Sound
<1> DEFINE New(op) == [c EXCEPT !.op = op, !.sid = sid, !.step = "sent", !.ok = FALSE]
           X == IF c.ok THEN {New(op) : op \in Session!Following(c)} ELSE {}
<1>6. calls' = (calls \ {c}) \cup X BY <1>1, <1>5 DEF Session!Hear, Heard
<1>7. ASSUME NEW op \in Session!Following(c)
      PROVE  /\ op \in {"login", "whoami", "token"}
             /\ \/ c.op = "register" /\ op = "login"
                \/ c.op = "login" /\ op = "whoami"
                \/ c.op = "whoami" /\ op = "token"
  BY <1>7 DEF Session!Following
<1>8. c.heard /\ c.step = "done" BY DEF Session!Hear, CallsHold
<1>9. ASSUME NEW op \in {"login", "whoami", "token"}
      PROVE  /\ New(op) \in Session!Call /\ New(op).phone = c.phone
             /\ New(op).user = c.user /\ New(op).heard /\ New(op).step = "sent"
             /\ New(op).sid = sid /\ New(op).op = op
  <2>1. /\ op \in Session!Login \cup Session!Edit \cup {"whoami", "token", "logout"}
        /\ "sent" \in {"sent", "checked", "done"} /\ FALSE \in BOOLEAN
    BY DEF Session!Login
  <2>2. c \in Session!Call BY <1>0
  <2>3. PICK d : d = [c EXCEPT !.op = op, !.sid = sid] OBVIOUS
  <2>4. /\ d \in Session!Call /\ d.phone = c.phone /\ d.user = c.user
        /\ d.heard = c.heard /\ d.sid = sid /\ d.op = op
    BY <2>1, <2>2, <2>3 DEF Session!Call
  <2>5. PICK e : e = [d EXCEPT !.step = "sent"] OBVIOUS
  <2>6. /\ e \in Session!Call /\ e.phone = d.phone /\ e.user = d.user
        /\ e.heard = d.heard /\ e.sid = d.sid /\ e.op = d.op /\ e.step = "sent"
    BY <2>4, <2>5 DEF Session!Call
  <2>7. PICK n : n = [e EXCEPT !.ok = FALSE] OBVIOUS
  <2>8. n = New(op) BY <2>3, <2>5, <2>7
  <2> HIDE DEF New
  <2>9. /\ n \in Session!Call /\ n.phone = e.phone /\ n.user = e.user
        /\ n.heard = e.heard /\ n.sid = e.sid /\ n.op = e.op /\ n.step = e.step
    BY <2>6, <2>7 DEF Session!Call
  <2> QED BY <1>8, <2>4, <2>6, <2>8, <2>9
<1> HIDE DEF New
<1>10. \A d, e \in X : d = e
  <2>1. \A o, op \in Session!Following(c) : o = op BY <1>7
  <2> QED BY <2>1
<1>11. ASSUME NEW d \in X
       PROVE  /\ c.ok /\ d \in Session!Call /\ d.phone = c.phone
              /\ d.user = c.user /\ d.heard /\ d.step = "sent"
              /\ d.sid = app'[c.phone].cookie /\ Session!Following(c) # {}
              /\ \/ c.op = "register" /\ d.op = "login"
                 \/ c.op = "login" /\ d.op = "whoami"
                 \/ c.op = "whoami" /\ d.op = "token"
  <2>1. PICK op \in Session!Following(c) : c.ok /\ d = New(op) BY <1>11
  <2> QED BY <1>4, <1>5, <1>7, <1>9, <2>1
<1> HIDE DEF X
<1>12. UNCHANGED <<accounts, token, session, minted, house, granted, strays>>
  BY DEF Session!Hear
<1> HIDE DEF SessionTypes
<1> QED BY <1>1, <1>2, <1>3, <1>6, <1>8, <1>10, <1>11, <1>12

LEMMA Losing ==
  ASSUME SessionTypes, NEW c \in calls, Session!Lose(c)
  PROVE  /\ UNCHANGED <<accounts, token, session, minted, house, granted, strays>>
         /\ c.heard
         /\ \E b : /\ app' = [app EXCEPT ![c.phone] = b] /\ Sound(b)
                   /\ b = Session!AfterFailure(app[c.phone], c)
                   /\ app[c.phone].buried => b.buried
         /\ \E X : /\ calls' = (calls \ {c}) \cup X
                   /\ \A d, e \in X : d = e
                   /\ \A d \in X :
                        /\ d \in Session!Call /\ c.step # "done"
                        /\ ~d.heard /\ d.phone = c.phone /\ d.op = c.op
                        /\ d.user = c.user /\ d.sid = c.sid /\ d.step = c.step
                        /\ d.house = c.house
<1>0. /\ c.phone \in Phone /\ Sound(app[c.phone]) /\ c \in Session!Call
  BY CallFields, SoundApps DEF SessionTypes
<1>5. PICK b : b = Session!AfterFailure(app[c.phone], c) OBVIOUS
<1>6. Sound(b) /\ (app[c.phone].buried => b.buried) BY <1>0, <1>5, Failing
<1> DEFINE d == [c EXCEPT !.heard = FALSE]
<1>1. /\ d \in Session!Call /\ ~d.heard /\ d.phone = c.phone /\ d.op = c.op
      /\ d.user = c.user /\ d.sid = c.sid /\ d.step = c.step /\ d.house = c.house
  BY CallFields DEF SessionTypes, Session!Call
<1>2. /\ UNCHANGED <<accounts, token, session, minted, house, granted, strays>>
      /\ c.heard
      /\ app' = [app EXCEPT ![c.phone] = b]
      /\ \/ calls' = calls \ {c}
         \/ c.step # "done" /\ calls' = (calls \ {c}) \cup {d}
  BY <1>5 DEF Session!Lose
<1> HIDE DEF d
<1> DEFINE X == IF calls' = calls \ {c} THEN {} ELSE {d}
<1>3. calls' = (calls \ {c}) \cup X /\ \A e, f \in X : e = f BY <1>2
<1>4. \A e \in X : e = d /\ c.step # "done" BY <1>2
<1> HIDE DEF X
<1> QED BY <1>1, <1>2, <1>3, <1>4, <1>5, <1>6

(* The application is opened anew, or the backend restarted: each call     *)
(* that is left was one before.                                            *)
Left(f, S) ==
  /\ S \subseteq calls /\ calls' = {f[c] : c \in S}
  /\ \A c \in S :
       /\ f[c] \in Session!Call /\ f[c].phone = c.phone /\ f[c].op = c.op
       /\ f[c].user = c.user /\ f[c].sid = c.sid /\ f[c].house = c.house
       /\ f[c].heard => c.heard /\ f[c].ok = c.ok

LEMMA Relaunching ==
  ASSUME SessionTypes, CallsHold, NEW p \in Phone, Session!Relaunch(p)
  PROVE  /\ UNCHANGED <<accounts, token, session, minted, house, granted, strays>>
         /\ \E b :
              /\ app' = [app EXCEPT ![p] = b] /\ Sound(b) /\ b.page = "auth"
              /\ b.cookie = app[p].cookie /\ b.fetch.sid = None
         /\ \E f, S : /\ Left(f, S)
                      /\ \A c \in S :
                           /\ f[c].step = c.step
                           /\ c.step = "done" => f[c].heard
                           /\ f[c].heard => c.phone # p
<1> USE DEF SessionTypes
<1>1. PICK cookie, opened, b :
        /\ cookie = app[p].cookie /\ opened = app[p].opened
        /\ b = Session!Launched(cookie, opened)
  OBVIOUS
<1>2. /\ UNCHANGED <<accounts, token, session, minted, house, granted, strays>>
      /\ app' = [app EXCEPT ![p] = b]
  BY <1>1 DEF Session!Relaunch
<1>3. Sound(b) /\ b.page = "auth" /\ b.cookie = app[p].cookie
      /\ b.fetch.sid = None
  <2>1. app[p] \in Session!App BY DEF AppsOK
  <2>2. cookie \in Session!Sid \cup {None} /\ opened \in Nat
    BY <1>1, <2>1, AppFields
  <2>3. /\ b \in Session!App /\ b.page = "auth" /\ b.cookie = cookie
        /\ b.fetch.sid = None /\ b.below = <<>> /\ b.buried = FALSE
    BY <1>1, <2>2, Launching
  <2> QED BY <1>1, <2>3 DEF Sound
<1> DEFINE S == {d \in calls : d.phone # p \/ d.step # "done"}
           f == [c \in calls |-> IF c.phone = p THEN [c EXCEPT !.heard = FALSE] ELSE c]
<1>4. calls' = {f[c] : c \in S} BY DEF Session!Relaunch
<1>5. ASSUME NEW c \in S
      PROVE  /\ f[c] \in Session!Call /\ f[c].phone = c.phone /\ f[c].op = c.op
             /\ f[c].user = c.user /\ f[c].sid = c.sid /\ f[c].house = c.house
             /\ f[c].step = c.step
             /\ f[c].heard => c.heard /\ c.phone # p /\ f[c].ok = c.ok
             /\ c.step = "done" => f[c].heard
  <2>1. CASE c.phone # p BY <2>1, CallFields DEF CallsHold
  <2>2. CASE c.phone = p
    <3>1. f[c] = [c EXCEPT !.heard = FALSE] /\ c.step # "done" BY <2>2
    <3> HIDE DEF f
    <3> QED BY <2>2, <3>1, CallFields DEF Session!Call
  <2> QED BY <2>1, <2>2
<1>6. S \subseteq calls OBVIOUS
<1> HIDE DEF f, S
<1>7. Left(f, S) BY <1>4, <1>5, <1>6 DEF Left
<1>8. \A c \in S :
        /\ f[c].step = c.step
        /\ c.step = "done" => f[c].heard
        /\ f[c].heard => c.phone # p
  BY <1>5
<1> QED BY <1>2, <1>3, <1>7, <1>8

LEMMA Restarting ==
  ASSUME SessionTypes, Session!Restart
  PROVE  /\ UNCHANGED <<accounts, token, minted, house, granted, app, strays>>
         /\ session' = [s \in Session!Sid |-> None]
         /\ \E f, S : /\ Left(f, S)
                      /\ \A c \in S : f[c].step = "done" /\ f[c].heard
<1> USE DEF SessionTypes
<1> DEFINE S == {d \in calls : d.heard}
           f == [c \in calls |-> IF c.step = "done" THEN c ELSE [c EXCEPT !.step = "done"]]
<1>1. /\ UNCHANGED <<accounts, token, minted, house, granted, app, strays>>
      /\ session' = [s \in Session!Sid |-> None]
      /\ calls' = {f[c] : c \in S} /\ S \subseteq calls
  BY DEF Session!Restart
<1>2. ASSUME NEW c \in S
      PROVE  /\ f[c] \in Session!Call /\ f[c].phone = c.phone /\ f[c].op = c.op
             /\ f[c].user = c.user /\ f[c].sid = c.sid /\ f[c].house = c.house
             /\ f[c].step = "done" /\ f[c].heard /\ c.heard /\ f[c].ok = c.ok
  <2>1. CASE c.step = "done" BY <2>1, CallFields
  <2>2. CASE c.step # "done"
    <3>1. f[c] = [c EXCEPT !.step = "done"] /\ c.heard BY <2>2
    <3> HIDE DEF f
    <3> QED BY <3>1, CallFields DEF Session!Call
  <2> QED BY <2>1, <2>2
<1> HIDE DEF f, S
<1>3. Left(f, S) BY <1>1, <1>2 DEF Left
<1> QED BY <1>1, <1>2, <1>3

LEMMA SessionTypeStep ==
  SessionTypes /\ CallsHold /\ [Session!Next]_sessionVars => SessionTypes'
<1> SUFFICES ASSUME SessionTypes, CallsHold, [Session!Next]_sessionVars
             PROVE  SessionTypes'
  OBVIOUS
<1> USE DEF SessionTypes
<1>1. ASSUME UNCHANGED <<accounts, token, session, minted, house, granted, strays>>
      PROVE  StoreOK' /\ HousesOK'
  BY <1>1 DEF StoreOK, HousesOK
<1>2. ASSUME NEW p \in Phone, OnItsOwn(p) PROVE SessionTypes'
  <2>1. PICK b : Local(p, b) BY <1>2, Turning
  <2>2. LeftOK' BY <1>2, Budgeting DEF OnItsOwn, Session!ToggleEdit, Session!Tick,
          Session!Refresh, Session!Read, Session!Show, Session!Expire, Session!GoBack,
          Session!Open, Session!Behind, LeftOK
  <2>3. AppsOK' /\ CallsOK' BY <2>1, AppReplaced DEF Local, CallsOK
  <2> QED BY <1>1, <1>2, <2>2, <2>3, Turning
<1>3. ASSUME NEW p \in Phone, Requests(p)
      PROVE  SessionTypes'
  <2>1. LeftOK'
    BY <1>3, Budgeting DEF Requests, Session!Logout, Session!Change, LeftOK
  <2>2. AppsOK' /\ CallsOK' BY <1>3, Requesting, AppReplaced DEF Sent, CallsOK
  <2> QED BY <1>1, <1>3, <2>1, <2>2, Requesting
<1>4. ASSUME NEW p \in Phone, NEW u \in User, NEW op \in Session!Login,
             Session!Submit(p, op, u)
      PROVE  SessionTypes'
  <2>1. LeftOK' BY <1>4, Budgeting DEF Session!Submit, LeftOK
  <2>2. AppsOK' /\ CallsOK' BY <1>4, Submitting, AppReplaced DEF Sent, CallsOK
  <2> QED BY <1>1, <1>4, <2>1, <2>2, Submitting
<1>5. ASSUME NEW c \in calls, Session!Hear(c) PROVE SessionTypes'
  <2>1. LeftOK' BY <1>5 DEF Session!Hear, LeftOK
  <2>2. CallsOK' BY <1>5, Hearing DEF CallsOK
  <2>3. c.phone \in Phone BY CallFields
  <2>4. AppsOK'
    <3>1. PICK b : app' = [app EXCEPT ![c.phone] = b] /\ Sound(b) BY <1>5, Hearing
    <3> QED BY <2>3, <3>1, AppReplaced
  <2> QED BY <1>1, <1>5, <2>1, <2>2, <2>4, Hearing
<1>6. ASSUME NEW c \in calls, Session!Lose(c) PROVE SessionTypes'
  <2>1. LeftOK' BY <1>6, Budgeting DEF Session!Lose, LeftOK
  <2>2. CallsOK' BY <1>6, Losing DEF CallsOK
  <2>3. c.phone \in Phone BY CallFields
  <2>4. AppsOK'
    <3>1. PICK b : app' = [app EXCEPT ![c.phone] = b] /\ Sound(b) BY <1>6, Losing
    <3> QED BY <2>3, <3>1, AppReplaced
  <2> QED BY <1>1, <1>6, <2>1, <2>2, <2>4, Losing
<1>7. ASSUME NEW p \in Phone, Session!Relaunch(p) PROVE SessionTypes'
  <2>1. LeftOK' BY <1>7, Budgeting DEF Session!Relaunch, LeftOK
  <2>2. CallsOK' BY <1>7, Relaunching DEF CallsOK, Left
  <2>3. AppsOK' BY <1>7, Relaunching, AppReplaced
  <2> QED BY <1>1, <1>7, <2>1, <2>2, <2>3, Relaunching
<1>8. CASE Session!Restart
  <2>1. LeftOK' BY <1>8, Budgeting DEF Session!Restart, LeftOK
  <2>2. CallsOK' BY <1>8, Restarting DEF CallsOK, Left
  <2>3. AppsOK' /\ HousesOK' /\ StoreOK'
    BY <1>8, Restarting DEF AppsOK, HousesOK, StoreOK
  <2> QED BY <2>1, <2>2, <2>3
<1>9. CASE UNCHANGED sessionVars
  BY <1>9 DEF sessionVars, StoreOK, HousesOK, AppsOK, CallsOK, LeftOK
<1> QED BY <1>2, <1>3, <1>4, <1>5, <1>6, <1>7, <1>8, <1>9, BackendTypes
    DEF Session!Next, OnItsOwn, Requests

----------------------------------------------------------------------------
(* The invariants of the session.                                          *)
SessionInv == /\ SessionTypes /\ CallsHold /\ SidsApart /\ FlowsAreSafe
              /\ HomesAreSafe /\ HousesHold

FrontEnd ==
  \/ \E p \in Phone : OnItsOwn(p) \/ Requests(p) \/ Session!Relaunch(p)
  \/ \E p \in Phone, u \in User, op \in Session!Login : Session!Submit(p, op, u)
  \/ \E c \in calls : Session!Hear(c) \/ Session!Lose(c)

LEMMA SessionSteps ==
  [Session!Next]_sessionVars =>
    \/ FrontEnd \/ Session!Restart \/ UNCHANGED sessionVars
    \/ \E c \in calls : Session!Backend(c)
  BY DEF Session!Next, FrontEnd, OnItsOwn, Requests

LEMMA FrontEndStore ==
  ASSUME SessionTypes, CallsHold, FrontEnd
  PROVE  UNCHANGED <<accounts, token, session, minted, house, granted, strays>>
  BY Turning, Requesting, Relaunching, Submitting, Hearing, Losing DEF FrontEnd

(* A session that is safe for a user stays so, unless a login that is      *)
(* listened to enters it.                                                  *)
Entered(sid) == \E c \in calls : c.heard /\ c.sid = sid /\ Session!Enter(c)

LEMMA SafeStays ==
  ASSUME SessionTypes, CallsHold, [Session!Next]_sessionVars,
         NEW sid \in Session!Sid \cup {None}, NEW u,
         Safe(session, strays, sid, u), ~Entered(sid)
  PROVE  Safe(session', strays', sid, u)
<1> USE DEF SessionTypes
<1>0. CASE sid = None BY <1>0 DEF Safe
<1> SUFFICES ASSUME sid \in Session!Sid PROVE Safe(session', strays', sid, u)
  BY <1>0
<1>1. CASE UNCHANGED <<session, strays>> BY <1>1
<1>2. CASE Session!Restart BY <1>2, Restarting DEF Safe
<1>3. ASSUME NEW c \in calls, Session!Enter(c)
      PROVE  Safe(session', strays', sid, u)
  <2>1. c.sid \in Session!Sid
    BY <1>3, CallFields DEF Session!Enter, CallsHold
  <2>2. CASE c.sid # sid
    <3>1. session'[sid] = session[sid] /\ strays \subseteq strays'
      BY <1>3, <2>2 DEF Session!Enter, StoreOK
    <3> QED BY <3>1 DEF Safe
  <2>3. CASE c.sid = sid
    <3>1. ~c.heard BY <1>3, <2>3 DEF Entered
    <3>2. session'[sid] = c.user /\ <<sid, c.user>> \in strays'
      BY <1>3, <2>1, <2>3, <3>1 DEF Session!Enter, StoreOK
    <3> QED BY <3>2 DEF Safe
  <2> QED BY <2>2, <2>3
<1>4. ASSUME NEW c \in calls, Session!Leave(c)
      PROVE  Safe(session', strays', sid, u)
  BY <1>4 DEF Session!Leave, Safe, StoreOK
<1>5. ASSUME NEW c \in calls,
             \/ Session!Check(c) \/ Session!Serve(c) \/ Session!Alter(c)
             \/ Session!Refuse(c)
      PROVE  UNCHANGED <<session, strays>>
  BY <1>5 DEF Session!Check, Session!Serve, Session!Alter, Session!Refuse
<1> QED BY <1>1, <1>2, <1>3, <1>4, <1>5, SessionSteps, FrontEndStore
    DEF Session!Backend, sessionVars

----------------------------------------------------------------------------
(* A phone that waits to be let in waits for one call.                     *)
CallHolds(c) ==
  /\ c.step = "checked" => c.op \in Session!Login /\ c.sid # None
  /\ c.step = "done" => c.heard
  /\ c.op \in Session!Login => c.user \in User
  /\ c.op \in Session!Edit => c.house \in Greenhouse

Waits(p) == app[p].buried \/ (app[p].page = "auth" /\ app[p].loading)

LEMMA CallsAre ==
  CallsHold <=>
    /\ \A c \in calls : CallHolds(c) /\ (HeardFlow(c) => Waits(c.phone))
    /\ \A c, d \in calls :
         HeardFlow(c) /\ HeardFlow(d) /\ c.phone = d.phone =>
           c = d \/ app[c.phone].buried
  BY DEF CallsHold, CallHolds, Waits

LEMMA OneCallReplaced ==
  ASSUME CallsHold, NEW c \in calls, NEW X,
         calls' = (calls \ {c}) \cup X, \A d, e \in X : d = e,
         \A d \in X : CallHolds(d) /\ (HeardFlow(d) => HeardFlow(c) /\ d.phone = c.phone),
         \A d \in calls' : HeardFlow(d) =>
           Waits(d.phone)' /\ (app[d.phone].buried => app'[d.phone].buried)
  PROVE  CallsHold'
<1>1. \A d \in calls' : CallHolds(d) BY DEF CallsHold, CallHolds
<1>2. \A d, e \in calls' :
        HeardFlow(d) /\ HeardFlow(e) /\ d.phone = e.phone =>
          d = e \/ app'[d.phone].buried
  BY CallsAre
<1> QED BY <1>1, <1>2 DEF CallsHold, CallHolds, Waits, HeardFlow

LEMMA CallsStep ==
  SessionTypes /\ CallsHold /\ [Session!Next]_sessionVars => CallsHold'
<1> SUFFICES ASSUME SessionTypes, CallsHold, [Session!Next]_sessionVars
             PROVE  CallsHold'
  OBVIOUS
<1> USE DEF SessionTypes
<1>0. "logout" \notin Flow /\ \A op \in Session!Edit : op \notin Flow
  BY DEF Flow, Session!Login, Session!Edit
<1>1. ASSUME NEW c \in calls, Session!Backend(c) PROVE CallsHold'
  <2>1. PICK X : Served(c, X) BY <1>1, Serving
  <2>2. app' = app
    BY <1>1 DEF Session!Backend, Session!Check, Session!Enter, Session!Leave,
       Session!Serve, Session!Alter, Session!Refuse
  <2>3. \A d \in X : /\ CallHolds(d)
                     /\ HeardFlow(d) => HeardFlow(c) /\ d.phone = c.phone
    <3>1. None \notin Session!Sid BY NoneAssumption
    <3> QED BY <2>1, <3>1, CallsAre DEF Served, CallHolds, HeardFlow
  <2>4. \A d \in calls' : HeardFlow(d) =>
          Waits(d.phone)' /\ (app[d.phone].buried => app'[d.phone].buried)
    BY <2>1, <2>2, <2>3, CallsAre DEF Served, Waits
  <2> QED BY <2>1, <2>3, <2>4, OneCallReplaced DEF Served
<1>2. ASSUME NEW p \in Phone, OnItsOwn(p) PROVE CallsHold'
  <2>1. PICK b : Local(p, b) BY <1>2, Turning
  <2>2. app'[p] = b /\ \A q \in Phone \ {p} : app'[q] = app[q]
    BY <2>1, AppReplaced DEF Local
  <2>3. \A q \in Phone : /\ app'[q].buried = app[q].buried
                         /\ Waits(q) => Waits(q)'
    BY <2>1, <2>2 DEF Local, Waits
  <2>4. calls' = calls BY <2>1 DEF Local
  <2>5. \A c \in calls' : CallHolds(c) /\ (HeardFlow(c) => Waits(c.phone)')
    BY <2>3, <2>4, CallsAre, CallFields
  <2>6. \A c, d \in calls' :
          HeardFlow(c) /\ HeardFlow(d) /\ c.phone = d.phone =>
            c = d \/ app'[c.phone].buried
    BY <2>3, <2>4, CallsAre, CallFields
  <2> QED BY <2>5, <2>6 DEF CallsHold, CallHolds, Waits, HeardFlow
<1>3. ASSUME NEW p \in Phone, Requests(p)
      PROVE  CallsHold'
  <2>1. PICK n : Sent(p, n) /\ n.op \notin Flow BY <1>3, Requesting
  <2>2. PICK b : app' = [app EXCEPT ![p] = b] /\ Sound(b) /\ Alike(app[p], b)
    BY <1>3, Requesting
  <2>3. app'[p] = b /\ \A q \in Phone \ {p} : app'[q] = app[q]
    BY <2>2, AppReplaced
  <2>4. \A q \in Phone : /\ app'[q].buried = app[q].buried
                         /\ Waits(q) => Waits(q)'
    BY <2>2, <2>3 DEF Alike, Waits
  <2>5. /\ \A c \in calls' : CallHolds(c)
        /\ \A c \in calls' : HeardFlow(c) => c \in calls
    BY <2>1, CallsAre DEF Sent, CallHolds, HeardFlow
  <2>6. \A c \in calls' : HeardFlow(c) => Waits(c.phone)'
    BY <2>4, <2>5, CallsAre, CallFields
  <2>7. \A c, d \in calls' :
          HeardFlow(c) /\ HeardFlow(d) /\ c.phone = d.phone =>
            c = d \/ app'[c.phone].buried
    BY <2>4, <2>5, CallsAre, CallFields
  <2> QED BY <2>5, <2>6, <2>7 DEF CallsHold, CallHolds, Waits, HeardFlow
<1>4. ASSUME NEW p \in Phone, NEW u \in User, NEW op \in Session!Login,
             Session!Submit(p, op, u)
      PROVE  CallsHold'
  <2>1. PICK n : Sent(p, n) /\ n.op = op BY <1>4, Submitting
  <2>2. PICK b : /\ app' = [app EXCEPT ![p] = b] /\ Sound(b) /\ b.page = "auth"
                 /\ b.loading /\ b.buried = app[p].buried
    BY <1>4, Submitting
  <2>3. app'[p] = b /\ \A q \in Phone \ {p} : app'[q] = app[q]
    BY <2>2, AppReplaced
  <2>4. \A c \in calls : HeardFlow(c) /\ c.phone = p => app[p].buried
    BY <1>4, Submitting, CallsAre DEF Waits
  <2>5. \A c \in calls' : CallHolds(c) BY <2>1, CallsAre DEF Sent, CallHolds
  <2>6. \A q \in Phone : /\ app'[q].buried = app[q].buried
                         /\ Waits(q) => Waits(q)'
    BY <2>2, <2>3 DEF Waits
  <2>7. \A c \in calls' : HeardFlow(c) => Waits(c.phone)'
    BY <2>1, <2>2, <2>3, <2>6, CallsAre, CallFields DEF Sent, Waits
  <2>8. \A c, d \in calls' :
          HeardFlow(c) /\ HeardFlow(d) /\ c.phone = d.phone =>
            c = d \/ app'[c.phone].buried
    BY <2>1, <2>4, <2>6, CallsAre, CallFields DEF Sent
  <2> QED BY <2>5, <2>7, <2>8 DEF CallsHold, CallHolds, Waits, HeardFlow
<1>5. ASSUME NEW c \in calls, Session!Hear(c) PROVE CallsHold'
  <2> DEFINE p == c.phone
             a == app[p]
  <2>0. p \in Phone /\ c \in Session!Call /\ Sound(a)
    BY CallFields, SoundApps
  <2>1. PICK X : /\ calls' = (calls \ {c}) \cup X
                 /\ \A d, e \in X : d = e
                 /\ \A d \in X :
                      /\ c.ok /\ d \in Session!Call /\ d.phone = c.phone
                      /\ d.user = c.user /\ d.heard /\ d.step = "sent"
                      /\ Session!Following(c) # {}
                      /\ \/ c.op = "register" /\ d.op = "login"
                         \/ c.op = "login" /\ d.op = "whoami"
                         \/ c.op = "whoami" /\ d.op = "token"
    BY <1>5, Hearing
  <2>2. PICK b : /\ b = Heard(c) /\ Sound(b) /\ app' = [app EXCEPT ![p] = b]
                 /\ a.buried => b.buried
    BY <1>5, Hearing
  <2>3. /\ app'[p] = b /\ \A q \in Phone \ {p} : app'[q] = app[q]
        /\ c.heard
    BY <1>5, <2>0, <2>2, AppReplaced, Hearing
  <2>4. \A d \in X : CallHolds(d) /\ HeardFlow(d) /\ HeardFlow(c) /\ d.phone = c.phone
    BY <2>1, <2>3, CallsAre DEF CallHolds, HeardFlow, Flow, Session!Login, Session!Edit
  <2>5. \A d \in calls \ {c} : HeardFlow(d) => Waits(d.phone)'
    <3> SUFFICES ASSUME NEW d \in calls \ {c}, HeardFlow(d) PROVE Waits(d.phone)'
      OBVIOUS
    <3>1. Waits(d.phone) /\ d.phone \in Phone BY CallsAre, CallFields
    <3>2. CASE d.phone # p BY <2>3, <3>1, <3>2 DEF Waits
    <3>3. CASE d.phone = p /\ a.buried BY <2>2, <2>3, <3>3 DEF Waits
    <3>4. CASE d.phone = p /\ ~a.buried
      <4>1. ~HeardFlow(c) BY <3>4, CallsAre
      <4>2. c.op \notin Flow BY <2>3, <4>1 DEF HeardFlow
      <4>3. a.page = "auth" /\ a.loading BY <3>1, <3>4 DEF Waits
      <4>4. b.buried \/ (b.page = "auth" /\ b.loading)
        <5>1. CASE c.ok
          <6>1. b = Session!AfterSuccess(a, c) BY <2>2, <5>1 DEF Heard
          <6> HIDE DEF p, a
          <6> QED BY <2>0, <4>2, <4>3, <6>1, Succeeding DEF Leaves
        <5>2. CASE ~c.ok
          <6>1. b = Session!AfterFailure(a, c) BY <2>2, <5>2 DEF Heard
          <6> HIDE DEF p, a
          <6> QED BY <2>0, <4>2, <4>3, <6>1, Failing DEF Leaves
        <5> QED BY <5>1, <5>2
      <4> QED BY <2>3, <3>4, <4>4 DEF Waits
    <3> QED BY <3>2, <3>3, <3>4
  <2>6. \A d \in X : Waits(d.phone)'
    <3> SUFFICES ASSUME NEW d \in X PROVE Waits(p)' BY <2>1
    <3>1. Waits(p) /\ c.ok BY <2>1, <2>4, CallsAre
    <3>2. b = Session!AfterSuccess(a, c) BY <2>2, <3>1 DEF Heard
    <3>3. b.buried \/ (b.page = "auth" /\ b.loading)
      <4>1. a.buried \/ (a.page = "auth" /\ a.loading) BY <3>1 DEF Waits
      <4>2. c.op \in Session!Login \cup {"whoami", "token"} /\ Session!Following(c) # {}
        BY <2>1 DEF Session!Login
      <4> HIDE DEF p, a
      <4> QED BY <2>0, <2>2, <3>2, <4>1, <4>2, Succeeding
    <3> QED BY <2>3, <3>3 DEF Waits
  <2>7. \A d \in calls' : HeardFlow(d) =>
          Waits(d.phone)' /\ (app[d.phone].buried => app'[d.phone].buried)
    <3>1. \A d \in calls' : d.phone \in Phone BY <2>0, <2>1, CallFields
    <3>2. \A d \in calls' : HeardFlow(d) => Waits(d.phone)' BY <2>1, <2>5, <2>6
    <3> QED BY <2>2, <2>3, <3>1, <3>2
  <2> HIDE DEF p, a
  <2> QED BY <2>1, <2>4, <2>7, OneCallReplaced
<1>6. ASSUME NEW c \in calls, Session!Lose(c) PROVE CallsHold'
  <2> DEFINE p == c.phone
             a == app[p]
  <2>0. p \in Phone /\ c \in Session!Call /\ Sound(a)
    BY CallFields, SoundApps
  <2>1. PICK X : /\ calls' = (calls \ {c}) \cup X /\ \A d, e \in X : d = e
                 /\ \A d \in X : ~d.heard /\ CallHolds(d)
    BY <1>6, Losing, CallsAre DEF CallHolds
  <2>2. PICK b : /\ b = Session!AfterFailure(a, c) /\ Sound(b)
                 /\ app' = [app EXCEPT ![p] = b] /\ (a.buried => b.buried)
    BY <1>6, Losing
  <2>3. /\ app'[p] = b /\ \A q \in Phone \ {p} : app'[q] = app[q]
        /\ c.heard
    BY <1>6, <2>0, <2>2, AppReplaced, Losing
  <2>5. \A d \in calls \ {c} : HeardFlow(d) => Waits(d.phone)'
    <3> SUFFICES ASSUME NEW d \in calls \ {c}, HeardFlow(d) PROVE Waits(d.phone)'
      OBVIOUS
    <3>1. Waits(d.phone) /\ d.phone \in Phone BY CallsAre, CallFields
    <3>2. CASE d.phone # p BY <2>3, <3>1, <3>2 DEF Waits
    <3>3. CASE d.phone = p /\ a.buried BY <2>2, <2>3, <3>3 DEF Waits
    <3>4. CASE d.phone = p /\ ~a.buried
      <4>1. ~HeardFlow(c) BY <3>4, CallsAre
      <4>2. c.op \notin Flow BY <2>3, <4>1 DEF HeardFlow
      <4>3. a.page = "auth" /\ a.loading BY <3>1, <3>4 DEF Waits
      <4>4. b.buried \/ (b.page = "auth" /\ b.loading)
        BY <2>0, <2>2, <4>2, <4>3, Failing DEF Leaves
      <4> QED BY <2>3, <3>4, <4>4 DEF Waits
    <3> QED BY <3>2, <3>3, <3>4
  <2>6. \A d \in X : ~HeardFlow(d) BY <2>1 DEF HeardFlow
  <2>7. \A d \in calls' : HeardFlow(d) =>
          Waits(d.phone)' /\ (app[d.phone].buried => app'[d.phone].buried)
    BY <2>1, <2>2, <2>3, <2>5, <2>6, CallFields
  <2> HIDE DEF p, a
  <2> QED BY <2>1, <2>6, <2>7, OneCallReplaced
<1>7. ASSUME NEW p \in Phone, Session!Relaunch(p) PROVE CallsHold'
  <2>1. \A q \in Phone \ {p} : app'[q] = app[q]
    BY <1>7, Relaunching, AppReplaced
  <2>2. PICK f, S : /\ Left(f, S)
                    /\ \A c \in S : /\ f[c].step = c.step
                                    /\ c.step = "done" => f[c].heard
                                    /\ f[c].heard => c.phone # p
    BY <1>7, Relaunching
  <2>3. \A c \in S : CallHolds(f[c]) BY <2>2, CallsAre DEF Left, CallHolds
  <2>4. \A c \in S : HeardFlow(f[c]) => HeardFlow(c) /\ c.phone # p
    BY <2>2 DEF Left, HeardFlow
  <2>5. \A c \in S : HeardFlow(f[c]) => Waits(f[c].phone)'
    BY <2>1, <2>2, <2>4, CallsAre, CallFields DEF Left, Waits
  <2>6. \A c, d \in S : HeardFlow(f[c]) /\ HeardFlow(f[d])
                          /\ f[c].phone = f[d].phone =>
                            c = d \/ app'[f[c].phone].buried
    BY <2>1, <2>2, <2>4, CallsAre, CallFields DEF Left
  <2> QED BY <2>2, <2>3, <2>5, <2>6 DEF Left, CallsHold, CallHolds, Waits, HeardFlow
<1>8. CASE Session!Restart
  <2>1. app' = app BY <1>8, Restarting
  <2>2. PICK f, S : Left(f, S) /\ \A c \in S : f[c].step = "done" /\ f[c].heard
    BY <1>8, Restarting
  <2>3. \A c \in S : CallHolds(f[c]) BY <2>2, CallsAre DEF Left, CallHolds
  <2>4. \A c \in S : HeardFlow(f[c]) => HeardFlow(c)
    BY <2>2 DEF Left, HeardFlow
  <2>5. \A c \in S : HeardFlow(f[c]) => Waits(f[c].phone)'
    BY <2>1, <2>2, <2>4, CallsAre DEF Left, Waits
  <2>6. \A c, d \in S : HeardFlow(f[c]) /\ HeardFlow(f[d])
                          /\ f[c].phone = f[d].phone =>
                            c = d \/ app'[f[c].phone].buried
    BY <2>1, <2>2, <2>4, CallsAre DEF Left
  <2> QED BY <2>2, <2>3, <2>5, <2>6 DEF Left, CallsHold, CallHolds, Waits, HeardFlow
<1>9. CASE UNCHANGED sessionVars
  BY <1>9 DEF sessionVars, CallsHold, HeardFlow
<1> QED BY <1>1, <1>2, <1>3, <1>4, <1>5, <1>6, <1>7, <1>8, <1>9, SessionSteps
    DEF FrontEnd

----------------------------------------------------------------------------
(* No two phones have a session in common.                                 *)
LEMMA BackendApp ==
  ASSUME NEW c \in calls, Session!Backend(c)
  PROVE  app' = app /\ granted' = granted
  BY DEF Session!Backend, Session!Check, Session!Enter, Session!Leave, Session!Serve,
     Session!Alter, Session!Refuse

(* What one application carries afterwards it carried before.              *)
LEMMA CarriedBefore ==
  ASSUME AppsOK, NEW p \in Phone, NEW b, Sound(b), app' = [app EXCEPT ![p] = b],
         NEW q \in Phone, NEW s \in Session!Sid, Carries(q, s)',
         Carries(p, b.cookie) \/ b.cookie = None,
         \/ b.buried \/ b.fetch.sid = None
         \/ Carries(p, b.fetch.sid),
         \A d \in calls' : d.phone = q /\ d.sid = s => Carries(q, s)
  PROVE  Carries(q, s)
<1>0. None \notin Session!Sid BY NoneAssumption
<1>1. app'[p] = b /\ \A r \in Phone \ {p} : app'[r] = app[r] BY AppReplaced
<1>2. CASE \E d \in calls' : d.phone = q /\ d.sid = s BY <1>2
<1>3. CASE app'[q].cookie = s BY <1>0, <1>1, <1>3 DEF Carries
<1>4. CASE ~app'[q].buried /\ app'[q].fetch.sid = s BY <1>0, <1>1, <1>4 DEF Carries
<1> QED BY <1>2, <1>3, <1>4 DEF Carries

LEMMA CarriesStays ==
  ASSUME SessionTypes, CallsHold, FrontEnd \/ Session!Restart,
         NEW q \in Phone, NEW s \in Session!Sid, Carries(q, s)'
  PROVE  Carries(q, s)
<1> USE DEF SessionTypes
<1>0. /\ \A p \in Phone : Carries(p, app[p].cookie)
      /\ \A p \in Phone : app[p].buried \/ Carries(p, app[p].fetch.sid)
      /\ \A c \in calls : Carries(c.phone, c.sid)
  BY DEF Carries
<1>1. ASSUME NEW p \in Phone, OnItsOwn(p) PROVE Carries(q, s)
  <2>1. PICK b : Local(p, b) BY <1>1, Turning
  <2>2. /\ Sound(b) /\ app' = [app EXCEPT ![p] = b] /\ calls' = calls
        /\ b.cookie \in {app[p].cookie, None} /\ b.buried = app[p].buried
        /\ b.buried \/ b.fetch.sid \in {app[p].fetch.sid, app[p].cookie, None}
    BY <2>1 DEF Local
  <2>3. Carries(p, b.cookie) \/ b.cookie = None BY <1>0, <2>2
  <2>4. b.buried \/ b.fetch.sid = None \/ Carries(p, b.fetch.sid) BY <1>0, <2>2
  <2>5. \A d \in calls' : d.phone = q /\ d.sid = s => Carries(q, s) BY <1>0, <2>2
  <2> QED BY <2>2, <2>3, <2>4, <2>5, CarriedBefore
<1>2. ASSUME NEW p \in Phone, NEW n, NEW b, Sent(p, n), Sound(b),
             app' = [app EXCEPT ![p] = b], b.cookie = app[p].cookie,
             b.fetch = app[p].fetch, b.buried = app[p].buried
      PROVE  Carries(q, s)
  <2>1. \A d \in calls' : d.phone = q /\ d.sid = s => Carries(q, s)
    BY <1>0, <1>2 DEF Sent
  <2>2. Carries(p, b.cookie) BY <1>0, <1>2
  <2>3. b.buried \/ Carries(p, b.fetch.sid) BY <1>0, <1>2
  <2> QED BY <1>2, <2>1, <2>2, <2>3, CarriedBefore
<1>3. ASSUME NEW p \in Phone, Requests(p) PROVE Carries(q, s)
  <2>1. PICK n : Sent(p, n) BY <1>3, Requesting
  <2>2. PICK b : app' = [app EXCEPT ![p] = b] /\ Sound(b) /\ Alike(app[p], b)
    BY <1>3, Requesting
  <2> QED BY <1>2, <2>1, <2>2 DEF Alike
<1>4. ASSUME NEW p \in Phone, NEW u \in User, NEW op \in Session!Login,
             Session!Submit(p, op, u)
      PROVE  Carries(q, s)
  <2>1. PICK n : Sent(p, n) BY <1>4, Submitting
  <2>2. PICK b : /\ app' = [app EXCEPT ![p] = b] /\ Sound(b)
                 /\ b.cookie = app[p].cookie /\ b.fetch = app[p].fetch
                 /\ b.buried = app[p].buried
    BY <1>4, Submitting
  <2> QED BY <1>2, <2>1, <2>2
<1>5. ASSUME NEW c \in calls, Session!Hear(c) PROVE Carries(q, s)
  <2> DEFINE p == c.phone
             a == app[p]
  <2>0. p \in Phone /\ c \in Session!Call /\ Sound(a)
    BY CallFields, SoundApps
  <2>1. PICK X : /\ calls' = (calls \ {c}) \cup X
                 /\ \A d \in X : d.phone = p /\ d.sid = app'[p].cookie
    BY <1>5, Hearing
  <2>2. PICK b : /\ b = Heard(c) /\ Sound(b) /\ app' = [app EXCEPT ![p] = b]
                 /\ a.buried => b.buried
    BY <1>5, Hearing
  <2>3. app'[p] = b BY <2>0, <2>2, AppReplaced
  <2>4. /\ b.cookie \in {a.cookie, c.sid, None}
        /\ b.buried \/ b.fetch.sid \in {a.fetch.sid, a.cookie, None}
    <3>1. CASE c.ok
      <4>1. b = Session!AfterSuccess(a, c) BY <2>2, <3>1 DEF Heard
      <4>2. c.op \notin Session!Login /\ c.op \notin {"whoami", "token"} => c.op \notin Flow
        BY DEF Flow
      <4> HIDE DEF p, a
      <4> QED BY <2>0, <4>1, <4>2, Succeeding DEF Leaves
    <3>2. CASE ~c.ok
      <4>1. b = Session!AfterFailure(a, c) BY <2>2, <3>2 DEF Heard
      <4> HIDE DEF p, a
      <4> QED BY <2>0, <4>1, Failing DEF Leaves
    <3> QED BY <3>1, <3>2
  <2>5. Carries(p, b.cookie) \/ b.cookie = None BY <1>0, <2>0, <2>4
  <2>6. b.buried \/ b.fetch.sid = None \/ Carries(p, b.fetch.sid)
    BY <1>0, <2>0, <2>2, <2>4
  <2>7. \A d \in calls' : d.phone = q /\ d.sid = s => Carries(q, s)
    <3>1. None \notin Session!Sid BY NoneAssumption
    <3> QED BY <1>0, <2>1, <2>3, <2>5, <3>1
  <2>8. PICK r \in Phone : r = p BY <2>0
  <2>9. /\ app' = [app EXCEPT ![r] = b] /\ Sound(b)
        /\ Carries(r, b.cookie) \/ b.cookie = None
        /\ b.buried \/ b.fetch.sid = None \/ Carries(r, b.fetch.sid)
    BY <2>2, <2>5, <2>6, <2>8
  <2> QED BY <2>7, <2>9, CarriedBefore
<1>6. ASSUME NEW c \in calls, Session!Lose(c) PROVE Carries(q, s)
  <2>0. c.phone \in Phone /\ c \in Session!Call /\ Sound(app[c.phone])
    BY CallFields, SoundApps
  <2>1. PICK X : /\ calls' = (calls \ {c}) \cup X
                 /\ \A d \in X : d.phone = c.phone /\ d.sid = c.sid
    BY <1>6, Losing
  <2>2. PICK b : /\ b = Session!AfterFailure(app[c.phone], c) /\ Sound(b)
                 /\ app' = [app EXCEPT ![c.phone] = b]
                 /\ app[c.phone].buried => b.buried
    BY <1>6, Losing
  <2>3. /\ b.cookie = app[c.phone].cookie
        /\ b.buried \/ b.fetch.sid \in {app[c.phone].fetch.sid, None}
    BY <2>0, <2>2, Failing DEF Leaves
  <2>4. \A d \in calls' : d.phone = q /\ d.sid = s => Carries(q, s) BY <1>0, <2>1
  <2>5. PICK p \in Phone : p = c.phone BY <2>0
  <2>6. Carries(p, b.cookie) BY <1>0, <2>3, <2>5
  <2>7. b.buried \/ b.fetch.sid = None \/ Carries(p, b.fetch.sid)
    BY <1>0, <2>2, <2>3, <2>5
  <2> QED BY <2>2, <2>4, <2>5, <2>6, <2>7, CarriedBefore
<1>7. ASSUME NEW p \in Phone, Session!Relaunch(p) PROVE Carries(q, s)
  <2>1. PICK b : /\ app' = [app EXCEPT ![p] = b] /\ Sound(b)
                 /\ b.cookie = app[p].cookie /\ b.fetch.sid = None
    BY <1>7, Relaunching
  <2>2. PICK f, S : Left(f, S) BY <1>7, Relaunching
  <2>3. \A d \in calls' : d.phone = q /\ d.sid = s => Carries(q, s)
    BY <1>0, <2>2 DEF Left
  <2>4. Carries(p, b.cookie) BY <1>0, <2>1
  <2> QED BY <2>1, <2>3, <2>4, CarriedBefore
<1>8. CASE Session!Restart
  <2>1. app' = app BY <1>8, Restarting
  <2>2. PICK f, S : Left(f, S) BY <1>8, Restarting
  <2> QED BY <2>1, <2>2 DEF Left, Carries
<1> QED BY <1>1, <1>3, <1>4, <1>5, <1>6, <1>7, <1>8 DEF FrontEnd

LEMMA SidsStep ==
  ASSUME SessionTypes, CallsHold, SidsApart, [Session!Next]_sessionVars
  PROVE  SidsApart'
<1> USE DEF SessionTypes
<1>1. CASE FrontEnd \/ Session!Restart
  <2>1. minted' = minted BY <1>1, FrontEndStore, Restarting
  <2>2. \A q \in Phone, s \in Session!Sid : Carries(q, s)' => Carries(q, s)
    BY <1>1, CarriesStays
  <2> QED BY <2>1, <2>2 DEF SidsApart
<1>2. ASSUME NEW c \in calls, Session!Backend(c) PROVE SidsApart'
  <2>1. PICK X : Served(c, X) BY <1>2, Serving
  <2>2. app' = app BY <1>2, BackendApp
  <2>3. minted \in Nat /\ minted' \in {minted, minted + 1}
    <3>1. minted \in Nat BY SessionAssumption DEF StoreOK
    <3>2. CASE Session!Check(c) BY <3>1, <3>2 DEF Session!Check
    <3>3. CASE ~Session!Check(c)
      BY <1>2, <3>1, <3>3 DEF Session!Backend, Session!Enter, Session!Leave,
         Session!Serve, Session!Alter, Session!Refuse
    <3> QED BY <3>2, <3>3
  <2>4. \A q \in Phone, s \in Session!Sid : Carries(q, s)' =>
          \/ Carries(q, s)
          \/ q = c.phone /\ s = minted + 1 /\ minted' = minted + 1
    BY <2>1, <2>2 DEF Served, Carries
  <2>5. \A s \in Session!Sid : s \in Int
    BY SessionAssumption DEF Session!Sid
  <2>6. \A q \in Phone, s \in Session!Sid : Carries(q, s) => s <= minted
    BY DEF SidsApart
  <2> HIDE DEF SidsApart
  <2>7. \A s \in Session!Sid, p, q \in Phone :
          Carries(p, s)' => s <= minted' /\ (Carries(q, s)' => p = q)
    <3> SUFFICES ASSUME NEW s \in Session!Sid, NEW p \in Phone, NEW q \in Phone,
                        Carries(p, s)'
                 PROVE  s <= minted' /\ (Carries(q, s)' => p = q)
      OBVIOUS
    <3>1. CASE Carries(p, s)
      <4>1. s <= minted BY <2>6, <3>1
      <4>2. Carries(q, s)' => Carries(q, s) BY <2>3, <2>4, <2>5, <4>1
      <4> QED BY <2>3, <2>5, <3>1, <4>1, <4>2 DEF SidsApart
    <3>2. CASE ~Carries(p, s)
      <4>1. p = c.phone /\ s = minted + 1 /\ minted' = minted + 1 BY <2>4, <3>2
      <4>2. Carries(q, s)' => q = c.phone BY <2>3, <2>4, <2>6, <4>1
      <4> QED BY <2>3, <4>1, <4>2
    <3> QED BY <3>1, <3>2
  <2> QED BY <2>7 DEF SidsApart
<1>3. CASE UNCHANGED sessionVars
  BY <1>3 DEF sessionVars, SidsApart, Carries
<1> QED BY <1>1, <1>2, <1>3, SessionSteps

----------------------------------------------------------------------------
(* A greenhouse keeps its owner.                                           *)

LEMMA Altering ==
  ASSUME SessionTypes, CallsHold, NEW c \in calls, Session!Alter(c)
  PROVE  /\ c.step = "sent" /\ c.house \in Greenhouse
         /\ \A g \in Greenhouse \ {c.house} : house'[g] = house[g]
         /\ \/ c.op = "add" /\ house'[c.house].owner # None
            \/ /\ c.op # "add" /\ house'[c.house].owner = house[c.house].owner
               /\ house'[c.house].there => house[c.house].there
<1> USE DEF SessionTypes
<1>1. /\ c.step = "sent" /\ c.op \in Session!Edit
      /\ Session!Holder(c.sid) # None
      /\ c.op # "add" => Session!Mine(Session!Holder(c.sid), c.house)
  BY DEF Session!Alter
<1>2. c.house \in Greenhouse BY <1>1 DEF CallsHold
<1> DEFINE r == house[c.house]
           n == CASE c.op = "add" -> [owner |-> Session!Holder(c.sid),
                                      name |-> c.name, there |-> TRUE]
                  [] c.op = "rename" -> [r EXCEPT !.name = c.name]
                  [] c.op = "delete" -> [r EXCEPT !.there = FALSE]
<1>3. house' = [house EXCEPT ![c.house] = n] BY DEF Session!Alter
<1>4. house'[c.house] = n /\ \A g \in Greenhouse \ {c.house} : house'[g] = house[g]
  BY <1>2, <1>3 DEF HousesOK
<1>5. r \in Session!Row BY <1>2 DEF HousesOK
<1>6. CASE c.op = "add" BY <1>1, <1>2, <1>4, <1>6
<1>7. CASE c.op = "rename"
  BY <1>1, <1>2, <1>4, <1>5, <1>7 DEF Session!Row, Session!Mine
<1>8. CASE c.op = "delete"
  BY <1>1, <1>2, <1>4, <1>5, <1>8 DEF Session!Row
<1> QED BY <1>1, <1>6, <1>7, <1>8 DEF Session!Edit

LEMMA OthersLeaveHouses ==
  ASSUME SessionTypes, CallsHold, [Session!Next]_sessionVars,
         \A c \in calls : ~Session!Alter(c)
  PROVE  house' = house
<1>1. ASSUME NEW c \in calls, Session!Backend(c) PROVE house' = house
  BY <1>1 DEF Session!Backend, Session!Check, Session!Enter, Session!Leave,
     Session!Serve, Session!Refuse
<1> QED BY <1>1, SessionSteps, FrontEndStore, Restarting DEF sessionVars

LEMMA OwnersStay ==
  ASSUME SessionTypes, CallsHold, HousesHold, [Session!Next]_sessionVars,
         NEW g \in Greenhouse, house[g].owner # None
  PROVE  house'[g].owner = house[g].owner
<1>1. ASSUME NEW c \in calls, Session!Alter(c)
      PROVE  house'[g].owner = house[g].owner
  <2>1. c.step = "sent" /\ c.op = "add" => house[c.house].owner = None
    BY DEF HousesHold, Adding
  <2> QED BY <1>1, <2>1, Altering
<1> QED BY <1>1, OthersLeaveHouses

LEMMA HousesStep ==
  ASSUME SessionTypes, CallsHold, HousesHold, [Session!Next]_sessionVars
  PROVE  HousesHold'
<1> USE DEF SessionTypes
<1>0. /\ \A op \in Flow : op # "add"
      /\ \A c \in calls : Adding(c) => c.house \in Greenhouse
  BY DEF Flow, Session!Login, CallsHold, Adding, Session!Edit
<1>1. \A g \in Greenhouse : house'[g].there => house'[g].owner # None
  <2>1. ASSUME NEW c \in calls, Session!Alter(c), NEW g \in Greenhouse,
               house'[g].there
        PROVE  house'[g].owner # None
    BY <2>1, Altering DEF HousesHold
  <2>2. CASE \A c \in calls : ~Session!Alter(c)
    BY <2>2, OthersLeaveHouses DEF HousesHold
  <2> QED BY <2>1, <2>2
<1>2. ASSUME house' = house, \A d \in calls' : Adding(d) => d \in calls
      PROVE  HousesHold'
  BY <1>1, <1>2 DEF HousesHold, Adding
<1>3. ASSUME NEW c \in calls, Session!Backend(c) PROVE HousesHold'
  <2>1. PICK X : Served(c, X) BY <1>3, Serving
  <2>2. \A d \in calls' : Adding(d) => d \in calls /\ (d # c)
    BY <2>1 DEF Served, Adding
  <2>3. CASE ~Session!Alter(c)
    <3>1. house' = house
      BY <1>3, <2>3 DEF Session!Backend, Session!Check, Session!Enter,
         Session!Leave, Session!Serve, Session!Refuse
    <3> QED BY <1>2, <2>2, <3>1
  <2>4. CASE Session!Alter(c)
    <3>1. \A d \in calls' : Adding(d) => house'[d.house].owner = None
      <4> SUFFICES ASSUME NEW d \in calls', Adding(d)
                   PROVE  house'[d.house].owner = None
        OBVIOUS
      <4>1. d \in calls /\ d # c BY <2>2
      <4>2. d.house \in Greenhouse /\ house[d.house].owner = None
        BY <1>0, <4>1 DEF HousesHold
      <4>3. c.op = "add" => c.house # d.house
        BY <2>4, <4>1, Altering DEF HousesHold, Adding
      <4> QED BY <2>4, <4>2, <4>3, Altering
    <3>2. \A d, e \in calls' : Adding(d) /\ Adding(e) /\ d.house = e.house => d = e
      BY <2>2 DEF HousesHold
    <3> QED BY <1>1, <3>1, <3>2 DEF HousesHold, Adding
  <2> QED BY <2>3, <2>4
<1>4. ASSUME NEW p \in Phone, OnItsOwn(p) PROVE HousesHold'
  BY <1>2, <1>4, Turning DEF Local
<1>5. ASSUME NEW p \in Phone, Requests(p)
      PROVE  HousesHold'
  <2>1. PICK n : /\ Sent(p, n)
                 /\ n.op = "add" => /\ house[n.house].owner = None
                                    /\ \A c \in calls : c.house # n.house
    BY <1>5, Requesting
  <2>2. house' = house BY <1>5, Requesting
  <2>3. \A d \in calls' : Adding(d) => house'[d.house].owner = None
    BY <2>1, <2>2 DEF Sent, HousesHold, Adding
  <2>4. \A c, d \in calls' : Adding(c) /\ Adding(d) /\ c.house = d.house => c = d
    BY <2>1 DEF Sent, HousesHold, Adding
  <2> QED BY <1>1, <2>3, <2>4 DEF HousesHold, Adding
<1>6. ASSUME NEW p \in Phone, NEW u \in User, NEW op \in Session!Login,
             Session!Submit(p, op, u)
      PROVE  HousesHold'
  <2>1. PICK n : Sent(p, n) /\ n.op = op BY <1>6, Submitting
  <2>2. op # "add" BY DEF Session!Login
  <2> QED BY <1>2, <1>6, <2>1, <2>2, Submitting DEF Sent, Adding
<1>7. ASSUME NEW c \in calls, Session!Hear(c) PROVE HousesHold'
  <2>1. PICK X : /\ calls' = (calls \ {c}) \cup X
                 /\ \A d \in X : d.op \in {"login", "whoami", "token"}
    BY <1>7, Hearing
  <2>2. house' = house BY <1>7, Hearing
  <2> QED BY <1>2, <2>1, <2>2 DEF Adding
<1>8. ASSUME NEW c \in calls, Session!Lose(c) PROVE HousesHold'
  <2>1. PICK X : /\ calls' = (calls \ {c}) \cup X /\ \A d, e \in X : d = e
                 /\ \A d \in X : d.op = c.op /\ d.step = c.step /\ d.house = c.house
    BY <1>8, Losing
  <2>2. house' = house BY <1>8, Losing
  <2>3. \A d \in calls' : Adding(d) => house'[d.house].owner = None
    BY <2>1, <2>2 DEF HousesHold, Adding
  <2>4. \A d, e \in calls' : Adding(d) /\ Adding(e) /\ d.house = e.house => d = e
    <3>1. \A d \in calls', e \in X : Adding(d) /\ Adding(e) /\ d.house = e.house => d = e
      BY <2>1 DEF HousesHold, Adding
    <3> QED BY <2>1, <3>1 DEF HousesHold
  <2> QED BY <1>1, <2>3, <2>4 DEF HousesHold, Adding
<1>9. ASSUME NEW p \in Phone, Session!Relaunch(p) PROVE HousesHold'
  <2>1. PICK f, S : Left(f, S) /\ \A c \in S : f[c].step = c.step
    BY <1>9, Relaunching
  <2>2. house' = house BY <1>9, Relaunching
  <2>3. \A c \in S : f[c].house = c.house /\ (Adding(f[c]) => Adding(c))
    BY <2>1 DEF Left, Adding
  <2>4. S \subseteq calls /\ calls' = {f[c] : c \in S} BY <2>1 DEF Left
  <2>5. \A d \in calls' : Adding(d) => house'[d.house].owner = None
    BY <2>2, <2>3, <2>4 DEF HousesHold
  <2>6. \A d, e \in calls' : Adding(d) /\ Adding(e) /\ d.house = e.house => d = e
    BY <2>3, <2>4 DEF HousesHold
  <2> QED BY <1>1, <2>5, <2>6 DEF HousesHold, Adding
<1>10. CASE Session!Restart
  <2>1. PICK f, S : Left(f, S) /\ \A c \in S : f[c].step = "done"
    BY <1>10, Restarting
  <2>2. house' = house BY <1>10, Restarting
  <2> QED BY <1>2, <2>1, <2>2 DEF Left, Adding
<1>11. CASE UNCHANGED sessionVars BY <1>2, <1>11 DEF sessionVars
<1> QED BY <1>3, <1>4, <1>5, <1>6, <1>7, <1>8, <1>9, <1>10, <1>11, SessionSteps
    DEF FrontEnd

----------------------------------------------------------------------------
(* Only the call a phone waits for lets it into a session.                 *)
LEMMA Entering ==
  ASSUME SessionTypes, CallsHold, SidsApart, NEW p \in Phone,
         NEW sid \in Session!Sid \cup {None}, Carries(p, sid), Entered(sid)
  PROVE  /\ Waits(p)
         /\ \E e \in calls : /\ HeardFlow(e) /\ e.phone = p /\ e.step = "checked"
                             /\ e.op \in Session!Login
<1> USE DEF SessionTypes
<1>1. PICK e \in calls : e.heard /\ e.sid = sid /\ Session!Enter(e) BY DEF Entered
<1>2. e.step = "checked" /\ e.op \in Session!Login /\ sid # None
  BY <1>1 DEF Session!Enter, CallsHold
<1>3. e.phone \in Phone /\ sid \in Session!Sid BY <1>2, CallFields
<1>4. Carries(e.phone, sid) BY <1>1 DEF Carries
<1>5. e.phone = p BY <1>3, <1>4 DEF SidsApart
<1>6. HeardFlow(e) BY <1>1, <1>2 DEF HeardFlow, Flow
<1> QED BY <1>2, <1>5, <1>6, CallsAre

LEMMA FlowSafeStays ==
  ASSUME SessionTypes, CallsHold, SidsApart, FlowsAreSafe,
         [Session!Next]_sessionVars, NEW d \in calls, ~app[d.phone].buried
  PROVE  FlowIsSafe(d, session', strays', app[d.phone].cookie)
<1> USE DEF SessionTypes
<1>0. /\ d.phone \in Phone /\ d.sid \in Session!Sid \cup {None}
      /\ app[d.phone].cookie \in Session!Sid \cup {None}
  BY CallFields, AppFields DEF AppsOK
<1>1. FlowIsSafe(d, session, strays, app[d.phone].cookie) BY DEF FlowsAreSafe
<1>2. ASSUME d.heard, d.op \in {"whoami", "token"}
      PROVE  Safe(session', strays', app[d.phone].cookie, d.user)
  <2>1. d.op \notin Session!Login /\ HeardFlow(d)
    BY <1>2 DEF Session!Login, HeardFlow, Flow
  <2>2. Carries(d.phone, app[d.phone].cookie) BY DEF Carries
  <2>3. ~Entered(app[d.phone].cookie)
    <3> HIDE DEF SessionTypes
    <3> QED BY <1>0, <2>1, <2>2, Entering, CallsAre
  <2> QED BY <1>0, <1>1, <1>2, <2>3, SafeStays DEF FlowIsSafe
<1>3. ASSUME d.heard, d.op \in Session!Login, d.step = "done", d.ok
      PROVE  Safe(session', strays', d.sid, d.user)
  <2>1. HeardFlow(d) BY <1>3 DEF HeardFlow, Flow
  <2>2. Carries(d.phone, d.sid) BY DEF Carries
  <2>3. ~Entered(d.sid)
    <3> HIDE DEF SessionTypes
    <3> QED BY <1>0, <1>3, <2>1, <2>2, Entering, CallsAre
  <2> QED BY <1>0, <1>1, <1>3, <2>3, SafeStays DEF FlowIsSafe
<1> QED BY <1>2, <1>3 DEF FlowIsSafe

LEMMA FlowsStep ==
  ASSUME SessionTypes, CallsHold, SidsApart, FlowsAreSafe,
         [Session!Next]_sessionVars
  PROVE  FlowsAreSafe'
<1> USE DEF SessionTypes
<1>0. \A c \in calls :
        \/ app[c.phone].buried
        \/ FlowIsSafe(c, session', strays', app[c.phone].cookie)
  BY FlowSafeStays
<1>1. ASSUME NEW c \in calls, Session!Backend(c) PROVE FlowsAreSafe'
  <2>1. PICK X : Served(c, X) BY <1>1, Serving
  <2>2. app' = app BY <1>1, BackendApp
  <2>3. ASSUME NEW d \in X
        PROVE  \/ app[d.phone].buried
               \/ FlowIsSafe(d, session', strays', app[d.phone].cookie)
    <3>1. /\ d.phone = c.phone /\ d.op = c.op /\ d.user = c.user /\ d.heard = c.heard
          /\ d.step = "done" => d.sid = c.sid
          /\ c.op \in Session!Login /\ d.step = "done" /\ d.ok => Session!Enter(c)
      BY <2>1, <2>3 DEF Served
    <3>2. ASSUME c.op \in Session!Login, d.step = "done", d.ok
          PROVE  Safe(session', strays', d.sid, d.user)
      <4>1. session' = [session EXCEPT ![c.sid] = c.user]
        BY <3>1, <3>2 DEF Session!Enter
      <4> QED BY <3>1, <3>2, <4>1, CallFields DEF StoreOK, Safe
    <3>3. \/ app[c.phone].buried
          \/ FlowIsSafe(c, session', strays', app[c.phone].cookie)
      BY <1>0
    <3> QED BY <3>1, <3>2, <3>3 DEF FlowIsSafe
  <2> QED BY <1>0, <2>1, <2>2, <2>3 DEF Served, FlowsAreSafe
<1>2. ASSUME NEW p \in Phone, OnItsOwn(p) PROVE FlowsAreSafe'
  <2>1. PICK b : Local(p, b) BY <1>2, Turning
  <2>2. app'[p] = b /\ \A q \in Phone \ {p} : app'[q] = app[q]
    BY <2>1, AppReplaced DEF Local
  <2>3. \A q \in Phone : /\ app'[q].cookie \in {app[q].cookie, None}
                         /\ app'[q].buried = app[q].buried
    BY <2>1, <2>2 DEF Local
  <2>4. calls' = calls BY <2>1 DEF Local
  <2> QED BY <1>0, <2>3, <2>4, CallFields DEF FlowsAreSafe, FlowIsSafe, Safe
<1>3. ASSUME NEW p \in Phone, NEW n, Sent(p, n), n.op \notin {"whoami", "token"},
             NEW b, Sound(b), app' = [app EXCEPT ![p] = b],
             b.cookie = app[p].cookie, b.buried = app[p].buried
      PROVE  FlowsAreSafe'
  <2>1. calls' = calls \cup {n} /\ n.step = "sent" BY <1>3 DEF Sent
  <2>2. \A q \in Phone : /\ app'[q].cookie = app[q].cookie
                         /\ app'[q].buried = app[q].buried
    BY <1>3, AppReplaced
  <2>3. \A c \in calls : \/ app'[c.phone].buried
                         \/ FlowIsSafe(c, session', strays', app'[c.phone].cookie)
    BY <1>0, <2>2, CallFields
  <2>4. FlowIsSafe(n, session', strays', app'[n.phone].cookie)
    BY <1>3, <2>1 DEF FlowIsSafe
  <2> QED BY <2>1, <2>3, <2>4 DEF FlowsAreSafe
<1>4. ASSUME NEW p \in Phone, Requests(p)
      PROVE  FlowsAreSafe'
  <2>1. PICK n : Sent(p, n) /\ n.op \notin Flow BY <1>4, Requesting
  <2>2. PICK b : app' = [app EXCEPT ![p] = b] /\ Sound(b) /\ Alike(app[p], b)
    BY <1>4, Requesting
  <2> QED BY <1>3, <2>1, <2>2 DEF Flow, Alike
<1>5. ASSUME NEW p \in Phone, NEW u \in User, NEW op \in Session!Login,
             Session!Submit(p, op, u)
      PROVE  FlowsAreSafe'
  <2>1. PICK n : Sent(p, n) /\ n.op = op BY <1>5, Submitting
  <2>2. PICK b : /\ app' = [app EXCEPT ![p] = b] /\ Sound(b)
                 /\ b.cookie = app[p].cookie /\ b.buried = app[p].buried
    BY <1>5, Submitting
  <2> QED BY <1>3, <2>1, <2>2 DEF Session!Login
<1>6. ASSUME NEW c \in calls, Session!Hear(c) PROVE FlowsAreSafe'
  <2> DEFINE p == c.phone
             a == app[p]
  <2>0. p \in Phone /\ c \in Session!Call /\ Sound(a)
    BY CallFields, SoundApps
  <2>1. PICK X : /\ calls' = (calls \ {c}) \cup X
                 /\ \A d \in X :
                      /\ c.ok /\ d.phone = p /\ d.user = c.user /\ d.step = "sent"
                      /\ \/ c.op = "register" /\ d.op = "login"
                         \/ c.op = "login" /\ d.op = "whoami"
                         \/ c.op = "whoami" /\ d.op = "token"
    BY <1>6, Hearing
  <2>2. PICK b : /\ b = Heard(c) /\ Sound(b) /\ app' = [app EXCEPT ![p] = b]
                 /\ a.buried => b.buried
    BY <1>6, Hearing
  <2>3. /\ app'[p] = b /\ \A q \in Phone \ {p} : app'[q] = app[q]
        /\ c.heard /\ c.step = "done"
    BY <1>6, <2>0, <2>2, AppReplaced, Hearing
  <2>4. /\ c.op \notin Flow => b.cookie \in {a.cookie, None}
        /\ c.ok /\ c.op = "login" => b.cookie = c.sid
        /\ c.ok /\ c.op = "whoami" => b.cookie = a.cookie
    <3>1. CASE c.ok
      <4>1. b = Session!AfterSuccess(a, c) BY <2>2, <3>1 DEF Heard
      <4> HIDE DEF p, a
      <4> QED BY <2>0, <4>1, Succeeding DEF Session!Login
    <3>2. CASE ~c.ok
      <4>1. b = Session!AfterFailure(a, c) BY <2>2, <3>2 DEF Heard
      <4> HIDE DEF p, a
      <4> QED BY <2>0, <3>2, <4>1, Failing
    <3> QED BY <3>1, <3>2
  <2>5. a.buried \/ FlowIsSafe(c, session', strays', a.cookie) BY <1>0
  <2>6. ASSUME NEW d \in calls \ {c}
        PROVE  \/ app'[d.phone].buried
               \/ FlowIsSafe(d, session', strays', app'[d.phone].cookie)
    <3>1. \/ app[d.phone].buried
          \/ FlowIsSafe(d, session', strays', app[d.phone].cookie)
      BY <1>0
    <3>2. d.phone \in Phone BY CallFields
    <3>3. CASE d.phone # p BY <2>3, <3>1, <3>2, <3>3
    <3>4. CASE d.phone = p /\ a.buried BY <2>2, <2>3, <3>4
    <3>5. CASE d.phone = p /\ ~a.buried /\ HeardFlow(d)
      <4>1. ~HeardFlow(c) BY <3>5, CallsAre
      <4>2. c.op \notin Flow BY <2>3, <4>1 DEF HeardFlow
      <4> QED BY <2>3, <2>4, <3>1, <3>5, <4>2 DEF FlowIsSafe, Safe
    <3>6. CASE d.phone = p /\ ~HeardFlow(d)
      BY <3>6 DEF FlowIsSafe, HeardFlow, Flow
    <3> QED BY <3>3, <3>4, <3>5, <3>6
  <2>7. ASSUME NEW d \in X
        PROVE  \/ app'[d.phone].buried
               \/ FlowIsSafe(d, session', strays', app'[d.phone].cookie)
    <3>0. CASE a.buried BY <2>1, <2>2, <2>3, <2>7, <3>0
    <3>1. /\ c.ok /\ d.phone = p /\ d.user = c.user /\ d.step = "sent"
          /\ d.op = "whoami" => c.op = "login"
          /\ d.op = "token" => c.op = "whoami"
      BY <2>1, <2>7
    <3>4. CASE ~a.buried
      <4>1. d.op = "whoami" => Safe(session', strays', b.cookie, d.user)
        BY <2>3, <2>4, <2>5, <3>1, <3>4 DEF FlowIsSafe, Session!Login
      <4>2. d.op = "token" => Safe(session', strays', b.cookie, d.user)
        BY <2>3, <2>4, <2>5, <3>1, <3>4 DEF FlowIsSafe
      <4> QED BY <2>3, <3>1, <4>1, <4>2 DEF FlowIsSafe
    <3> QED BY <3>0, <3>4
  <2> QED BY <2>1, <2>6, <2>7 DEF FlowsAreSafe
<1>7. ASSUME NEW c \in calls, Session!Lose(c) PROVE FlowsAreSafe'
  <2>0. c.phone \in Phone /\ c \in Session!Call /\ Sound(app[c.phone])
    BY CallFields, SoundApps
  <2>1. PICK X : calls' = (calls \ {c}) \cup X /\ \A d \in X : ~d.heard
    BY <1>7, Losing
  <2>2. PICK b : /\ b = Session!AfterFailure(app[c.phone], c) /\ Sound(b)
                 /\ app' = [app EXCEPT ![c.phone] = b]
                 /\ app[c.phone].buried => b.buried
    BY <1>7, Losing
  <2>3. b.cookie = app[c.phone].cookie BY <2>0, <2>2, Failing
  <2>4. app'[c.phone] = b /\ \A q \in Phone \ {c.phone} : app'[q] = app[q]
    BY <2>0, <2>2, AppReplaced
  <2>5. \A q \in Phone : /\ app'[q].cookie = app[q].cookie
                         /\ app[q].buried => app'[q].buried
    BY <2>2, <2>3, <2>4
  <2> QED BY <1>0, <2>1, <2>5, CallFields DEF FlowsAreSafe, FlowIsSafe
<1>8. ASSUME NEW p \in Phone, Session!Relaunch(p) PROVE FlowsAreSafe'
  <2>1. \A q \in Phone \ {p} : app'[q] = app[q]
    BY <1>8, Relaunching, AppReplaced
  <2>2. PICK f, S : Left(f, S) /\ \A c \in S : /\ f[c].step = c.step
                                               /\ f[c].heard => c.phone # p
    BY <1>8, Relaunching
  <2>4. S \subseteq calls /\ calls' = {f[c] : c \in S} BY <2>2 DEF Left
  <2>5. ASSUME NEW c \in S
        PROVE  \/ app'[f[c].phone].buried
               \/ FlowIsSafe(f[c], session', strays', app'[f[c].phone].cookie)
    <3>1. /\ f[c].phone = c.phone /\ f[c].op = c.op /\ f[c].user = c.user
          /\ f[c].sid = c.sid /\ f[c].step = c.step
          /\ f[c].heard => c.heard /\ f[c].ok = c.ok /\ c.phone # p
      BY <2>2, <2>5 DEF Left
    <3>2. CASE ~f[c].heard BY <3>2 DEF FlowIsSafe
    <3>3. CASE f[c].heard
      <4>1. app'[c.phone] = app[c.phone] BY <2>1, <2>4, <3>1, <3>3, CallFields
      <4> QED BY <1>0, <2>4, <3>1, <3>3, <4>1 DEF FlowIsSafe
    <3> QED BY <3>2, <3>3
  <2> QED BY <2>4, <2>5 DEF FlowsAreSafe
<1>9. CASE Session!Restart
  <2>1. session' = [s \in Session!Sid |-> None] /\ app' = app BY <1>9, Restarting
  <2>2. PICK f, S : Left(f, S) BY <1>9, Restarting
  <2>3. \A sid \in Session!Sid \cup {None} : \A u : Safe(session', strays', sid, u)
    BY <2>1 DEF Safe
  <2>4. \A c \in calls' : /\ c.sid \in Session!Sid \cup {None}
                          /\ app'[c.phone].cookie \in Session!Sid \cup {None}
    BY <2>1, <2>2, CallFields, AppFields DEF Left, AppsOK
  <2> QED BY <2>3, <2>4 DEF FlowsAreSafe, FlowIsSafe
<1>10. CASE UNCHANGED sessionVars
  BY <1>0, <1>10 DEF sessionVars, FlowsAreSafe
<1> QED BY <1>1, <1>2, <1>4, <1>5, <1>6, <1>7, <1>8, <1>9, <1>10, SessionSteps
    DEF FrontEnd

----------------------------------------------------------------------------
(* What a home page shows and keeps was its own, or is what the database   *)
(* has for the session it asked in.                                        *)
LEMMA OwnersAreSafe ==
  ASSUME SessionTypes, HousesHold, NEW sid \in Session!Sid \cup {None}, NEW u,
         Safe(session, strays, sid, u), NEW l \in Session!Of(Session!Holder(sid)),
         NEW cookie, cookie \in {sid, None}
  PROVE  OwnedBy(house, strays, l.id, u, cookie)
<1>1. /\ l.id \in Greenhouse /\ house[l.id].there
      /\ house[l.id].owner = Session!Holder(sid)
  BY DEF Session!Of, Session!Line, Session!Mine
<1>2. house[l.id].owner # None BY <1>1 DEF HousesHold
<1>3. sid # None BY <1>1, <1>2 DEF Session!Holder
<1>4. house[l.id].owner = session[sid] BY <1>1, <1>3 DEF Session!Holder
<1>5. session[sid] = u \/ <<sid, session[sid]>> \in strays
  BY <1>2, <1>3, <1>4 DEF Safe
<1> QED BY <1>2, <1>4, <1>5 DEF OwnedBy

StillHome(a, b) ==
  b.page = "home" =>
    /\ a.page = "home" /\ b.who = a.who /\ b.cookie \in {a.cookie, None}
    /\ b.fetch.sid \in {a.fetch.sid, a.cookie, None}
    /\ b.list \subseteq a.list \cup a.fetch.lines
    /\ \/ b.fetch.lines \subseteq a.fetch.lines
       \/ b.fetch.lines = Session!Of(Session!Holder(a.fetch.sid))

LEMMA HomeSafeStays ==
  ASSUME SessionTypes, HousesHold, NEW a \in Session!App, NEW b, StillHome(a, b),
         HomeIsSafe(a, session, strays, house)
  PROVE  HomeIsSafe(b, session, strays, house)
<1> SUFFICES ASSUME b.page = "home" PROVE HomeIsSafe(b, session, strays, house)
  BY DEF HomeIsSafe
<1>0. /\ a.page = "home" /\ b.who = a.who /\ b.cookie \in {a.cookie, None}
      /\ a.cookie = None \/ a.fetch.sid \in {a.cookie, None}
  BY DEF StillHome, HomeIsSafe
<1>1. /\ Safe(session, strays, b.cookie, b.who)
      /\ Safe(session, strays, b.fetch.sid, b.who)
      /\ b.cookie = None \/ b.fetch.sid \in {b.cookie, None}
  BY DEF StillHome, HomeIsSafe, Safe
<1>2. \A l \in a.list \cup a.fetch.lines :
        OwnedBy(house, strays, l.id, b.who, b.cookie)
  <2> SUFFICES ASSUME NEW l \in a.list \cup a.fetch.lines
               PROVE  OwnedBy(house, strays, l.id, b.who, b.cookie)
    OBVIOUS
  <2>1. OwnedBy(house, strays, l.id, a.who, a.cookie) BY <1>0 DEF HomeIsSafe
  <2> QED BY <1>0, <2>1 DEF OwnedBy
<1>3. \A l \in Session!Of(Session!Holder(a.fetch.sid)) :
        OwnedBy(house, strays, l.id, b.who, b.cookie)
  <2>1. a.fetch.sid \in Session!Sid \cup {None} BY AppFields
  <2>2. Safe(session, strays, a.fetch.sid, b.who) BY DEF StillHome, HomeIsSafe
  <2>3. CASE b.cookie \in {a.fetch.sid, None} BY <2>1, <2>2, <2>3, OwnersAreSafe
  <2>4. CASE a.fetch.sid = None
    <3> SUFFICES ASSUME NEW l \in Session!Of(Session!Holder(a.fetch.sid)) PROVE FALSE
      OBVIOUS
    <3>1. l.id \in Greenhouse /\ house[l.id].there /\ house[l.id].owner = None
      BY <2>4 DEF Session!Of, Session!Line, Session!Mine, Session!Holder
    <3> QED BY <3>1 DEF HousesHold
  <2> QED BY <1>0, <2>3, <2>4
<1>4. \A l \in b.list \cup b.fetch.lines :
        OwnedBy(house, strays, l.id, b.who, b.cookie)
  BY <1>2, <1>3 DEF StillHome
<1> QED BY <1>1, <1>4 DEF HomeIsSafe

LEMMA StraysStay ==
  ASSUME SessionTypes, CallsHold, [Session!Next]_sessionVars
  PROVE  strays \subseteq strays'
<1>1. ASSUME NEW c \in calls, Session!Backend(c) PROVE strays \subseteq strays'
  BY <1>1 DEF Session!Backend, Session!Check, Session!Enter, Session!Leave,
     Session!Serve, Session!Alter, Session!Refuse
<1> QED BY <1>1, SessionSteps, FrontEndStore, Restarting DEF sessionVars

(* What the backend does leaves a home page safe.                          *)
LEMMA HomesStay ==
  ASSUME SessionTypes, CallsHold, SidsApart, HousesHold, HomesAreSafe,
         [Session!Next]_sessionVars, NEW p \in Phone, ~app[p].buried
  PROVE  HomeIsSafe(app[p], session', strays', house')
<1> DEFINE a == app[p]
<1> SUFFICES ASSUME a.page = "home" PROVE HomeIsSafe(a, session', strays', house')
  BY DEF HomeIsSafe
<1>0. a \in Session!App BY DEF SessionTypes, AppsOK
<1>1. HomeIsSafe(a, session, strays, house) BY DEF HomesAreSafe
<1>2. ~Waits(p) BY DEF Waits
<1>3. /\ a.cookie \in Session!Sid \cup {None} /\ a.fetch.sid \in Session!Sid \cup {None}
      /\ a.list \in SUBSET Session!Line /\ a.fetch.lines \in SUBSET Session!Line
  BY <1>0, AppFields
<1>4. Carries(p, a.cookie) /\ Carries(p, a.fetch.sid) BY DEF Carries
<1>5. ~Entered(a.cookie) /\ ~Entered(a.fetch.sid) BY <1>2, <1>3, <1>4, Entering
<1>6. /\ Safe(session', strays', a.cookie, a.who)
      /\ Safe(session', strays', a.fetch.sid, a.who)
  BY <1>1, <1>3, <1>5, SafeStays DEF HomeIsSafe
<1>7. ASSUME NEW l \in a.list \cup a.fetch.lines
      PROVE  OwnedBy(house', strays', l.id, a.who, a.cookie)
  <2>1. OwnedBy(house, strays, l.id, a.who, a.cookie) BY <1>1 DEF HomeIsSafe
  <2>2. l.id \in Greenhouse BY <1>3 DEF Session!Line
  <2>3. house'[l.id].owner = house[l.id].owner BY <2>1, <2>2, OwnersStay DEF OwnedBy
  <2> QED BY <2>1, <2>3, StraysStay DEF OwnedBy
<1> QED BY <1>1, <1>6, <1>7 DEF HomeIsSafe

LEMMA HomesStep ==
  ASSUME SessionTypes, CallsHold, SidsApart, HousesHold, FlowsAreSafe, HomesAreSafe,
         [Session!Next]_sessionVars
  PROVE  HomesAreSafe'
<1>0. \A p \in Phone : Sound(app[p]) /\ app[p] \in Session!App
  BY SoundApps DEF SessionTypes
<1>1. ASSUME app' = app PROVE HomesAreSafe'
  BY <1>1, HomesStay DEF HomesAreSafe
<1>2. ASSUME UNCHANGED <<session, strays, house>>, NEW p \in Phone, NEW b, Sound(b),
             app' = [app EXCEPT ![p] = b],
             b.buried \/ HomeIsSafe(b, session, strays, house)
      PROVE  HomesAreSafe'
  <2>1. \A q \in Phone : app'[q] = app[q] \/ app'[q] = b
    BY <1>2, AppReplaced DEF SessionTypes
  <2> QED BY <1>2, <2>1 DEF HomesAreSafe
<1>3. ASSUME UNCHANGED <<session, strays, house>>, NEW p \in Phone, NEW b, Sound(b),
             app' = [app EXCEPT ![p] = b], app[p].buried => b.buried,
             b.buried \/ StillHome(app[p], b)
      PROVE  HomesAreSafe'
  <2>1. b.buried \/ HomeIsSafe(b, session, strays, house)
    BY <1>0, <1>3, HomeSafeStays DEF HomesAreSafe
  <2> QED BY <1>2, <1>3, <2>1
<1>4. ASSUME NEW c \in calls, Session!Backend(c) PROVE HomesAreSafe'
  BY <1>1, <1>4, BackendApp
<1>5. ASSUME NEW p \in Phone, OnItsOwn(p) PROVE HomesAreSafe'
  <2>1. PICK b : Local(p, b) BY <1>5, Turning
  <2>2. b.buried \/ StillHome(app[p], b) BY <2>1 DEF Local, StillHome
  <2>3. UNCHANGED <<session, strays, house>> BY <1>5, Turning
  <2> QED BY <1>3, <2>1, <2>2, <2>3 DEF Local
<1>6. ASSUME NEW p \in Phone, Requests(p)
      PROVE  HomesAreSafe'
  <2>1. PICK b : app' = [app EXCEPT ![p] = b] /\ Sound(b) /\ Alike(app[p], b)
    BY <1>6, Requesting
  <2>2. StillHome(app[p], b) /\ b.buried = app[p].buried
    BY <2>1 DEF Alike, StillHome
  <2>3. UNCHANGED <<session, strays, house>> BY <1>6, Requesting
  <2> QED BY <1>3, <2>1, <2>2, <2>3
<1>7. ASSUME NEW p \in Phone, NEW u \in User, NEW op \in Session!Login,
             Session!Submit(p, op, u)
      PROVE  HomesAreSafe'
  <2>1. PICK b : /\ app' = [app EXCEPT ![p] = b] /\ Sound(b)
                 /\ b.page = app[p].page /\ b.buried = app[p].buried
    BY <1>7, Submitting
  <2>2. app[p].page = "auth" /\ UNCHANGED <<session, strays, house>>
    BY <1>7, Submitting
  <2> QED BY <1>3, <2>1, <2>2 DEF StillHome
<1>8. ASSUME NEW c \in calls, Session!Hear(c) PROVE HomesAreSafe'
  <2> DEFINE p == c.phone
             a == app[p]
  <2>0. p \in Phone /\ c \in Session!Call /\ Sound(a)
    BY CallFields, SoundApps DEF SessionTypes
  <2>1. PICK b : /\ b = Heard(c) /\ Sound(b) /\ app' = [app EXCEPT ![p] = b]
                 /\ a.buried => b.buried
    BY <1>8, Hearing
  <2>2. c.heard /\ c.step = "done" /\ UNCHANGED <<session, strays, house>>
    BY <1>8, Hearing
  <2>3. c.op \in Flow => a.buried \/ a.page = "auth"
    BY <2>2, CallsAre DEF HeardFlow, Waits
  <2>4. a.buried \/ FlowIsSafe(c, session, strays, a.cookie) BY DEF FlowsAreSafe
  <2>5. CASE a.buried BY <1>2, <2>0, <2>1, <2>2, <2>5
  <2>6. CASE ~a.buried /\ ~c.ok
    <3>1. b = Session!AfterFailure(a, c) BY <2>1, <2>6 DEF Heard
    <3> HIDE DEF p, a
    <3>2. b.buried \/ StillHome(a, b)
      BY <2>0, <2>3, <2>6, <3>1, Failing DEF StillHome, Leaves
    <3> QED BY <1>3, <2>0, <2>1, <2>2, <3>2 DEF a
  <2>7. CASE ~a.buried /\ c.ok /\ c.op \in Session!Login
    <3>1. b = Session!AfterSuccess(a, c) /\ c.op \in Flow BY <2>1, <2>7 DEF Flow, Heard
    <3> HIDE DEF p, a
    <3>2. b.page = "auth" BY <2>0, <2>3, <2>7, <3>1, Succeeding
    <3>3. StillHome(a, b) BY <3>2 DEF StillHome
    <3> QED BY <1>3, <2>0, <2>1, <2>2, <3>3 DEF a
  <2>8. CASE ~a.buried /\ c.ok /\ c.op \in {"whoami", "token"}
    <3>1. b = Session!AfterSuccess(a, c) /\ c.op \in Flow BY <2>1, <2>8 DEF Flow, Heard
    <3>2. Safe(session, strays, a.cookie, c.user)
      BY <2>2, <2>4, <2>8 DEF FlowIsSafe
    <3> HIDE DEF p, a
    <3>3. \/ b.page = "auth"
          \/ /\ b.page = "home" /\ b.who = c.user /\ b.cookie = a.cookie
             /\ b.fetch.sid = a.cookie /\ b.list = {} /\ b.fetch.lines = {}
      BY <2>0, <2>3, <2>8, <3>1, Succeeding
    <3>4. HomeIsSafe(b, session, strays, house) BY <3>2, <3>3 DEF HomeIsSafe
    <3> QED BY <1>2, <2>0, <2>1, <2>2, <3>4
  <2>9. CASE ~a.buried /\ c.ok /\ c.op \notin Flow
    <3>1. b = Session!AfterSuccess(a, c) BY <2>1, <2>9 DEF Heard
    <3> HIDE DEF p, a
    <3>2. b.buried \/ StillHome(a, b)
      BY <2>0, <2>9, <3>1, Succeeding DEF StillHome, Leaves
    <3> QED BY <1>3, <2>0, <2>1, <2>2, <3>2 DEF a
  <2> QED BY <2>5, <2>6, <2>7, <2>8, <2>9 DEF Flow
<1>9. ASSUME NEW c \in calls, Session!Lose(c) PROVE HomesAreSafe'
  <2>0. c.phone \in Phone /\ c \in Session!Call /\ Sound(app[c.phone])
    BY CallFields, SoundApps DEF SessionTypes
  <2>1. PICK b : /\ b = Session!AfterFailure(app[c.phone], c) /\ Sound(b)
                 /\ app' = [app EXCEPT ![c.phone] = b]
                 /\ app[c.phone].buried => b.buried
    BY <1>9, Losing
  <2>2. b.buried \/ StillHome(app[c.phone], b)
    BY <2>0, <2>1, Failing DEF StillHome, Leaves
  <2>3. UNCHANGED <<session, strays, house>> BY <1>9, Losing
  <2> QED BY <1>3, <2>0, <2>1, <2>2, <2>3
<1>10. ASSUME NEW p \in Phone, Session!Relaunch(p) PROVE HomesAreSafe'
  <2>1. PICK b : app' = [app EXCEPT ![p] = b] /\ Sound(b) /\ b.page = "auth"
    BY <1>10, Relaunching
  <2>2. UNCHANGED <<session, strays, house>> BY <1>10, Relaunching
  <2>3. HomeIsSafe(b, session, strays, house) BY <2>1 DEF HomeIsSafe
  <2> QED BY <1>2, <2>1, <2>2, <2>3
<1>11. CASE Session!Restart BY <1>1, <1>11, Restarting
<1>12. CASE UNCHANGED sessionVars BY <1>1, <1>12 DEF sessionVars
<1> QED BY <1>4, <1>5, <1>6, <1>7, <1>8, <1>9, <1>10, <1>11, <1>12, SessionSteps
    DEF FrontEnd

LEMMA SessionStep == SessionInv /\ [Session!Next]_sessionVars => SessionInv'
  BY SessionTypeStep, CallsStep, SidsStep, FlowsStep, HomesStep, HousesStep
  DEF SessionInv

LEMMA SessionInvIsSafe == SessionInv => HomeIsTheUsers
<1> SUFFICES ASSUME SessionInv PROVE Session!HomeIsTheUsers BY DEF HomeIsTheUsers
<1> SUFFICES ASSUME NEW p \in Phone, app[p].page = "home", ~app[p].buried
             PROVE  /\ \/ Session!Holder(app[p].cookie) \in {app[p].who, None}
                       \/ <<app[p].cookie, Session!Holder(app[p].cookie)>> \in strays
                    /\ \A l \in app[p].list :
                         \/ house[l.id].owner = app[p].who
                         \/ \E s \in strays : /\ s[2] = house[l.id].owner
                                               /\ app[p].cookie \in {s[1], None}
  BY DEF Session!HomeIsTheUsers
<1>1. HomeIsSafe(app[p], session, strays, house) BY DEF SessionInv, HomesAreSafe
<1> QED BY <1>1 DEF HomeIsSafe, Safe, OwnedBy, Session!Holder

----------------------------------------------------------------------------
(* The whole application.                                                  *)
MapInv == Types /\ SameObject /\ FingerHolds /\ TasksHold

LEMMA MapInit ==
  ASSUME NEW w \in Worlds, InitIn(w)
  PROVE  MapInv
<1> USE DEF InitIn
<1>1. /\ w.edit \in BOOLEAN /\ w.budget \in [Kinds -> Nat] /\ w.zones \in Nat
  BY DEF Worlds
<1>2. /\ tiles = <<>> /\ shown = <<>> /\ DOMAIN tiles = {} /\ DOMAIN shown = {}
  OBVIOUS
<1>3. RowsOK BY DEF RowsOK, Row
<1>4. ZonesOK /\ MapOK
  <2> DEFINE old(n) == [id |-> n, like |-> n, by |-> n, alarms |-> 0, hub |-> 0]
             f == [n \in 1 .. w.zones |-> old(n)]
  <2>1. zones = {old(n) : n \in 1 .. w.zones} OBVIOUS
  <2>2. zones \subseteq ZoneRow BY <1>1, <2>1 DEF ZoneRow
  <2>3. f \in Surjection(1 .. w.zones, zones) BY <2>1 DEF Surjection
  <2>4. IsFiniteSet(1 .. w.zones) BY <1>1, FS_Interval
  <2> HIDE DEF f
  <2>5. IsFiniteSet(zones) BY <2>3, <2>4, FS_Surjection
  <2> QED BY <1>1, <2>2, <2>5, EmptyList DEF ZonesOK, MapOK, ZoneList
<1>5. TilesOK BY <1>2 DEF TilesOK
<1>6. ModeOK BY <1>1 DEF ModeOK, Modes
<1>7. DrawingOK /\ TasksOK /\ TodoOK BY <1>1 DEF DrawingOK, TasksOK, TodoOK
<1>8. FingerOK /\ FingerHolds BY Resting DEF FingerOK, FingerHolds
<1>9. FetchOK BY NewFetches DEF FetchOK
<1>10. SameObject BY <1>2 DEF SameObject
<1>11. TasksHold
  <2>1. ZonesHold BY <1>1 DEF ZonesHold
  <2> QED BY <2>1, Resting DEF TasksHold, SavesHold, NamesHold, DeletesHold
<1> QED BY <1>3, <1>4, <1>5, <1>6, <1>7, <1>8, <1>9, <1>10, <1>11 DEF MapInv, Types

LEMMA MapStep == MapInv /\ [Next]_vars => MapInv'
  BY TypeStep, ObjectStep, TasksStep DEF MapInv

LEMMA SessionInit ==
  ASSUME NEW w \in Session!SessionWorlds, Session!InitIn(w)
  PROVE  SessionInv
<1> USE DEF Session!InitIn
<1>1. /\ w.accounts \subseteq User /\ w.granted \subseteq Phone
      /\ w.budget \in Session!Budget
  BY DEF Session!SessionWorlds
<1>2. ASSUME NEW p \in Phone
      PROVE  /\ app[p] \in Session!App /\ app[p].page = "auth"
             /\ app[p].below = <<>>
             /\ app[p].cookie = None /\ app[p].fetch.sid = None
  <2>1. app[p] = Session!Launched(None, 0) OBVIOUS
  <2>2. None \in Session!Sid \cup {None} /\ 0 \in Nat OBVIOUS
  <2> HIDE DEF Session!InitIn
  <2> QED BY <2>1, <2>2, Launching
<1>3. StoreOK BY <1>1, SessionAssumption DEF StoreOK
<1>4. HousesOK BY DEF HousesOK, Session!Row
<1>5. AppsOK BY <1>2 DEF AppsOK
<1>6. CallsOK /\ LeftOK BY <1>1 DEF CallsOK, LeftOK
<1>7. CallsHold /\ FlowsAreSafe BY DEF CallsHold, FlowsAreSafe
<1>8. SidsApart
  <2>1. None \notin Session!Sid BY NoneAssumption
  <2> QED BY <1>2, <2>1 DEF SidsApart, Carries
<1>9. HomesAreSafe BY <1>2 DEF HomesAreSafe, HomeIsSafe
<1>10. HousesHold BY DEF HousesHold
<1> QED BY <1>3, <1>4, <1>5, <1>6, <1>7, <1>8, <1>9, <1>10 DEF SessionInv, SessionTypes

IInv == MapInv /\ SessionInv

LEMMA InitIInv == AppInit => IInv
<1> SUFFICES ASSUME AppInit PROVE IInv OBVIOUS
<1>1. CASE /\ \E w \in SessionWorld : Session!InitIn(w)
           /\ InitIn([tiles |-> {}, zones |-> 0, edit |-> FALSE,
                     budget |-> [k \in Kinds |-> 0]])
  <2> DEFINE w == [tiles |-> {}, zones |-> 0, edit |-> FALSE, budget |-> [k \in Kinds |-> 0]]
  <2>1. w \in Worlds BY DEF Worlds
  <2> HIDE DEF w
  <2>2. MapInv BY <1>1, <2>1, MapInit DEF w
  <2> QED BY <1>1, <2>2, SessionInit, SessionAssumption DEF IInv
<1>2. CASE (\E w \in MapWorld : InitIn(w)) /\ Session!Closed
  <2> DEFINE w == [accounts |-> {}, granted |-> {},
                   budget |-> [logins |-> 0, opens |-> 0, edits |-> 0, faults |-> 0,
                               restarts |-> 0]]
  <2>1. w \in Session!SessionWorlds BY DEF Session!SessionWorlds, Session!Budget
  <2> HIDE DEF w
  <2>2. SessionInv BY <1>2, <2>1, SessionInit DEF Session!Closed, w
  <2> QED BY <1>2, <2>2, MapInit, WorldAssumption DEF IInv
<1> QED BY <1>1, <1>2 DEF AppInit

LEMMA IInvHolds == AppSpec => []IInv
<1>1. IInv /\ [AppNext]_appVars => IInv'
  <2>1. [AppNext]_appVars => [Next]_vars /\ [Session!Next]_sessionVars
    BY DEF AppNext, OnSession, OnMap, appVars
  <2> QED BY <2>1, MapStep, SessionStep DEF IInv
<1> QED BY <1>1, InitIInv, PTL DEF AppSpec

(* The rows, the tiles, the calls and what else the application and the    *)
(* backend keep have the form the code gives them.                         *)
THEOREM TypesHold == AppSpec => []AppTypeOK
<1>1. IInv => AppTypeOK
  BY TypesAreTypes, SessionTypesAreTypes DEF IInv, MapInv, SessionInv, AppTypeOK
<1> QED BY <1>1, IInvHolds, PTL

(* What the fingers did is what reaches the database                       *)
(* (greenhouse_view.dart:415-497, 856-942, 1122-1192).                     *)
THEOREM EditsReachTheDatabase == AppSpec => []EditsAreExact
<1>1. IInv => EditsAreExact
  BY DEF IInv, MapInv, TasksHold, SavesHold, ZonesHold, DeletesHold, EditsAreExact
<1> QED BY <1>1, IInvHolds, PTL

(* The page of a user is in the user's session or in none and shows the    *)
(* user's greenhouses, unless a login nobody listened to any more was      *)
(* carried out in the session of the page, or the answer to a logout left  *)
(* a home page below the one for logging in (home_page.dart:45-49,         *)
(* users.js:50-90).                                                        *)
THEOREM HomesBelongToTheirUsers == AppSpec => []HomeIsTheUsers
<1>1. IInv => HomeIsTheUsers BY SessionInvIsSafe DEF IInv
<1> QED BY <1>1, IInvHolds, PTL
=============================================================================
