--------------------------- MODULE RegulatorProofs ---------------------------
(***************************************************************************)
(* Theorems about the zone table and the scan over it, for any table size, *)
(* any number of devices and any answers of the server.                    *)
(*                                                                         *)
(* That an answer is installed when its last store is done needs to be     *)
(* known of every store before (Installing): the zones before the one that *)
(* is being written are complete, and of that one the fields and lists     *)
(* before the next store, and of a slot being reset or given its id the    *)
(* words stored so far.  A command's id is that of a table entry, and      *)
(* whatever the interleaving, an id of the table is 0 or one that an       *)
(* answer lists, in the slot being stored perhaps with a half still 0, or  *)
(* 0 again (ListedIds).  For a scan that is left alone the commands   *)
(* queued are those of the places it has passed (Scanning).                *)
(***************************************************************************)
EXTENDS Regulator, SequenceTheorems, TLAPS

Shape ==
  /\ pos # Idle =>
       /\ pos.i <= Listed(answer)
       /\ pos.field \in {"id", "up", "down"} => pos.j <= Fitting(Devices(answer, pos))
  /\ regulator \in {"device", "print", "send"} => zNum <= NumZones
  /\ regulator \in {"print", "send"} => dev <= NumDevices

Types == TypeOK /\ Shape

(* A zone z of the table that is being given the answer's zone w, when the  *)
(* next store is to field f of list t and slot j.                          *)
Filled(row, list, j) ==
  /\ \A s \in 1..(j - 1) : row[s] = list[s]
  /\ \A s \in (j + 1)..Slots : row[s] = NoEndDevice

Lists(z, w, t) == \A u \in 1..(t - 1) : z.devs[Kind[u]] = Row(w.devs[Kind[u]])

(* A slot d whose reset has the words L left to store, and one whose id,    *)
(* that of device e, has.                                                  *)
Cleared(d, L) ==
  /\ "low" \notin L => d.low = 0
  /\ "high" \notin L => d.high = 0
  /\ "up" \notin L => d.up = 0
  /\ "down" \notin L => d.down = 0

Identified(d, e, L) ==
  /\ d.low = IF "low" \in L THEN 0 ELSE e.low
  /\ d.high = IF "high" \in L THEN 0 ELSE e.high

Written(z, w, f, t, j, L) ==
  LET row == z.devs[Kind[t]]  list == w.devs[Kind[t]]
  IN  /\ f # "zoneID" => z.zoneID = w.zoneID
      /\ f = "reading" =>
           \A u \in 1..(t - 1) : z.reading[Kind[u]] = w.reading[Kind[u]]
      /\ f \in {"reset", "id", "up", "down"} => z.reading = w.reading /\ Lists(z, w, t)
      /\ f = "reset" => /\ \A s \in 1..(j - 1) : row[s] = NoEndDevice
                        /\ Cleared(row[j], L)
      /\ f \in {"id", "up", "down"} => Filled(row, list, j)
      /\ f = "id" => Identified(row[j], list[j], L)
      /\ f \in {"up", "down"} => Identified(row[j], list[j], {})
      /\ f = "down" => row[j].up = list[j].up

Installing ==
  /\ AnswerInstalled
  /\ pos # Idle =>
       /\ \A i \in 1..(pos.i - 1) : Holds(i)
       /\ Written(zones[pos.i], answer[pos.i], pos.field, pos.t, pos.j, pos.left)

(* Every id of the table is 0 or listed, but for the slot that is being    *)
(* reset or given its id, where halves may be 0; and so is the command's.  *)
Loose(i, k, s) ==
  pos.field \in {"reset", "id"} /\ pos.i = i /\ Kind[pos.t] = k /\ pos.j = s

Gaps(i, k, s) == IF Loose(i, k, s) THEN {0} ELSE {}

TableIds ==
  \A i \in 1..NumZones, k \in KindName : \A s \in 1..Slots :
    Unused(zones[i].devs[k][s]) \/ ListedId(k, zones[i].devs[k][s], Gaps(i, k, s))

PrintingBranch ==
  regulator = "print" =>
    Prints(Kind[kind], msgTx.code) /\ ListedId(Kind[kind], msgTx, {0})

ListedIds == TableIds /\ PrintingBranch /\ AddressesAreListed

(* The places the scan has passed, and that what it queued is what they    *)
(* ask for.                                                                *)
Before(p) ==
  \/ p[1] < zNum
  \/ p[1] = zNum /\ regulator # "zone" /\ (p[2] < kind \/ (p[2] = kind /\ p[3] < dev))

Demanding(p) == Used(p[1]) /\ Visited(p[1], p[2], p[3])

AskedAt(p) == Asked(p[1], p[2], p[3])

ScannedSoFar ==
  /\ \A p \in Place : Before(p) /\ Demanding(p) => AskedAt(p) \subseteq scanned
  /\ \A c \in scanned : \E p \in Place : Before(p) /\ Demanding(p) /\ c \in AskedAt(p)

InZone ==
  /\ zones[zNum].zoneID # 0
  /\ \A r \in 1..(dev - 1) : ~Unused(zones[zNum].devs[Kind[kind]][r])

Scanning ==
  quiet =>
    /\ pos = Idle
    /\ regulator # "sleep" => ScannedSoFar /\ \A h \in 1..(zNum - 1) : zones[h].zoneID # 0
    /\ regulator \in {"device", "print", "send"} => InZone
    /\ regulator \in {"print", "send"} =>
         ~Unused(EndDevice) /\ AskedAt(<<zNum, kind, dev>>) = {msgTx}

IInv == Types /\ Installing /\ ListedIds /\ Scanning
-------------------------------------------------------------------------------
ZoneRow == [zoneID : Nat, reading : [KindName -> Int],
            devs : [KindName -> [1..Slots -> DeviceRow]]]

LEMMA Kinds ==
  /\ \A t \in 1..3 : Kind[t] \in KindName
  /\ \A k \in KindName : \E t \in 1..3 : Kind[t] = k
  /\ \A t, u \in 1..3 : Kind[t] = Kind[u] => t = u
BY DEF Kind, KindName

LEMMA Sizes ==
  /\ NumZones \in Nat \ {0} /\ Slots \in Nat \ {0} /\ NumDevices \in Nat \ {0}
  /\ NumDevices <= Slots /\ TxCap \in Nat \ {0}
BY SizeAssumption

LEMMA Tables ==
  ASSUME TypeOK
  PROVE  /\ zones \in [1..NumZones -> ZoneRow]
         /\ \A i \in 1..NumZones :
              /\ zones[i].zoneID \in Nat /\ zones[i].reading \in [KindName -> Int]
              /\ zones[i].devs \in [KindName -> [1..Slots -> DeviceRow]]
         /\ \A i \in 1..NumZones, t \in 1..3 :
              /\ zones[i].reading[Kind[t]] \in Int
              /\ zones[i].devs[Kind[t]] \in [1..Slots -> DeviceRow]
<1>1. zones \in [1..NumZones -> ZoneRow] BY DEF TypeOK, ZoneRow
<1>2. \A i \in 1..NumZones :
        /\ zones[i].zoneID \in Nat /\ zones[i].reading \in [KindName -> Int]
        /\ zones[i].devs \in [KindName -> [1..Slots -> DeviceRow]]
  BY <1>1 DEF ZoneRow
<1>3. \A i \in 1..NumZones, t \in 1..3 :
        /\ zones[i].reading[Kind[t]] \in Int
        /\ zones[i].devs[Kind[t]] \in [1..Slots -> DeviceRow]
  BY <1>2, Kinds
<1> QED BY <1>1, <1>2, <1>3

(* What httpGetFullZones finds in an answer.                               *)
LEMMA AnswerFacts ==
  ASSUME NEW a \in Answers \cup {<<>>}
  PROVE  /\ Listed(a) \in 0..NumZones
         /\ \A i \in 1..Listed(a) :
              /\ i \in 1..Len(a) /\ a \in Answers
              /\ a[i].zoneID \in Nat /\ a[i].reading \in [KindName -> Int]
              /\ \A k \in KindName :
                   /\ a[i].devs[k] \in Seq(DeviceRow) /\ Len(a[i].devs[k]) \in Nat
                   /\ Fitting(a[i].devs[k]) \in 0..Slots
                   /\ Fitting(a[i].devs[k]) <= Len(a[i].devs[k])
                   /\ \A s \in 1..Len(a[i].devs[k]) : a[i].devs[k][s] \in DeviceRow
<1>1. a \in Seq(AnswerZone) /\ Len(a) \in Nat
  BY AnswerAssumption, EmptySeq, LenProperties
<1>2. Listed(a) \in 0..NumZones /\ \A i \in 1..Listed(a) : i \in 1..Len(a)
  BY <1>1, Sizes DEF Listed
<1>3. ASSUME NEW i \in 1..Listed(a) PROVE a[i] \in AnswerZone /\ a \in Answers
  <2>1. a # <<>> BY <1>1, <1>2, EmptySeq
  <2> QED BY <1>1, <1>2, <2>1, ElementOfSeq
<1>4. ASSUME NEW i \in 1..Listed(a), NEW k \in KindName
      PROVE  /\ a[i].devs[k] \in Seq(DeviceRow) /\ Len(a[i].devs[k]) \in Nat
             /\ Fitting(a[i].devs[k]) \in 0..Slots
             /\ Fitting(a[i].devs[k]) <= Len(a[i].devs[k])
             /\ \A s \in 1..Len(a[i].devs[k]) : a[i].devs[k][s] \in DeviceRow
  <2> DEFINE list == a[i].devs[k]
  <2>1. list \in Seq(DeviceRow) BY <1>3 DEF AnswerZone
  <2> HIDE DEF list
  <2>2. Len(list) \in Nat /\ \A s \in 1..Len(list) : list[s] \in DeviceRow
    BY <2>1, LenProperties, ElementOfSeq
  <2>3. Fitting(list) \in 0..Slots /\ Fitting(list) <= Len(list)
    BY <2>2, Sizes DEF Fitting
  <2> QED BY <2>1, <2>2, <2>3 DEF list
<1>5. \A i \in 1..Listed(a) : a[i].zoneID \in Nat /\ a[i].reading \in [KindName -> Int]
  BY <1>3, Zenon DEF AnswerZone
<1> QED BY <1>2, <1>3, <1>4, <1>5

(* Where httpGetFullZones stands while it has stores to make.              *)
LEMMA Positions ==
  ASSUME Types, pos # Idle
  PROVE  /\ pos.field \in {"zoneID", "reading", "reset", "id", "up", "down"}
         /\ pos.left \subseteq Words(pos.field)
         /\ pos.i \in 1..NumZones /\ pos.i \in 1..Listed(answer)
         /\ pos.t \in 1..3 /\ pos.j \in 1..Slots /\ Kind[pos.t] \in KindName
         /\ answer \in Answers
         /\ answer[pos.i].zoneID \in Nat /\ answer[pos.i].reading \in [KindName -> Int]
         /\ Devices(answer, pos) = answer[pos.i].devs[Kind[pos.t]]
         /\ Len(Devices(answer, pos)) \in Nat
         /\ Fitting(Devices(answer, pos)) \in 0..Slots
         /\ Fitting(Devices(answer, pos)) <= Len(Devices(answer, pos))
         /\ \A s \in 1..Len(Devices(answer, pos)) : Devices(answer, pos)[s] \in DeviceRow
         /\ pos.field \in {"id", "up", "down"} =>
              pos.j \in 1..Len(Devices(answer, pos))
<1>1. /\ pos.field \in {"zoneID", "reading", "reset", "id", "up", "down"}
      /\ pos.left \subseteq Words(pos.field)
      /\ pos.i \in 1..NumZones /\ pos.t \in 1..3 /\ pos.j \in 1..Slots
      /\ answer \in Answers \cup {<<>>}
  BY DEF Types, TypeOK, Position
<1>2. pos.i <= Listed(answer) /\ Listed(answer) \in 0..NumZones
  BY <1>1, AnswerFacts DEF Types, Shape
<1>3. pos.i \in 1..Listed(answer) BY <1>1, <1>2
<1>4. Kind[pos.t] \in KindName BY <1>1, Kinds
<1>5. /\ answer \in Answers
      /\ answer[pos.i].zoneID \in Nat /\ answer[pos.i].reading \in [KindName -> Int]
      /\ Len(Devices(answer, pos)) \in Nat
      /\ Fitting(Devices(answer, pos)) \in 0..Slots
      /\ Fitting(Devices(answer, pos)) <= Len(Devices(answer, pos))
      /\ \A s \in 1..Len(Devices(answer, pos)) : Devices(answer, pos)[s] \in DeviceRow
  BY <1>1, <1>3, <1>4, AnswerFacts DEF Devices
<1>6. pos.field \in {"id", "up", "down"} => pos.j \in 1..Len(Devices(answer, pos))
  BY <1>1, <1>5, Sizes DEF Types, Shape
<1> QED BY <1>1, <1>3, <1>4, <1>5, <1>6, Zenon DEF Devices

(* A list of the table in which every slot is right.                       *)
LEMMA ListComplete ==
  ASSUME NEW list \in Seq(DeviceRow), NEW row \in [1..Slots -> DeviceRow],
         \A s \in 1..Fitting(list) : row[s] = list[s],
         \A s \in (Fitting(list) + 1)..Slots : row[s] = NoEndDevice
  PROVE  row = Row(list)
<1>1. Len(list) \in Nat BY LenProperties
<1>2. \A s \in 1..Slots : row[s] = Row(list)[s] BY <1>1, Sizes DEF Row, Fitting
<1>3. Row(list) = [s \in 1..Slots |-> Row(list)[s]] BY DEF Row
<1> QED BY <1>2, <1>3

(* A zone of the table in which every field and list is right.             *)
LEMMA ZoneComplete ==
  ASSUME NEW z \in ZoneRow, NEW w,
         z.zoneID = w.zoneID, z.reading = w.reading,
         \A t \in 1..3 : z.devs[Kind[t]] = Row(w.devs[Kind[t]])
  PROVE  z = [zoneID  |-> w.zoneID, reading |-> w.reading,
              devs    |-> [k \in KindName |-> Row(w.devs[k])]]
<1>1. z.devs \in [KindName -> [1..Slots -> DeviceRow]] BY DEF ZoneRow
<1>2. \A k \in KindName : z.devs[k] = Row(w.devs[k]) BY Kinds
<1>3. z.devs = [k \in KindName |-> Row(w.devs[k])] BY <1>1, <1>2
<1>4. z = [zoneID |-> z.zoneID, reading |-> z.reading, devs |-> z.devs] BY DEF ZoneRow
<1> QED BY <1>3, <1>4
-------------------------------------------------------------------------------
(* The stores.                                                             *)

(* A store changes one zone, and of that zone one field or one slot.       *)
OnlyZone(z) ==
  /\ z \in ZoneRow
  /\ zones' \in [1..NumZones -> ZoneRow] /\ zones'[pos.i] = z
  /\ \A i \in 1..NumZones \ {pos.i} : zones'[i] = zones[i]

OnlySlot(d) ==
  /\ d \in DeviceRow
  /\ OnlyZone(zones'[pos.i])
  /\ zones'[pos.i].zoneID = zones[pos.i].zoneID
  /\ zones'[pos.i].reading = zones[pos.i].reading
  /\ \A t \in 1..3 \ {pos.t} :
       zones'[pos.i].devs[Kind[t]] = zones[pos.i].devs[Kind[t]]
  /\ zones'[pos.i].devs[Kind[pos.t]] \in [1..Slots -> DeviceRow]
  /\ zones'[pos.i].devs[Kind[pos.t]][pos.j] = d
  /\ \A s \in 1..Slots \ {pos.j} :
       zones'[pos.i].devs[Kind[pos.t]][s] = zones[pos.i].devs[Kind[pos.t]][s]

LEMMA FieldWords ==
  /\ Words("zoneID") = {"zoneID"} /\ Words("reading") = {"reading"}
  /\ Words("reset") = {"low", "high", "up", "down"}
  /\ Words("id") = {"low", "high"}
  /\ Words("up") = {"up"} /\ Words("down") = {"down"} /\ Words("none") = {}
BY DEF Words

LEMMA WordsAreWords ==
  ASSUME NEW f \in {"zoneID", "reading", "reset", "id", "up", "down"}
  PROVE  Words(f) \in (SUBSET Word) \ {{}}
<1>1. /\ {"zoneID"} \subseteq Word /\ {"reading"} \subseteq Word /\ {"up"} \subseteq Word
      /\ {"down"} \subseteq Word /\ {"low", "high"} \subseteq Word
      /\ {"low", "high", "up", "down"} \subseteq Word
  BY DEF Word
<1>2. Words(f) \subseteq Word BY <1>1, FieldWords
<1>3. Words(f) # {}
  <2>1. \/ "zoneID" \in Words(f) \/ "reading" \in Words(f) \/ "low" \in Words(f)
        \/ "up" \in Words(f) \/ "down" \in Words(f)
    BY FieldWords
  <2> QED BY <2>1
<1> QED BY <1>2, <1>3

(* A word is stored only while an answer is, and is one of the field's.    *)
LEMMA Storing ==
  ASSUME Types, NEW w, StoreWord(w)
  PROVE  /\ pos # Idle /\ answer' = answer /\ w \in pos.left /\ w \in Words(pos.field)
         /\ pos.left = {w} => pos' = After(answer, pos)
         /\ pos.field \notin {"reset", "id"} => pos.left = {w}
<1>1. w \in pos.left /\ answer' = answer BY DEF StoreWord
<1>2. Idle.left = {} BY FieldWords DEF Idle, At
<1>3. pos # Idle BY <1>1, <1>2
<1>4. /\ pos.left \subseteq Words(pos.field)
      /\ pos.field \in {"zoneID", "reading", "reset", "id", "up", "down"}
  BY <1>3, Positions
<1>5. pos.left = {w} => pos' = After(answer, pos) BY DEF StoreWord
<1>6. pos.field \notin {"reset", "id"} => pos.left = {w} BY <1>1, <1>4, FieldWords
<1> QED BY <1>1, <1>3, <1>4, <1>5, <1>6

LEMMA StoresZoneID ==
  ASSUME Types, NEW w, StoreWord(w), pos.field = "zoneID"
  PROVE  OnlyZone([zones[pos.i] EXCEPT !.zoneID = answer[pos.i].zoneID])
<1>1. pos # Idle BY Storing
<1>2. pos.i \in 1..NumZones /\ answer[pos.i].zoneID \in Nat BY <1>1, Positions
<1>3. zones \in [1..NumZones -> ZoneRow] BY Tables DEF Types
<1>4. zones' = [zones EXCEPT ![pos.i].zoneID = answer[pos.i].zoneID]
  BY DEF StoreWord, Stored
<1>5. [zones[pos.i] EXCEPT !.zoneID = answer[pos.i].zoneID] \in ZoneRow
  BY <1>2, <1>3 DEF ZoneRow
<1> QED BY <1>2, <1>3, <1>4, <1>5 DEF OnlyZone

LEMMA StoresReading ==
  ASSUME Types, NEW w, StoreWord(w), pos.field = "reading"
  PROVE  OnlyZone([zones[pos.i] EXCEPT !.reading =
                     [zones[pos.i].reading EXCEPT ![Kind[pos.t]] =
                        answer[pos.i].reading[Kind[pos.t]]]])
<1>1. pos # Idle BY Storing
<1>2. /\ pos.i \in 1..NumZones /\ Kind[pos.t] \in KindName
      /\ answer[pos.i].reading \in [KindName -> Int]
  BY <1>1, Positions
<1>3. zones \in [1..NumZones -> ZoneRow] BY Tables DEF Types
<1>4. zones' = [zones EXCEPT ![pos.i].reading[Kind[pos.t]] =
                  answer[pos.i].reading[Kind[pos.t]]]
  BY DEF StoreWord, Stored
<1>5. [zones[pos.i] EXCEPT !.reading =
         [zones[pos.i].reading EXCEPT ![Kind[pos.t]] =
            answer[pos.i].reading[Kind[pos.t]]]] \in ZoneRow
  BY <1>2, <1>3 DEF ZoneRow
<1> QED BY <1>2, <1>3, <1>4, <1>5 DEF OnlyZone

(* What becomes of the slot.                                               *)
NewSlot(w) == SlotStored(zones[pos.i].devs[Kind[pos.t]][pos.j], answer, pos, w)

OldSlot == zones[pos.i].devs[Kind[pos.t]][pos.j]

(* One word of it is the new content's, the others are what they were.     *)
LEMMA SlotWords ==
  ASSUME Types, NEW w, StoreWord(w), pos.field \in {"reset", "id", "up", "down"}
  PROVE  /\ NewSlot(w) \in DeviceRow /\ OldSlot \in DeviceRow
         /\ NewContent(answer, pos) \in DeviceRow
         /\ w = "low" => NewSlot(w).low = NewContent(answer, pos).low
         /\ w = "high" => NewSlot(w).high = NewContent(answer, pos).high
         /\ w = "up" => NewSlot(w).up = NewContent(answer, pos).up
         /\ w = "down" => NewSlot(w).down = NewContent(answer, pos).down
         /\ w # "low" => NewSlot(w).low = OldSlot.low
         /\ w # "high" => NewSlot(w).high = OldSlot.high
         /\ w # "up" => NewSlot(w).up = OldSlot.up
         /\ w # "down" => NewSlot(w).down = OldSlot.down
<1>1. PICK c, d, old : /\ c = NewContent(answer, pos) /\ d = NewSlot(w) /\ old = OldSlot
  OBVIOUS
<1>2. /\ pos.i \in 1..NumZones /\ pos.t \in 1..3 /\ pos.j \in 1..Slots
      /\ pos.field \in {"id", "up", "down"} => Devices(answer, pos)[pos.j] \in DeviceRow
  BY Storing, Positions
<1>3. old \in DeviceRow
  <2>1. zones[pos.i].devs[Kind[pos.t]] \in [1..Slots -> DeviceRow]
    BY <1>2, Tables DEF Types
  <2> QED BY <1>1, <1>2, <2>1 DEF OldSlot
<1>4. c \in DeviceRow
  <2>1. NoEndDevice \in DeviceRow BY DEF NoEndDevice, DeviceRow
  <2> QED BY <1>1, <1>2, <2>1 DEF NewContent
<1>5. w = "low" \/ w = "high" \/ w = "up" \/ w = "down" BY Storing, FieldWords
<1>6. d = SlotStored(old, answer, pos, w) BY <1>1 DEF NewSlot, OldSlot
<1>7. /\ d \in DeviceRow
      /\ (w = "low" => d.low = c.low) /\ (w # "low" => d.low = old.low)
      /\ (w = "high" => d.high = c.high) /\ (w # "high" => d.high = old.high)
      /\ (w = "up" => d.up = c.up) /\ (w # "up" => d.up = old.up)
      /\ (w = "down" => d.down = c.down) /\ (w # "down" => d.down = old.down)
  <2>1. CASE w = "low"
    <3>1. d = [old EXCEPT !.low = c.low] BY <1>1, <1>6, <2>1 DEF SlotStored
    <3>2. /\ d \in DeviceRow /\ d.low = c.low
          /\ d.high = old.high /\ d.up = old.up /\ d.down = old.down
      BY <1>3, <1>4, <3>1 DEF DeviceRow
    <3> QED BY <2>1, <3>2
  <2>2. CASE w = "high"
    <3>1. d = [old EXCEPT !.high = c.high] BY <1>1, <1>6, <2>2 DEF SlotStored
    <3>2. /\ d \in DeviceRow /\ d.high = c.high
          /\ d.low = old.low /\ d.up = old.up /\ d.down = old.down
      BY <1>3, <1>4, <3>1 DEF DeviceRow
    <3> QED BY <2>2, <3>2
  <2>3. CASE w = "up"
    <3>1. d = [old EXCEPT !.up = c.up] BY <1>1, <1>6, <2>3 DEF SlotStored
    <3>2. /\ d \in DeviceRow /\ d.up = c.up
          /\ d.low = old.low /\ d.high = old.high /\ d.down = old.down
      BY <1>3, <1>4, <3>1 DEF DeviceRow
    <3> QED BY <2>3, <3>2
  <2>4. CASE w = "down"
    <3>1. d = [old EXCEPT !.down = c.down] BY <1>1, <1>6, <2>4 DEF SlotStored
    <3>2. /\ d \in DeviceRow /\ d.down = c.down
          /\ d.low = old.low /\ d.high = old.high /\ d.up = old.up
      BY <1>3, <1>4, <3>1 DEF DeviceRow
    <3> QED BY <2>4, <3>2
  <2> QED BY <1>5, <2>1, <2>2, <2>3, <2>4
<1> QED BY <1>1, <1>3, <1>4, <1>7

LEMMA StoresSlot ==
  ASSUME Types, NEW w, StoreWord(w), pos.field \in {"reset", "id", "up", "down"}
  PROVE  OnlySlot(NewSlot(w))
<1> DEFINE z == zones[pos.i]
           k == Kind[pos.t]
           row == z.devs[k]
           new == [row EXCEPT ![pos.j] = NewSlot(w)]
           zone == [z EXCEPT !.devs = [z.devs EXCEPT ![k] = new]]
<1>1. pos # Idle /\ w \in Words(pos.field) BY Storing
<1>2. /\ pos.i \in 1..NumZones /\ k \in KindName /\ pos.t \in 1..3 /\ pos.j \in 1..Slots
      /\ pos.field \in {"id", "up", "down"} => Devices(answer, pos)[pos.j] \in DeviceRow
  BY <1>1, Positions
<1>3. /\ zones \in [1..NumZones -> ZoneRow] /\ z \in ZoneRow
      /\ z.devs \in [KindName -> [1..Slots -> DeviceRow]]
      /\ row \in [1..Slots -> DeviceRow] /\ row[pos.j] \in DeviceRow
  <2>1. zones \in [1..NumZones -> ZoneRow] /\ z \in ZoneRow BY <1>2, Tables DEF Types
  <2>2. row \in [1..Slots -> DeviceRow] BY <1>2, Tables DEF Types
  <2> QED BY <1>2, <2>1, <2>2 DEF ZoneRow
<1>4. NewSlot(w) \in DeviceRow BY SlotWords
<1>5. zones' = [zones EXCEPT ![pos.i] = zone]
  <2>1. pos.field # "zoneID" /\ pos.field # "reading" OBVIOUS
  <2> QED BY <2>1 DEF StoreWord, Stored, NewSlot
<1>6. new \in [1..Slots -> DeviceRow] BY <1>2, <1>3, <1>4
<1>7. /\ new[pos.j] = NewSlot(w) /\ \A s \in 1..Slots \ {pos.j} : new[s] = row[s]
  BY <1>2, <1>3
<1> HIDE DEF new
<1>8. [z.devs EXCEPT ![k] = new] \in [KindName -> [1..Slots -> DeviceRow]]
  BY <1>2, <1>3, <1>6
<1>9. /\ zone \in ZoneRow /\ zone.zoneID = z.zoneID /\ zone.reading = z.reading
      /\ zone.devs = [z.devs EXCEPT ![k] = new]
  BY <1>3, <1>8 DEF ZoneRow
<1>10. zone.devs[k] = new /\ \A m \in KindName \ {k} : zone.devs[m] = z.devs[m]
  BY <1>2, <1>3, <1>9
<1>11. \A t \in 1..3 \ {pos.t} : Kind[t] \in KindName \ {k} BY <1>2, Kinds
<1> HIDE DEF zone
<1>12. OnlyZone(zone) /\ zones'[pos.i] = zone BY <1>2, <1>3, <1>5, <1>9 DEF OnlyZone
<1> QED BY <1>4, <1>6, <1>7, <1>9, <1>10, <1>11, <1>12 DEF OnlySlot
-------------------------------------------------------------------------------
(* httpGetFullZones goes on to field f of list t, slot j, of zone i.       *)
Going(f, i, t, j) ==
  /\ f \in {"zoneID", "reading", "reset", "id", "up", "down"}
  /\ i \in 1..Listed(answer) /\ t \in 1..3 /\ j \in 1..Slots
  /\ f \in {"id", "up", "down"} => j <= Fitting(answer[i].devs[Kind[t]])
  /\ pos' = At(f, i, t, j)

(* It stays where it is, with fewer words to store.                        *)
Staying(L) == L # {} /\ L \subseteq pos.left /\ pos' = [pos EXCEPT !.left = L]

PosTypes == pos \in Position

PosShape ==
  pos # Idle =>
    /\ pos.i <= Listed(answer)
    /\ pos.field \in {"id", "up", "down"} => pos.j <= Fitting(Devices(answer, pos))

LEMMA Goes ==
  ASSUME Types, answer' = answer, NEW f, NEW i, NEW t, NEW j, Going(f, i, t, j),
         \A h \in 1..(i - 1) : Holds(h)', Written(zones'[i], answer[i], f, t, j, Words(f))
  PROVE  PosTypes' /\ PosShape' /\ Installing'
<1>1. /\ f \in {"zoneID", "reading", "reset", "id", "up", "down"}
      /\ i \in 1..Listed(answer) /\ t \in 1..3 /\ j \in 1..Slots
  BY DEF Going
<1>2. Listed(answer) \in 0..NumZones /\ NumZones \in Nat
  BY AnswerFacts, Sizes DEF Types, TypeOK
<1>3. pos' = [field |-> f, i |-> i, t |-> t, j |-> j, left |-> Words(f)]
  BY DEF Going, At
<1>4. pos'.field = f /\ pos'.i = i /\ pos'.t = t /\ pos'.j = j /\ pos'.left = Words(f)
  BY <1>3
<1>5. PosTypes'
  <2>1. i \in 1..NumZones BY <1>1, <1>2
  <2>2. Words(f) \in (SUBSET Word) \ {{}} BY <1>1, WordsAreWords
  <2> QED BY <1>1, <1>3, <2>1, <2>2 DEF PosTypes, Position
<1>6. pos' # Idle
  <2>1. Idle.field = "none" BY DEF Idle, At
  <2> QED BY <1>1, <1>4, <2>1
<1>7. Devices(answer', pos') = answer[i].devs[Kind[t]] BY <1>4 DEF Devices
<1>8. PosShape' BY <1>1, <1>2, <1>4, <1>7 DEF PosShape, Going
<1>9. Installing' BY <1>4, <1>6 DEF Installing, AnswerInstalled
<1> QED BY <1>5, <1>8, <1>9

LEMMA Stays ==
  ASSUME Types, pos # Idle, answer' = answer, NEW L, Staying(L),
         \A h \in 1..(pos.i - 1) : Holds(h)',
         Written(zones'[pos.i], answer[pos.i], pos.field, pos.t, pos.j, L)
  PROVE  PosTypes' /\ PosShape' /\ Installing'
<1>1. /\ pos \in [field : {"zoneID", "reading", "reset", "id", "up", "down"},
                 i : 1..NumZones, t : 1..3, j : 1..Slots, left : (SUBSET Word) \ {{}}]
      /\ pos.left \subseteq Words(pos.field)
  BY DEF Types, TypeOK, Position
<1>2. L \in (SUBSET Word) \ {{}} /\ L \subseteq Words(pos.field) BY <1>1 DEF Staying
<1>3. /\ pos' \in [field : {"zoneID", "reading", "reset", "id", "up", "down"},
                  i : 1..NumZones, t : 1..3, j : 1..Slots, left : (SUBSET Word) \ {{}}]
      /\ pos'.field = pos.field /\ pos'.i = pos.i /\ pos'.t = pos.t /\ pos'.j = pos.j
      /\ pos'.left = L
  BY <1>1, <1>2 DEF Staying
<1>4. PosTypes' BY <1>2, <1>3 DEF PosTypes, Position
<1>5. pos' # Idle
  <2>1. Idle.field = "none" BY DEF Idle, At
  <2> QED BY <1>1, <1>3, <2>1
<1>6. Devices(answer', pos') = Devices(answer, pos) BY <1>3 DEF Devices
<1>7. PosShape' BY <1>3, <1>6 DEF PosShape, Types, Shape
<1>8. Installing' BY <1>3, <1>5 DEF Installing, AnswerInstalled
<1> QED BY <1>4, <1>7, <1>8

LEMMA Ends ==
  ASSUME pos' = Idle, AnswerInstalled'
  PROVE  PosTypes' /\ PosShape' /\ Installing'
BY DEF PosTypes, PosShape, Installing, Position

(* The zones before the one that is being written stay as they are.        *)
LEMMA EarlierZones ==
  ASSUME Types, Installing, pos # Idle, answer' = answer, OnlyZone(zones'[pos.i])
  PROVE  \A h \in 1..(pos.i - 1) : Holds(h)'
<1> SUFFICES ASSUME NEW h \in 1..(pos.i - 1) PROVE Holds(h)' OBVIOUS
<1>1. pos.i \in 1..NumZones /\ NumZones \in Nat BY Positions, Sizes
<1>2. h \in 1..NumZones \ {pos.i} BY <1>1
<1>3. zones'[h] = zones[h] BY <1>2 DEF OnlyZone
<1>4. Holds(h) BY DEF Installing
<1> QED BY <1>3, <1>4 DEF Holds

(* After list t of zone i, when it is complete.                            *)
LEMMA ListDone ==
  ASSUME Types, Installing, pos # Idle, answer' = answer,
         OnlyZone(zones'[pos.i]), pos' = NextList(answer, pos),
         zones'[pos.i].zoneID = answer[pos.i].zoneID,
         zones'[pos.i].reading = answer[pos.i].reading,
         \A u \in 1..pos.t : zones'[pos.i].devs[Kind[u]] = Row(answer[pos.i].devs[Kind[u]])
  PROVE  PosTypes' /\ PosShape' /\ Installing'
<1>1. PICK i, t : i = pos.i /\ t = pos.t OBVIOUS
<1>2. /\ i \in 1..NumZones /\ i \in 1..Listed(answer) /\ t \in 1..3
      /\ Listed(answer) \in 0..NumZones /\ NumZones \in Nat /\ Slots \in Nat \ {0}
      /\ answer \in Answers
  BY <1>1, Positions, AnswerFacts, Sizes
<1>3. \A h \in 1..(i - 1) : Holds(h)' BY <1>1, EarlierZones
<1>4. CASE t < 3
  <2>1. Going("reset", i, t + 1, 1) BY <1>1, <1>2, <1>4 DEF Going, NextList
  <2>2. (t + 1) - 1 = t BY <1>2
  <2>3. Written(zones'[i], answer[i], "reset", t + 1, 1, Words("reset"))
    BY <1>1, <2>2, FieldWords DEF Written, Lists, Cleared
  <2> QED BY <1>3, <2>1, <2>3, Goes
<1>5. CASE t = 3
  <2>1. Holds(i)'
    <3>1. zones'[i] \in ZoneRow BY <1>1 DEF OnlyZone
    <3>2. \A u \in 1..3 : zones'[i].devs[Kind[u]] = Row(answer[i].devs[Kind[u]])
      BY <1>1, <1>5
    <3>3. zones'[i] = [zoneID  |-> answer[i].zoneID, reading |-> answer[i].reading,
                       devs    |-> [k \in KindName |-> Row(answer[i].devs[k])]]
      BY <1>1, <3>1, <3>2, ZoneComplete
    <3> QED BY <3>3 DEF Holds
  <2>2. \A h \in 1..i : h = i \/ h \in 1..(i - 1) BY <1>2
  <2>3. \A h \in 1..i : Holds(h)'
    <3> SUFFICES ASSUME NEW h \in 1..i PROVE Holds(h)' OBVIOUS
    <3>1. CASE h = i BY <2>1, <3>1
    <3>2. CASE h \in 1..(i - 1) BY <1>3, <3>2
    <3> QED BY <2>2, <3>1, <3>2
  <2>4. CASE i < Listed(answer)
    <3>1. Going("zoneID", i + 1, 1, 1) BY <1>1, <1>2, <1>5, <2>4 DEF Going, NextList
    <3>2. (i + 1) - 1 = i BY <1>2
    <3>3. Written(zones'[i + 1], answer[i + 1], "zoneID", 1, 1, Words("zoneID"))
      BY DEF Written
    <3> QED BY <2>3, <3>1, <3>2, <3>3, Goes
  <2>5. CASE ~(i < Listed(answer))
    <3>1. pos' = Idle BY <1>1, <1>5, <2>5 DEF NextList
    <3>2. Listed(answer') = i BY <1>2, <2>5
    <3>3. AnswerInstalled' BY <2>3, <3>2 DEF AnswerInstalled
    <3> QED BY <3>1, <3>3, Ends
  <2> QED BY <2>4, <2>5
<1> QED BY <1>2, <1>4, <1>5

LEMMA WithinOrNext ==
  ASSUME NEW n \in Nat \ {0}, NEW f \in 0..n, NEW j \in 1..(n + 1), j <= f + 1
  PROVE  j <= f \/ j = f + 1
OBVIOUS

(* After slot j - 1, when the slots before it are filled and the others    *)
(* reset.                                                                  *)
LEMMA SlotsDone ==
  ASSUME Types, Installing, pos # Idle, answer' = answer,
         OnlyZone(zones'[pos.i]),
         NEW j \in 1..(Slots + 1), j <= Fitting(Devices(answer, pos)) + 1,
         pos' = NextDevice(answer, pos, j),
         zones'[pos.i].zoneID = answer[pos.i].zoneID,
         zones'[pos.i].reading = answer[pos.i].reading,
         Lists(zones'[pos.i], answer[pos.i], pos.t),
         \A s \in 1..(j - 1) :
           zones'[pos.i].devs[Kind[pos.t]][s] = Devices(answer, pos)[s],
         \A s \in j..Slots : zones'[pos.i].devs[Kind[pos.t]][s] = NoEndDevice
  PROVE  PosTypes' /\ PosShape' /\ Installing'
<1>1. PICK i, t, list : i = pos.i /\ t = pos.t /\ list = Devices(answer, pos) OBVIOUS
<1>2. /\ i \in 1..NumZones /\ i \in 1..Listed(answer) /\ t \in 1..3
      /\ list = answer[i].devs[Kind[t]] /\ Fitting(list) \in 0..Slots
      /\ Kind[t] \in KindName /\ Slots \in Nat \ {0} /\ answer \in Answers
  BY <1>1, Positions, Sizes
<1>5. pos' = IF j <= Fitting(list) THEN At("id", i, t, j) ELSE NextList(answer, pos)
  BY <1>1, Zenon DEF NextDevice
<1>3. CASE j <= Fitting(list)
  <2>0. pos' = At("id", i, t, j) BY <1>3, <1>5
  <2>1. Going("id", i, t, j) BY <1>2, <1>3, <2>0 DEF Going
  <2>2. \A s \in (j + 1)..Slots : s \in j..Slots BY <1>2
  <2>3. Filled(zones'[i].devs[Kind[t]], list, j) BY <1>1, <2>2, Zenon DEF Filled
  <2>6. Identified(zones'[i].devs[Kind[t]][j], list[j], Words("id"))
    <3>1. j \in j..Slots BY <1>2, <1>3
    <3>2. zones'[i].devs[Kind[t]][j] = NoEndDevice BY <1>1, <3>1
    <3> QED BY <3>2, FieldWords DEF Identified, NoEndDevice
  <2>4. Written(zones'[i], answer[i], "id", t, j, Words("id"))
    BY <1>1, <1>2, <2>3, <2>6, Zenon DEF Written
  <2>5. \A h \in 1..(i - 1) : Holds(h)' BY <1>1, EarlierZones
  <2> QED BY <2>1, <2>4, <2>5, Goes
<1>4. CASE j = Fitting(list) + 1
  <2>0. ~(j <= Fitting(list)) BY <1>2, <1>4
  <2>1. pos' = NextList(answer, pos) BY <1>5, <2>0
  <2>2. zones'[i].devs[Kind[t]] = Row(list)
    <3>1. list \in Seq(DeviceRow) BY <1>2, AnswerFacts
    <3>2. zones'[i].devs[Kind[t]] \in [1..Slots -> DeviceRow]
      BY <1>1, <1>2, Zenon DEF OnlyZone, ZoneRow
    <3>3. (Fitting(list) + 1) - 1 = Fitting(list) BY <1>2
    <3> QED BY <1>1, <1>4, <3>1, <3>2, <3>3, ListComplete
  <2>3. \A u \in 1..t : u = t \/ u \in 1..(t - 1)
    <3>1. t \in 1..3 BY <1>2
    <3> QED BY <3>1
  <2>4. \A u \in 1..t : zones'[i].devs[Kind[u]] = Row(answer[i].devs[Kind[u]])
    BY <1>1, <1>2, <2>2, <2>3, Zenon DEF Lists
  <2> QED BY <1>1, <2>1, <2>4, ListDone
<1>6. j <= Fitting(list) \/ j = Fitting(list) + 1
  <2>1. Fitting(list) \in 0..Slots /\ Slots \in Nat \ {0} BY <1>2
  <2>2. j <= Fitting(list) + 1 BY <1>1, Zenon
  <2> QED BY <2>1, <2>2, WithinOrNext
<1> QED BY <1>3, <1>4, <1>6, Zenon

(* A store of a slot leaves what the answer's zone has been given already, *)
(* and makes the slot what the field asks for, but for the words left.     *)
LEMMA SlotKeeps ==
  ASSUME Types, Installing, NEW w, StoreWord(w),
         pos.field \in {"reset", "id", "up", "down"}
  PROVE  /\ OnlySlot(NewSlot(w)) /\ OnlyZone(zones'[pos.i])
         /\ zones'[pos.i].zoneID = answer[pos.i].zoneID
         /\ zones'[pos.i].reading = answer[pos.i].reading
         /\ Lists(zones'[pos.i], answer[pos.i], pos.t)
<1>1. pos # Idle BY Storing
<1>2. OnlySlot(NewSlot(w)) BY StoresSlot
<1>3. Written(zones[pos.i], answer[pos.i], pos.field, pos.t, pos.j, pos.left)
  BY <1>1 DEF Installing
<1>4. /\ zones[pos.i].zoneID = answer[pos.i].zoneID
      /\ zones[pos.i].reading = answer[pos.i].reading
      /\ Lists(zones[pos.i], answer[pos.i], pos.t)
  BY <1>3 DEF Written
<1>5. \A u \in 1..(pos.t - 1) : u \in 1..3 \ {pos.t} BY <1>1, Positions
<1>6. Lists(zones'[pos.i], answer[pos.i], pos.t) BY <1>2, <1>4, <1>5 DEF OnlySlot, Lists
<1> QED BY <1>2, <1>4, <1>6 DEF OnlySlot

LEMMA SlotWritten ==
  ASSUME Types, Installing, NEW w, StoreWord(w),
         pos.field \in {"reset", "id", "up", "down"}
  PROVE  LET d == NewSlot(w)  e == Devices(answer, pos)[pos.j]
         IN  /\ d \in DeviceRow
             /\ pos.field # "reset" => e \in DeviceRow
             /\ pos.field = "reset" => Cleared(d, pos.left \ {w})
             /\ pos.field = "id" => Identified(d, e, pos.left \ {w})
             /\ pos.field \in {"up", "down"} => Identified(d, e, {}) /\ d.up = e.up
             /\ pos.field = "down" => d.down = e.down
<1> DEFINE d == NewSlot(w)
           e == Devices(answer, pos)[pos.j]
           old == OldSlot
           c == NewContent(answer, pos)
<1>1. pos # Idle /\ w \in pos.left /\ w \in Words(pos.field) BY Storing
<1>2. pos.field \in {"id", "up", "down"} => e \in DeviceRow BY <1>1, Positions
<1>4. /\ pos.field = "reset" => c = NoEndDevice
      /\ pos.field # "reset" => c = e
  BY DEF NewContent
<1>7. /\ d \in DeviceRow
      /\ (w = "low" => d.low = c.low) /\ (w # "low" => d.low = old.low)
      /\ (w = "high" => d.high = c.high) /\ (w # "high" => d.high = old.high)
      /\ (w = "up" => d.up = c.up) /\ (w # "up" => d.up = old.up)
      /\ (w = "down" => d.down = c.down) /\ (w # "down" => d.down = old.down)
  BY SlotWords
<1>8. Written(zones[pos.i], answer[pos.i], pos.field, pos.t, pos.j, pos.left)
  BY <1>1 DEF Installing
<1>9. /\ pos.field = "reset" => Cleared(old, pos.left)
      /\ pos.field = "id" => Identified(old, e, pos.left)
      /\ pos.field \in {"up", "down"} => Identified(old, e, {})
      /\ pos.field = "down" => old.up = e.up
  BY <1>8 DEF Written, Devices, OldSlot
<1> HIDE DEF c, d, e, old
<1>10. CASE pos.field = "reset"
  <2>1. c.low = 0 /\ c.high = 0 /\ c.up = 0 /\ c.down = 0
    BY <1>4, <1>10 DEF NoEndDevice
  <2>2. Cleared(d, pos.left \ {w}) BY <1>7, <1>9, <1>10, <2>1 DEF Cleared
  <2> QED BY <1>7, <1>10, <2>2 DEF d
<1>11. CASE pos.field = "id"
  <2>1. Identified(d, e, pos.left \ {w})
    BY <1>1, <1>4, <1>7, <1>9, <1>11 DEF Identified
  <2> QED BY <1>2, <1>7, <1>11, <2>1 DEF d, e
<1>12. CASE pos.field = "up"
  <2>1. w = "up" BY <1>1, <1>12, FieldWords
  <2>2. Identified(d, e, {}) /\ d.up = e.up
    BY <1>4, <1>7, <1>9, <1>12, <2>1 DEF Identified
  <2> QED BY <1>2, <1>7, <1>12, <2>2 DEF d, e
<1>13. CASE pos.field = "down"
  <2>1. w = "down" BY <1>1, <1>13, FieldWords
  <2>2. Identified(d, e, {}) /\ d.up = e.up /\ d.down = e.down
    BY <1>4, <1>7, <1>9, <1>13, <2>1 DEF Identified
  <2> QED BY <1>2, <1>7, <1>13, <2>2 DEF d, e
<1> QED BY <1>10, <1>11, <1>12, <1>13

LEMMA ZoneIDInstalls ==
  ASSUME Types, Installing, NEW w, StoreWord(w), pos.field = "zoneID", pos.left = {w}
  PROVE  PosTypes' /\ PosShape' /\ Installing'
<1>1. pos # Idle /\ answer' = answer BY Storing
<1>2. PICK i : i = pos.i OBVIOUS
<1>3. i \in 1..NumZones /\ i \in 1..Listed(answer) /\ Slots \in Nat \ {0}
  BY <1>1, <1>2, Positions, Sizes
<1>4. zones[i] \in ZoneRow BY <1>3, Tables DEF Types
<1>5. OnlyZone([zones[i] EXCEPT !.zoneID = answer[i].zoneID]) BY <1>2, StoresZoneID
<1>6. OnlyZone(zones'[i]) /\ zones'[i] = [zones[i] EXCEPT !.zoneID = answer[i].zoneID]
  BY <1>2, <1>5 DEF OnlyZone
<1>7. zones'[i].zoneID = answer[i].zoneID BY <1>4, <1>6 DEF ZoneRow
<1>8. Going("reading", i, 1, 1) BY <1>2, <1>3, Storing DEF Going, After
<1>9. Written(zones'[i], answer[i], "reading", 1, 1, Words("reading"))
  BY <1>7 DEF Written
<1> QED BY <1>1, <1>2, <1>6, <1>8, <1>9, EarlierZones, Goes

LEMMA ReadingInstalls ==
  ASSUME Types, Installing, NEW w, StoreWord(w), pos.field = "reading", pos.left = {w}
  PROVE  PosTypes' /\ PosShape' /\ Installing'
<1>1. pos # Idle /\ answer' = answer BY Storing
<1>2. PICK i, t, v, old : i = pos.i /\ t = pos.t /\ v = answer[i].reading
                          /\ old = zones[i].reading
  OBVIOUS
<1>3. /\ i \in 1..NumZones /\ i \in 1..Listed(answer) /\ t \in 1..3 /\ Slots \in Nat \ {0}
      /\ Kind[t] \in KindName /\ v \in [KindName -> Int]
  BY <1>1, <1>2, Positions, Sizes
<1>4. zones[i] \in ZoneRow /\ old \in [KindName -> Int] BY <1>2, <1>3, Tables DEF Types
<1>5. OnlyZone([zones[i] EXCEPT !.reading = [old EXCEPT ![Kind[t]] = v[Kind[t]]]])
  BY <1>2, StoresReading
<1>6. /\ OnlyZone(zones'[i])
      /\ zones'[i] = [zones[i] EXCEPT !.reading = [old EXCEPT ![Kind[t]] = v[Kind[t]]]]
  BY <1>2, <1>5 DEF OnlyZone
<1>7. /\ zones'[i].zoneID = zones[i].zoneID
      /\ zones'[i].reading = [old EXCEPT ![Kind[t]] = v[Kind[t]]]
  BY <1>4, <1>6 DEF ZoneRow
<1>8. Written(zones[i], answer[i], "reading", t, pos.j, pos.left)
  BY <1>1, <1>2 DEF Installing
<1>9. /\ zones'[i].zoneID = answer[i].zoneID
      /\ \A u \in 1..(t - 1) : old[Kind[u]] = v[Kind[u]]
  BY <1>2, <1>7, <1>8 DEF Written
<1>10. \A u \in 1..t : zones'[i].reading[Kind[u]] = v[Kind[u]]
  <2> SUFFICES ASSUME NEW u \in 1..t PROVE zones'[i].reading[Kind[u]] = v[Kind[u]]
    OBVIOUS
  <2>1. u \in 1..3 /\ Kind[u] \in KindName BY <1>3, Kinds
  <2>2. CASE u = t BY <1>3, <1>4, <1>7, <2>2
  <2>3. CASE u # t
    <3>1. u \in 1..(t - 1) /\ Kind[u] # Kind[t] BY <1>3, <2>1, <2>3, Kinds
    <3> QED BY <1>4, <1>7, <1>9, <2>1, <3>1
  <2> QED BY <2>2, <2>3
<1>11. \A h \in 1..(i - 1) : Holds(h)' BY <1>1, <1>2, <1>6, EarlierZones
<1>12. pos' = IF t < 3 THEN At("reading", i, t + 1, 1) ELSE At("reset", i, 1, 1)
  BY <1>2, Storing DEF After
<1>13. CASE t < 3
  <2>1. Going("reading", i, t + 1, 1) BY <1>3, <1>12, <1>13 DEF Going
  <2>2. (t + 1) - 1 = t BY <1>3
  <2>3. Written(zones'[i], answer[i], "reading", t + 1, 1, Words("reading"))
    BY <1>2, <1>9, <1>10, <2>2 DEF Written
  <2> QED BY <1>1, <1>11, <2>1, <2>3, Goes
<1>14. CASE t = 3
  <2>1. Going("reset", i, 1, 1) BY <1>3, <1>12, <1>14 DEF Going
  <2>2. zones'[i].reading = v
    <3>1. zones'[i].reading \in [KindName -> Int] BY <1>3, <1>4, <1>7
    <3>2. \A k \in KindName : zones'[i].reading[k] = v[k] BY <1>10, <1>14, Kinds
    <3> QED BY <1>3, <3>1, <3>2
  <2>3. Written(zones'[i], answer[i], "reset", 1, 1, Words("reset"))
    BY <1>2, <1>9, <2>2, FieldWords DEF Written, Lists, Cleared
  <2> QED BY <1>1, <1>11, <2>1, <2>3, Goes
<1> QED BY <1>3, <1>13, <1>14

(* Before the last word of a field.                                        *)
LEMMA WordInstalls ==
  ASSUME Types, Installing, NEW w, StoreWord(w), pos.left # {w}
  PROVE  PosTypes' /\ PosShape' /\ Installing'
<1>1. pos # Idle /\ answer' = answer /\ pos.field \in {"reset", "id"} /\ w \in pos.left
  BY Storing
<1>2. PICK i, t, j, L, old, new, list :
        /\ i = pos.i /\ t = pos.t /\ j = pos.j /\ L = pos.left \ {w}
        /\ list = Devices(answer, pos)
        /\ old = zones[i].devs[Kind[t]] /\ new = zones'[i].devs[Kind[t]]
  OBVIOUS
<1>3. i \in 1..NumZones /\ t \in 1..3 /\ j \in 1..Slots /\ Slots \in Nat \ {0}
      /\ list = answer[i].devs[Kind[t]]
  BY <1>1, <1>2, Positions, Sizes
<1>4. /\ OnlySlot(NewSlot(w)) /\ OnlyZone(zones'[i])
      /\ zones'[i].zoneID = answer[i].zoneID /\ zones'[i].reading = answer[i].reading
      /\ Lists(zones'[i], answer[i], t)
  BY <1>1, <1>2, SlotKeeps
<1>5. Staying(L)
  <2>1. L # {} /\ L \subseteq pos.left BY <1>1, <1>2
  <2>2. pos' = [pos EXCEPT !.left = L] BY <1>2 DEF StoreWord
  <2> QED BY <2>1, <2>2 DEF Staying
<1>6. Written(zones[i], answer[i], pos.field, t, j, pos.left) BY <1>1, <1>2 DEF Installing
<1>7. new[j] = NewSlot(w) /\ \A s \in 1..Slots \ {j} : new[s] = old[s]
  BY <1>2, <1>4 DEF OnlySlot
<1>8. /\ \A s \in 1..(j - 1) : s \in 1..Slots \ {j}
      /\ \A s \in (j + 1)..Slots : s \in 1..Slots \ {j}
  BY <1>3
<1>9. /\ pos.field = "reset" => Cleared(new[j], L)
      /\ pos.field = "id" => Identified(new[j], list[j], L)
  BY <1>1, <1>2, <1>7, SlotWritten
<1>10. Written(zones'[i], answer[i], pos.field, t, j, L)
  <2>1. CASE pos.field = "reset"
    <3>1. \A s \in 1..(j - 1) : new[s] = NoEndDevice
      <4>1. \A s \in 1..(j - 1) : old[s] = NoEndDevice
        BY <1>2, <1>6, <2>1, Zenon DEF Written
      <4> QED BY <1>7, <1>8, <4>1
    <3> QED BY <1>2, <1>4, <1>9, <2>1, <3>1, Zenon DEF Written
  <2>2. CASE pos.field = "id"
    <3>1. Filled(old, list, j) BY <1>2, <1>3, <1>6, <2>2, Zenon DEF Written
    <3>2. Filled(new, list, j) BY <1>7, <1>8, <3>1 DEF Filled
    <3> QED BY <1>2, <1>3, <1>4, <1>9, <2>2, <3>2, Zenon DEF Written
  <2> QED BY <1>1, <2>1, <2>2
<1>11. \A h \in 1..(i - 1) : Holds(h)' BY <1>1, <1>2, <1>4, EarlierZones
<1> QED BY <1>1, <1>2, <1>5, <1>10, <1>11, Stays

LEMMA ResetInstalls ==
  ASSUME Types, Installing, NEW w, StoreWord(w), pos.field = "reset", pos.left = {w}
  PROVE  PosTypes' /\ PosShape' /\ Installing'
<1>1. pos # Idle /\ answer' = answer /\ pos' = After(answer, pos) BY Storing
<1>2. PICK i, t, j, old, new :
        /\ i = pos.i /\ t = pos.t /\ j = pos.j
        /\ old = zones[i].devs[Kind[t]] /\ new = zones'[i].devs[Kind[t]]
  OBVIOUS
<1>3. /\ i \in 1..NumZones /\ i \in 1..Listed(answer) /\ t \in 1..3 /\ j \in 1..Slots
      /\ Slots \in Nat \ {0} /\ Fitting(Devices(answer, pos)) \in 0..Slots
  BY <1>1, <1>2, Positions, Sizes
<1>4. /\ OnlySlot(NewSlot(w)) /\ OnlyZone(zones'[i])
      /\ zones'[i].zoneID = answer[i].zoneID /\ zones'[i].reading = answer[i].reading
      /\ Lists(zones'[i], answer[i], t)
  BY <1>2, SlotKeeps
<1>5. NewSlot(w) = NoEndDevice
  <2>1. NewSlot(w) \in DeviceRow /\ Cleared(NewSlot(w), {}) BY SlotWritten
  <2> HIDE DEF NewSlot
  <2> QED BY <2>1 DEF Cleared, DeviceRow, NoEndDevice
<1>6. Written(zones[i], answer[i], "reset", t, j, pos.left) BY <1>1, <1>2 DEF Installing
<1>7. \A s \in 1..(j - 1) : old[s] = NoEndDevice BY <1>2, <1>6 DEF Written
<1>8. new[j] = NoEndDevice /\ \A s \in 1..Slots \ {j} : new[s] = old[s]
  BY <1>2, <1>4, <1>5 DEF OnlySlot
<1>9. \A s \in 1..j : s = j \/ (s \in 1..(j - 1) /\ s \in 1..Slots \ {j}) BY <1>3
<1>10. \A s \in 1..j : new[s] = NoEndDevice BY <1>7, <1>8, <1>9
<1>11. pos' = IF j < Slots THEN At("reset", i, t, j + 1) ELSE NextDevice(answer, pos, 1)
  BY <1>1, <1>2 DEF After, NextReset
<1>12. CASE j < Slots
  <2>1. Going("reset", i, t, j + 1) BY <1>3, <1>11, <1>12 DEF Going
  <2>2. (j + 1) - 1 = j BY <1>3
  <2>3. Written(zones'[i], answer[i], "reset", t, j + 1, Words("reset"))
    BY <1>2, <1>4, <1>10, <2>2, FieldWords DEF Written, Cleared
  <2>4. \A h \in 1..(i - 1) : Holds(h)' BY <1>1, <1>2, <1>4, EarlierZones
  <2> QED BY <1>1, <2>1, <2>3, <2>4, Goes
<1>13. CASE j = Slots
  <2>1. pos' = NextDevice(answer, pos, 1) BY <1>3, <1>11, <1>13
  <2>2. 1 \in 1..(Slots + 1) /\ 1 <= Fitting(Devices(answer, pos)) + 1 BY <1>3
  <2>3. \A s \in 1..Slots : new[s] = NoEndDevice BY <1>10, <1>13
  <2>4. \A s \in 1..(1 - 1) : new[s] = Devices(answer, pos)[s] OBVIOUS
  <2> QED BY <1>1, <1>2, <1>4, <2>1, <2>2, <2>3, <2>4, SlotsDone
<1> QED BY <1>3, <1>12, <1>13

(* Between the stores of one listed device.                                *)
LEMMA FieldInstalls ==
  ASSUME Types, Installing, NEW w, StoreWord(w), pos.field \in {"id", "up", "down"},
         pos.left = {w}
  PROVE  PosTypes' /\ PosShape' /\ Installing'
<1>1. pos # Idle /\ answer' = answer /\ pos' = After(answer, pos) BY Storing
<1>2. PICK i, t, j, old, new, list :
        /\ i = pos.i /\ t = pos.t /\ j = pos.j /\ list = Devices(answer, pos)
        /\ old = zones[i].devs[Kind[t]] /\ new = zones'[i].devs[Kind[t]]
  OBVIOUS
<1>3. /\ i \in 1..NumZones /\ i \in 1..Listed(answer) /\ t \in 1..3 /\ j \in 1..Slots
      /\ Slots \in Nat \ {0} /\ Fitting(list) \in 0..Slots
      /\ list = answer[i].devs[Kind[t]] /\ j <= Fitting(list)
  BY <1>1, <1>2, Positions, Sizes DEF Types, Shape
<1>4. /\ OnlySlot(NewSlot(w)) /\ OnlyZone(zones'[i])
      /\ zones'[i].zoneID = answer[i].zoneID /\ zones'[i].reading = answer[i].reading
      /\ Lists(zones'[i], answer[i], t)
  BY <1>2, SlotKeeps, Zenon
<1>6. Written(zones[i], answer[i], pos.field, t, j, pos.left)
  BY <1>1, <1>2 DEF Installing
<1>7. Filled(old, list, j) BY <1>2, <1>3, <1>6, Zenon DEF Written
<1>8. new[j] = NewSlot(w) /\ \A s \in 1..Slots \ {j} : new[s] = old[s]
  BY <1>2, <1>4 DEF OnlySlot
<1>5. /\ new[j] \in DeviceRow /\ list[j] \in DeviceRow
      /\ Identified(new[j], list[j], {})
      /\ pos.field \in {"up", "down"} => new[j].up = list[j].up
      /\ pos.field = "down" => new[j].down = list[j].down
  <2>1. pos.left \ {w} = {} OBVIOUS
  <2> QED BY <1>2, <1>8, <2>1, SlotWritten
<1>9. Filled(new, list, j)
  <2>1. /\ \A s \in 1..(j - 1) : s \in 1..Slots \ {j}
        /\ \A s \in (j + 1)..Slots : s \in 1..Slots \ {j}
    BY <1>3
  <2> QED BY <1>7, <1>8, <2>1 DEF Filled
<1>10. \A h \in 1..(i - 1) : Holds(h)' BY <1>1, <1>2, <1>4, EarlierZones
<1>11. CASE pos.field = "id"
  <2>1. Going("up", i, t, j)
    <3>1. pos' = At("up", i, t, j) BY <1>1, <1>2, <1>11 DEF After
    <3> QED BY <1>3, <3>1 DEF Going
  <2>2. Written(zones'[i], answer[i], "up", t, j, Words("up"))
    BY <1>2, <1>3, <1>4, <1>5, <1>9, Zenon DEF Written
  <2> QED BY <1>1, <1>10, <2>1, <2>2, Goes
<1>12. CASE pos.field = "up"
  <2>1. Going("down", i, t, j)
    <3>1. pos' = At("down", i, t, j) BY <1>1, <1>2, <1>12 DEF After
    <3> QED BY <1>3, <3>1 DEF Going
  <2>2. new[j].up = list[j].up BY <1>5, <1>12
  <2>3. Written(zones'[i], answer[i], "down", t, j, Words("down"))
    BY <1>2, <1>3, <1>4, <1>5, <1>9, <2>2, Zenon DEF Written
  <2> QED BY <1>1, <1>10, <2>1, <2>3, Goes
<1>13. CASE pos.field = "down"
  <2>1. new[j].up = list[j].up /\ new[j].down = list[j].down BY <1>5, <1>13
  <2>2. new[j].low = list[j].low /\ new[j].high = list[j].high BY <1>5 DEF Identified
  <2>3. new[j] = list[j] BY <1>5, <2>1, <2>2 DEF DeviceRow
  <2>4. \A s \in 1..j : new[s] = list[s]
    <3>1. \A s \in 1..j : s = j \/ s \in 1..(j - 1) BY <1>3
    <3> QED BY <1>9, <2>3, <3>1 DEF Filled
  <2>5. pos' = NextDevice(answer, pos, j + 1) BY <1>1, <1>2, <1>13 DEF After
  <2>6. j + 1 \in 1..(Slots + 1) /\ j + 1 <= Fitting(list) + 1 /\ (j + 1) - 1 = j
    BY <1>3
  <2>7. \A s \in (j + 1)..Slots : new[s] = NoEndDevice BY <1>9 DEF Filled
  <2> QED BY <1>1, <1>2, <1>4, <2>4, <2>5, <2>6, <2>7, SlotsDone
<1> QED BY <1>11, <1>12, <1>13

LEMMA StoreInstalls ==
  ASSUME Types, Installing, NEW w, StoreWord(w)
  PROVE  PosTypes' /\ PosShape' /\ Installing'
<1>1. pos # Idle BY Storing
<1>2. pos.field \in {"zoneID", "reading", "reset", "id", "up", "down"}
  BY <1>1, Positions
<1> QED BY <1>2, WordInstalls, ZoneIDInstalls, ReadingInstalls, ResetInstalls, FieldInstalls
-------------------------------------------------------------------------------
(* Types.                                                                  *)

Cursor == PosTypes /\ PosShape

LEMMA StoredTypes ==
  ASSUME Types, NEW w, StoreWord(w)
  PROVE  zones' \in [1..NumZones -> ZoneRow]
<1>1. pos # Idle BY Storing
<1>2. pos.field \in {"zoneID", "reading", "reset", "id", "up", "down"}
  BY <1>1, Positions
<1>3. CASE pos.field = "zoneID" BY <1>3, StoresZoneID DEF OnlyZone
<1>4. CASE pos.field = "reading" BY <1>4, StoresReading DEF OnlyZone
<1>5. CASE pos.field \in {"reset", "id", "up", "down"}
  BY <1>5, StoresSlot DEF OnlySlot, OnlyZone
<1> QED BY <1>2, <1>3, <1>4, <1>5

(* The entry the regulator reads.                                          *)
LEMMA Entries ==
  ASSUME Types, regulator \in {"device", "print", "send"}, dev <= NumDevices
  PROVE  /\ zNum \in 1..NumZones /\ kind \in 1..3 /\ dev \in 1..Slots
         /\ dev \in 1..NumDevices /\ Kind[kind] \in KindName
         /\ EndDevice \in DeviceRow /\ Reading \in Int
<1>1. zNum \in 1..NumZones /\ kind \in 1..3 /\ dev \in 1..NumDevices /\ dev \in 1..Slots
  BY Sizes DEF Types, TypeOK, Shape
<1>2. /\ zones[zNum].devs[Kind[kind]] \in [1..Slots -> DeviceRow]
      /\ zones[zNum].reading[Kind[kind]] \in Int
  BY <1>1, Tables DEF Types
<1> QED BY <1>1, <1>2, Kinds DEF EndDevice, Reading

LEMMA Codes ==
  ASSUME NEW k, NEW v \in Int, NEW up \in Int
  PROVE  Code(k, v, up) \in 0..2
BY DEF Code, OffCode

LEMMA HttpTypes ==
  ASSUME Types, Installing, ReceiveAnswer \/ Store \/ DataSend
  PROVE  Types'
<1> USE DEF Types
<1>1. CASE ReceiveAnswer
  <2>1. /\ zones' = zones /\ regulator' = regulator /\ zNum' = zNum /\ kind' = kind
        /\ dev' = dev /\ msgTx' = msgTx /\ queued' = queued /\ quiet' = FALSE
        /\ scanned' = {}
    BY <1>1 DEF ReceiveAnswer, loopVars
  <2>2. answer' \in Answers /\ pos' = IF answer' = <<>> THEN Idle ELSE At("zoneID", 1, 1, 1)
    BY <1>1 DEF ReceiveAnswer
  <2>3. Cursor'
    <3>1. CASE answer' = <<>> BY <2>2, <3>1 DEF Cursor, PosTypes, PosShape, Position
    <3>2. CASE answer' # <<>>
      <4>1. answer' \in Seq(AnswerZone) BY <2>2, AnswerAssumption
      <4>2. Len(answer') \in Nat /\ Len(answer') # 0 BY <3>2, <4>1, EmptySeq, LenProperties
      <4>3. 1 <= Listed(answer') BY <4>2, Sizes DEF Listed
      <4>4. pos' = [field |-> "zoneID", i |-> 1, t |-> 1, j |-> 1, left |-> {"zoneID"}]
        BY <2>2, <3>2, FieldWords DEF At
      <4>5. {"zoneID"} \in (SUBSET Word) \ {{}} /\ {"zoneID"} = Words("zoneID")
        BY WordsAreWords, FieldWords
      <4>6. pos' \in Position BY <4>4, <4>5, Sizes DEF Position
      <4> QED BY <4>3, <4>4, <4>6 DEF Cursor, PosTypes, PosShape
    <3> QED BY <3>1, <3>2
  <2>4. TypeOK' BY <2>1, <2>2, <2>3 DEF TypeOK, Cursor, PosTypes
  <2>5. Shape' BY <2>1, <2>3 DEF Shape, Cursor, PosShape
  <2> QED BY <2>4, <2>5
<1>2. CASE Store
  <2>0. PICK w \in Word : StoreWord(w) BY <1>2 DEF Store
  <2>1. Cursor' BY <2>0, StoreInstalls DEF Cursor
  <2>2. zones' \in [1..NumZones -> ZoneRow] BY <2>0, StoredTypes
  <2>3. /\ answer' = answer /\ regulator' = regulator /\ zNum' = zNum /\ kind' = kind
        /\ dev' = dev /\ msgTx' = msgTx /\ queued' = queued /\ quiet' = quiet
        /\ scanned' = scanned
    BY <2>0 DEF StoreWord, loopVars
  <2>4. TypeOK' BY <2>1, <2>2, <2>3 DEF TypeOK, Cursor, PosTypes, ZoneRow
  <2>5. Shape' BY <2>1, <2>3 DEF Shape, Cursor, PosShape
  <2> QED BY <2>4, <2>5
<1>3. CASE DataSend
  <2>1. /\ zones' = zones /\ answer' = answer /\ pos' = pos
        /\ regulator' = regulator /\ zNum' = zNum /\ kind' = kind
        /\ dev' = dev /\ msgTx' = msgTx /\ quiet' = quiet
        /\ scanned' = scanned /\ queued > 0 /\ queued' = queued - 1
    BY <1>3 DEF DataSend, loopVars, httpVars
  <2>2. queued' \in 0..TxCap BY <2>1, Sizes DEF TypeOK
  <2>3. TypeOK' BY <2>1, <2>2 DEF TypeOK
  <2>4. Shape' BY <2>1 DEF Shape, Devices
  <2> QED BY <2>3, <2>4
<1> QED BY <1>1, <1>2, <1>3

(* The regulator leaves the table and the answer alone.                    *)
RegulatorTypes ==
  /\ regulator \in RegulatorPc
  /\ zNum \in 1..NumZones + 1 /\ kind \in 1..3 /\ dev \in 1..NumDevices + 1
  /\ msgTx \in CommandRow
  /\ queued \in 0..TxCap /\ quiet \in BOOLEAN
  /\ scanned \subseteq CommandRow
  /\ regulator \in {"device", "print", "send"} => zNum <= NumZones
  /\ regulator \in {"print", "send"} => dev <= NumDevices

LEMMA RegulatorStepTypes ==
  ASSUME Types, RegulatorTask
  PROVE  Types' /\ zones' = zones /\ answer' = answer /\ pos' = pos
<1> USE Sizes
<1>1. RegulatorTypes BY DEF Types, TypeOK, Shape, RegulatorTypes
<1>2. zones' = zones /\ answer' = answer /\ pos' = pos
  BY DEF RegulatorTask, Wake, EnterZone, FinishScan, Decide, Printed, Send, LeaveAlone,
         FinishKind, httpVars
<1>3. ASSUME RegulatorTypes' PROVE Types'
  <2>1. TypeOK' BY <1>2, <1>3 DEF Types, TypeOK, RegulatorTypes
  <2>2. Shape' BY <1>2, <1>3 DEF Types, Shape, RegulatorTypes, Devices
  <2> QED BY <2>1, <2>2 DEF Types
<1>4. RegulatorTypes'
  <2>1. CASE Wake BY <1>1, <2>1 DEF Wake, RegulatorTypes, RegulatorPc
  <2>2. CASE EnterZone
    BY <1>1, <2>2 DEF EnterZone, AtZone, RegulatorTypes, RegulatorPc
  <2>3. CASE FinishScan
    BY <1>1, <2>3 DEF FinishScan, RegulatorTypes, RegulatorPc, loopVars
  <2>4. CASE Decide
    <3>1. regulator = "device" /\ dev <= NumDevices BY <2>4 DEF Decide, AtDevice
    <3>2. EndDevice \in DeviceRow /\ Reading \in Int BY <3>1, Entries
    <3>3. EndDevice.low \in Nat /\ EndDevice.high \in Nat /\ EndDevice.up \in Int
      BY <3>2 DEF DeviceRow
    <3>4. msgTx' = Command(Kind[kind], Reading, EndDevice) BY <2>4 DEF Decide
    <3>5. Code(Kind[kind], Reading, EndDevice.up) \in 0..2 BY <3>2, <3>3, Codes
    <3>6. msgTx' \in CommandRow BY <3>3, <3>4, <3>5 DEF Command, CommandRow
    <3>7. /\ regulator' \in {"print", "send"} /\ zNum' = zNum /\ kind' = kind /\ dev' = dev
          /\ queued' = queued /\ quiet' = quiet /\ scanned' = scanned
      BY <2>4 DEF Decide, loopVars
    <3> QED BY <1>1, <3>1, <3>6, <3>7 DEF RegulatorTypes, RegulatorPc
  <2>5. CASE Printed
    <3>1. regulator = "print" /\ dev <= NumDevices
      BY <1>1, <2>5 DEF Printed, RegulatorTypes
    <3>2. EndDevice.low \in Nat /\ EndDevice.high \in Nat BY <3>1, Entries DEF DeviceRow
    <3>3. /\ regulator' = "send" /\ zNum' = zNum /\ kind' = kind /\ dev' = dev
          /\ queued' = queued /\ quiet' = quiet /\ scanned' = scanned
          /\ msgTx' = [msgTx EXCEPT !.low = EndDevice.low, !.high = EndDevice.high]
      BY <2>5 DEF Printed, loopVars
    <3> HIDE DEF EndDevice
    <3>4. msgTx' \in CommandRow BY <1>1, <3>2, <3>3 DEF RegulatorTypes, CommandRow
    <3> QED BY <1>1, <3>1, <3>3, <3>4 DEF RegulatorTypes, RegulatorPc
  <2>6. CASE Send
    <3>1. /\ regulator = "send" /\ queued < TxCap /\ queued' = queued + 1
          /\ scanned' = IF quiet THEN scanned \cup {msgTx} ELSE {}
          /\ msgTx' = NoCommand /\ regulator' = "device" /\ dev' = dev + 1
          /\ zNum' = zNum /\ kind' = kind /\ quiet' = quiet
      BY <2>6 DEF Send
    <3>2. msgTx' \in CommandRow BY <3>1 DEF NoCommand, CommandRow
    <3>3. scanned' \subseteq CommandRow BY <1>1, <3>1 DEF RegulatorTypes
    <3>4. queued' \in 0..TxCap /\ dev' \in 1..NumDevices + 1
      BY <1>1, <3>1 DEF RegulatorTypes
    <3> QED BY <1>1, <3>1, <3>2, <3>3, <3>4 DEF RegulatorTypes, RegulatorPc
  <2>7. CASE LeaveAlone
    <3>1. /\ regulator = "device" /\ dev <= NumDevices /\ dev' = dev + 1
          /\ regulator' = regulator /\ zNum' = zNum /\ kind' = kind /\ msgTx' = msgTx
          /\ queued' = queued /\ quiet' = quiet /\ scanned' = scanned
      BY <2>7 DEF LeaveAlone, AtDevice
    <3> QED BY <1>1, <3>1 DEF RegulatorTypes, RegulatorPc
  <2>8. CASE FinishKind
    <3>1. /\ regulator = "device" /\ msgTx' = msgTx
          /\ queued' = queued /\ quiet' = quiet /\ scanned' = scanned
          /\ \/ /\ kind < 3 /\ kind' = kind + 1 /\ dev' = 1
                /\ regulator' = regulator /\ zNum' = zNum
             \/ /\ zNum' = zNum + 1 /\ regulator' = "zone" /\ kind' = kind /\ dev' = dev
      BY <2>8 DEF FinishKind
    <3> QED BY <1>1, <3>1 DEF RegulatorTypes, RegulatorPc
  <2> QED BY <2>1, <2>2, <2>3, <2>4, <2>5, <2>6, <2>7, <2>8 DEF RegulatorTask
<1> QED BY <1>2, <1>3, <1>4
-------------------------------------------------------------------------------
(* Ids.                                                                    *)

LEMMA AnswersList ==
  ASSUME NEW a \in Answers, NEW i \in 1..Len(a), NEW k, NEW s \in 1..Len(a[i].devs[k]),
         NEW d, NEW gaps, d.low \in {a[i].devs[k][s].low} \cup gaps,
         d.high \in {a[i].devs[k][s].high} \cup gaps
  PROVE  ListedId(k, d, gaps)
BY DEF ListedId

(* Further gaps only weaken it, and so does a 0 in place of a half.        *)
LEMMA WiderGaps ==
  ASSUME NEW k, NEW d, NEW e, NEW gaps, NEW more, gaps \subseteq more,
         e.low \in {d.low} \cup more, e.high \in {d.high} \cup more,
         ListedId(k, d, gaps)
  PROVE  ListedId(k, e, more)
<1>1. PICK a \in Answers : \E i \in 1..Len(a) : \E s \in 1..Len(a[i].devs[k]) :
        LET f == a[i].devs[k][s]
        IN  d.low \in {f.low} \cup gaps /\ d.high \in {f.high} \cup gaps
  BY DEF ListedId
<1>2. PICK i \in 1..Len(a) : \E s \in 1..Len(a[i].devs[k]) :
        LET f == a[i].devs[k][s]
        IN  d.low \in {f.low} \cup gaps /\ d.high \in {f.high} \cup gaps
  BY <1>1
<1>3. PICK s \in 1..Len(a[i].devs[k]) :
        LET f == a[i].devs[k][s]
        IN  d.low \in {f.low} \cup gaps /\ d.high \in {f.high} \cup gaps
  BY <1>2
<1>4. /\ e.low \in {a[i].devs[k][s].low} \cup more
      /\ e.high \in {a[i].devs[k][s].high} \cup more
  BY <1>3
<1> QED BY <1>4, AnswersList

Fine(i, k, s, d) == Unused(d) \/ ListedId(k, d, Gaps(i, k, s))

(* A slot that is not the one being stored keeps its id.                   *)
LEMMA StaysFine ==
  ASSUME NEW i, NEW k, NEW s, NEW d, NEW e, Fine(i, k, s, d), ~Loose(i, k, s),
         e.low = d.low, e.high = d.high
  PROVE  Fine(i, k, s, e)'
<1>1. Gaps(i, k, s) \subseteq Gaps(i, k, s)' BY DEF Gaps
<1>2. CASE Unused(d) BY <1>2 DEF Fine, Unused
<1>3. CASE ListedId(k, d, Gaps(i, k, s))
  <2>1. ListedId(k, e, Gaps(i, k, s)') BY <1>1, <1>3, WiderGaps
  <2> QED BY <2>1 DEF Fine
<1> QED BY <1>2, <1>3 DEF Fine

LEMMA StoreKeepsIds ==
  ASSUME Types, Installing, NEW w, StoreWord(w), TableIds
  PROVE  TableIds'
<1>1. pos # Idle /\ answer' = answer BY Storing
<1>2. PICK i, t, j, list : /\ i = pos.i /\ t = pos.t /\ j = pos.j
                           /\ list = Devices(answer, pos)
  OBVIOUS
<1>3. /\ i \in 1..NumZones /\ i \in 1..Listed(answer) /\ t \in 1..3 /\ j \in 1..Slots
      /\ pos.field \in {"zoneID", "reading", "reset", "id", "up", "down"}
      /\ Kind[t] \in KindName /\ answer \in Answers
      /\ list = answer[i].devs[Kind[t]]
      /\ pos.field \in {"id", "up", "down"} => j \in 1..Len(list) /\ list[j] \in DeviceRow
  BY <1>1, <1>2, Positions
<1>4. zones \in [1..NumZones -> ZoneRow] /\ zones[i] \in ZoneRow
  BY <1>3, Tables DEF Types
<1>5. \A h \in 1..NumZones, k \in KindName : \A s \in 1..Slots :
        Fine(h, k, s, zones[h].devs[k][s])
  BY DEF TableIds, Fine
<1> SUFFICES ASSUME NEW h \in 1..NumZones, NEW k \in KindName, NEW s \in 1..Slots
             PROVE  Fine(h, k, s, zones[h].devs[k][s])'
  BY Zenon DEF TableIds, Fine
<1>6. CASE h # i
  <2>1. zones'[h] = zones[h]
    <3>1. PICK z : OnlyZone(z)
      BY <1>3, StoresZoneID, StoresReading, StoresSlot DEF OnlySlot
    <3> QED BY <1>2, <1>6, <3>1 DEF OnlyZone
  <2>2. ~Loose(h, k, s) BY <1>2, <1>6 DEF Loose
  <2> QED BY <1>5, <2>1, <2>2, StaysFine
<1>7. CASE h = i /\ pos.field \in {"zoneID", "reading"}
  <2>1. zones'[i].devs = zones[i].devs
    <3>1. CASE pos.field = "zoneID"
      <4>1. zones'[i] = [zones[i] EXCEPT !.zoneID = answer[i].zoneID]
        BY <1>2, <3>1, StoresZoneID DEF OnlyZone
      <4> QED BY <1>4, <4>1 DEF ZoneRow
    <3>2. CASE pos.field = "reading"
      <4>1. zones'[i] = [zones[i] EXCEPT !.reading =
                           [zones[i].reading EXCEPT ![Kind[t]] = answer[i].reading[Kind[t]]]]
        BY <1>2, <3>2, StoresReading DEF OnlyZone
      <4> QED BY <1>4, <4>1 DEF ZoneRow
    <3> QED BY <1>7, <3>1, <3>2
  <2>2. ~Loose(h, k, s) BY <1>7 DEF Loose
  <2> QED BY <1>5, <1>7, <2>1, <2>2, StaysFine
<1>8. CASE h = i /\ pos.field \in {"reset", "id", "up", "down"}
  <2>1. OnlySlot(NewSlot(w)) BY <1>8, StoresSlot
  <2>2. PICK u \in 1..3 : k = Kind[u] BY Kinds
  <2>3. CASE u # t
    <3>1. zones'[i].devs[k] = zones[i].devs[k] BY <1>2, <2>1, <2>2, <2>3 DEF OnlySlot
    <3>2. ~Loose(h, k, s) BY <1>2, <1>3, <2>2, <2>3, Kinds DEF Loose
    <3> QED BY <1>5, <1>8, <3>1, <3>2, StaysFine
  <2>4. CASE u = t /\ s # j
    <3>1. zones'[i].devs[k][s] = zones[i].devs[k][s]
      BY <1>2, <2>1, <2>2, <2>4 DEF OnlySlot
    <3>2. ~Loose(h, k, s) BY <1>2, <2>4 DEF Loose
    <3> QED BY <1>5, <1>8, <3>1, <3>2, StaysFine
  <2>5. CASE u = t /\ s = j
    <3>1. PICK old, new : old = zones[i].devs[k][j] /\ new = NewSlot(w) OBVIOUS
    <3>2. old \in DeviceRow
      <4>1. zones[i].devs[Kind[t]] \in [1..Slots -> DeviceRow] BY <1>3, Tables DEF Types
      <4> QED BY <1>3, <2>2, <2>5, <3>1, <4>1
    <3>3. zones'[i].devs[k][s] = new BY <1>2, <2>1, <2>2, <2>5, <3>1 DEF OnlySlot
    <3>4. Fine(i, k, j, old) BY <1>3, <1>5, <3>1
    <3>5. /\ new \in DeviceRow
          /\ pos.field = "reset" => Cleared(new, pos.left \ {w})
          /\ pos.field = "id" => Identified(new, list[j], pos.left \ {w})
          /\ pos.field \in {"up", "down"} => Identified(new, list[j], {})
      BY <1>2, <1>8, <3>1, SlotWritten
    <3>6. pos.left # {w} => Loose(i, k, j)' /\ Gaps(i, k, j)' = {0}
      <4> SUFFICES ASSUME pos.left # {w} PROVE Loose(i, k, j)' BY DEF Gaps
      <4>1. pos.field \in {"reset", "id"} BY Storing
      <4>2. pos' = [pos EXCEPT !.left = pos.left \ {w}] BY DEF StoreWord
      <4>3. pos \in [field : {"zoneID", "reading", "reset", "id", "up", "down"},
                     i : 1..NumZones, t : 1..3, j : 1..Slots, left : (SUBSET Word) \ {{}}]
        BY <1>1 DEF Types, TypeOK, Position
      <4>4. pos'.field = pos.field /\ pos'.i = i /\ pos'.t = t /\ pos'.j = j
        BY <1>2, <4>2, <4>3
      <4> QED BY <2>2, <2>5, <4>1, <4>4 DEF Loose
    <3>7. i \in 1..Len(answer) BY <1>3, AnswerFacts
    <3>8. CASE pos.field = "reset" /\ pos.left = {w}
      <4>1. Unused(new) BY <3>5, <3>8 DEF Cleared, Unused
      <4> QED BY <1>8, <3>3, <4>1 DEF Fine
    <3>9. CASE pos.field = "reset" /\ pos.left # {w}
      <4>1. Gaps(i, k, j) \subseteq {0} BY DEF Gaps
      <4>2. new.low \in {old.low, 0} /\ new.high \in {old.high, 0}
        <5>1. NewContent(answer, pos) = NoEndDevice BY <3>9 DEF NewContent
        <5>2. old = OldSlot BY <1>2, <2>2, <2>5, <3>1 DEF OldSlot
        <5>3. /\ new.low \in {old.low, NoEndDevice.low}
              /\ new.high \in {old.high, NoEndDevice.high}
          BY <1>8, <3>1, <5>1, <5>2, SlotWords
        <5> QED BY <5>3 DEF NoEndDevice
      <4>3. CASE Unused(old) BY <1>8, <2>5, <3>3, <4>2, <4>3 DEF Fine, Unused
      <4>4. CASE ListedId(k, old, Gaps(i, k, j))
        <5>1. ListedId(k, new, {0}) BY <4>1, <4>2, <4>4, WiderGaps
        <5> QED BY <1>8, <2>5, <3>3, <3>6, <3>9, <5>1 DEF Fine
      <4> QED BY <3>4, <4>3, <4>4 DEF Fine
    <3>10. CASE pos.field = "id"
      <4>1. \A gaps : (pos.left = {w} \/ gaps = {0}) => ListedId(k, new, gaps)
        <5> SUFFICES ASSUME NEW gaps, pos.left = {w} \/ gaps = {0}
                     PROVE  ListedId(k, new, gaps)
          OBVIOUS
        <5>1. new.low \in {list[j].low} \cup gaps /\ new.high \in {list[j].high} \cup gaps
          BY <3>5, <3>10 DEF Identified
        <5> QED BY <1>3, <2>2, <2>5, <3>7, <3>10, <5>1, AnswersList
      <4>2. ListedId(k, new, Gaps(i, k, j)') BY <3>6, <4>1
      <4> QED BY <1>8, <2>5, <3>3, <4>2 DEF Fine
    <3>11. CASE pos.field \in {"up", "down"}
      <4>1. new.low = list[j].low /\ new.high = list[j].high
        BY <3>5, <3>11 DEF Identified
      <4>2. ListedId(k, new, Gaps(i, k, j)')
        BY <1>3, <2>2, <2>5, <3>7, <3>11, <4>1, AnswersList
      <4> QED BY <1>8, <2>5, <3>3, <4>2 DEF Fine
    <3> QED BY <1>8, <3>8, <3>9, <3>10, <3>11
  <2> QED BY <2>3, <2>4, <2>5
<1> QED BY <1>3, <1>6, <1>7, <1>8

(* The entry the regulator reads is that of a listed device, or 0.         *)
LEMMA EntryIds ==
  ASSUME Types, TableIds, regulator \in {"device", "print"}, dev <= NumDevices
  PROVE  /\ Unused(EndDevice) \/ ListedId(Kind[kind], EndDevice, {0})
         /\ pos = Idle => Unused(EndDevice) \/ ListedId(Kind[kind], EndDevice, {})
<1>1. Unused(EndDevice) \/ ListedId(Kind[kind], EndDevice, Gaps(zNum, Kind[kind], dev))
  BY Entries DEF TableIds, EndDevice
<1>2. Gaps(zNum, Kind[kind], dev) \subseteq {0} BY DEF Gaps
<1>3. pos = Idle => Gaps(zNum, Kind[kind], dev) = {}
  BY DEF Gaps, Loose, Idle, At
<1> HIDE DEF EndDevice
<1> QED BY <1>1, <1>2, <1>3, WiderGaps

LEMMA StepIds ==
  ASSUME Types, Installing, Scanning, Next, ListedIds
  PROVE  ListedIds'
<1> USE DEF ListedIds
<1>1. TableIds'
  <2>1. CASE Store BY <2>1, StoreKeepsIds DEF Store
  <2>2. CASE RegulatorTask \/ DataSend
    <3>1. zones' = zones /\ pos' = pos
      BY <2>2, RegulatorStepTypes DEF DataSend, httpVars
    <3> QED BY <3>1 DEF TableIds, Gaps, Loose
  <2>3. CASE ReceiveAnswer
    <3>1. zones' = zones /\ pos = Idle BY <2>3 DEF ReceiveAnswer
    <3>2. \A i \in 1..NumZones, k \in KindName : \A s \in 1..Slots : ~Loose(i, k, s)
      BY <3>1 DEF Loose, Idle, At
    <3>3. \A i \in 1..NumZones, k \in KindName : \A s \in 1..Slots :
            Fine(i, k, s, zones[i].devs[k][s])
      BY DEF TableIds, Fine
    <3>4. \A i \in 1..NumZones, k \in KindName : \A s \in 1..Slots :
            Fine(i, k, s, zones[i].devs[k][s])'
      BY <3>1, <3>2, <3>3, StaysFine
    <3> QED BY <3>4 DEF TableIds, Fine
  <2> QED BY <2>1, <2>2, <2>3 DEF Next
<1>2. PrintingBranch' /\ AddressesAreListed'
  <2> USE DEF PrintingBranch, AddressesAreListed
  <2>1. CASE Store \/ DataSend
    BY <2>1 DEF Store, StoreWord, DataSend, loopVars
  <2>7. CASE ReceiveAnswer
    <3>1. /\ regulator' = regulator /\ kind' = kind /\ msgTx' = msgTx /\ quiet' = FALSE
      BY <2>7 DEF ReceiveAnswer, loopVars
    <3>2. regulator = "send" => ListedId(Kind[kind], msgTx, {0}) BY WiderGaps
    <3> QED BY <3>1, <3>2
  <2>2. CASE Wake \/ EnterZone \/ FinishScan \/ Send
    BY <2>2 DEF Wake, EnterZone, FinishScan, Send
  <2>3. CASE Decide
    <3>1. regulator = "device" /\ dev <= NumDevices /\ ~Unused(EndDevice)
      BY <2>3 DEF Decide, AtDevice
    <3>2. quiet => pos = Idle BY DEF Scanning
    <3>3. /\ ListedId(Kind[kind], EndDevice, {0})
          /\ quiet => ListedId(Kind[kind], EndDevice, {})
      BY <3>1, <3>2, EntryIds
    <3>4. /\ msgTx' = Command(Kind[kind], Reading, EndDevice)
          /\ regulator' = IF Prints(Kind[kind], msgTx'.code) THEN "print" ELSE "send"
          /\ kind' = kind /\ quiet' = quiet
      BY <2>3 DEF Decide, loopVars
    <3>5. msgTx'.low = EndDevice.low /\ msgTx'.high = EndDevice.high
      BY <3>4 DEF Command
    <3> HIDE DEF EndDevice
    <3>6. ~Unused(msgTx') BY <3>1, <3>5 DEF Unused
    <3>7. /\ ListedId(Kind[kind], msgTx', {0})
          /\ quiet => ListedId(Kind[kind], msgTx', {})
      BY <3>3, <3>5, WiderGaps
    <3> QED BY <3>4, <3>6, <3>7
  <2>4. CASE Printed
    <3>1. /\ regulator = "print" /\ dev <= NumDevices /\ msgTx \in CommandRow
      BY <2>4 DEF Printed, Types, TypeOK, Shape
    <3>2. quiet => pos = Idle /\ ~Unused(EndDevice) BY <3>1 DEF Scanning
    <3>3. /\ Unused(EndDevice) \/ ListedId(Kind[kind], EndDevice, {0})
          /\ quiet => ListedId(Kind[kind], EndDevice, {})
      BY <3>1, <3>2, EntryIds
    <3>4. /\ msgTx' = [msgTx EXCEPT !.low = EndDevice.low, !.high = EndDevice.high]
          /\ regulator' = "send" /\ kind' = kind /\ quiet' = quiet
      BY <2>4 DEF Printed, loopVars
    <3> HIDE DEF EndDevice
    <3>5. /\ msgTx'.low = EndDevice.low /\ msgTx'.high = EndDevice.high
          /\ msgTx'.code = msgTx.code
      BY <3>1, <3>4 DEF CommandRow
    <3>6. Prints(Kind[kind], msgTx.code) /\ ListedId(Kind[kind], msgTx, {0}) BY <3>1
    <3>7. ListedId(Kind[kind], msgTx', {0})
      <4>1. CASE Unused(EndDevice) BY <3>5, <3>6, <4>1, WiderGaps DEF Unused
      <4>2. CASE ListedId(Kind[kind], EndDevice, {0}) BY <3>5, <4>2, WiderGaps
      <4> QED BY <3>3, <4>1, <4>2
    <3>8. quiet => ListedId(Kind[kind], msgTx', {}) BY <3>3, <3>5, WiderGaps
    <3> QED BY <3>4, <3>5, <3>6, <3>7, <3>8
  <2>5. CASE LeaveAlone BY <2>5 DEF LeaveAlone, AtDevice
  <2>6. CASE FinishKind BY <2>6 DEF FinishKind
  <2> QED BY <2>1, <2>2, <2>3, <2>4, <2>5, <2>6, <2>7 DEF Next, RegulatorTask
<1> QED BY <1>1, <1>2
-------------------------------------------------------------------------------
(* The scan.                                                               *)

(* The table asks for the same as long as it is left alone.                *)
LEMMA SameTable ==
  ASSUME zones' = zones
  PROVE  \A p \in Place : (Demanding(p)' <=> Demanding(p)) /\ AskedAt(p)' = AskedAt(p)
BY DEF Demanding, Used, Visited, AskedAt, Asked

(* The scan moves on, past places that ask for nothing.                    *)
LEMMA NothingPassed ==
  ASSUME zones' = zones, scanned' = scanned, ScannedSoFar,
         \A p \in Place : Before(p) /\ Demanding(p) => Before(p)',
         \A p \in Place : Before(p)' /\ Demanding(p) => Before(p) \/ AskedAt(p) = {}
  PROVE  ScannedSoFar'
<1>1. \A p \in Place : (Demanding(p)' <=> Demanding(p)) /\ AskedAt(p)' = AskedAt(p)
  BY SameTable
<1>2. \A p \in Place : (Before(p) /\ Demanding(p))' => AskedAt(p)' \subseteq scanned'
  <2> SUFFICES ASSUME NEW p \in Place, Before(p)', Demanding(p)'
               PROVE  AskedAt(p)' \subseteq scanned'
    OBVIOUS
  <2>1. Demanding(p) /\ AskedAt(p)' = AskedAt(p) BY <1>1
  <2>2. Before(p) \/ AskedAt(p) = {} BY <2>1
  <2> QED BY <2>1, <2>2 DEF ScannedSoFar
<1>3. \A c \in scanned' :
        \E p \in Place : (Before(p) /\ Demanding(p))' /\ c \in AskedAt(p)'
  <2> SUFFICES ASSUME NEW c \in scanned
               PROVE  \E p \in Place : (Before(p) /\ Demanding(p))' /\ c \in AskedAt(p)'
    OBVIOUS
  <2>1. PICK p \in Place : Before(p) /\ Demanding(p) /\ c \in AskedAt(p)
    BY DEF ScannedSoFar
  <2> QED BY <1>1, <2>1
<1> QED BY <1>2, <1>3 DEF ScannedSoFar

(* The places of a list from its first unused slot on ask for nothing.     *)
LEMMA EndOfList ==
  ASSUME Types, regulator = "device", ~AtDevice,
         NEW p \in Place, Demanding(p), p[1] = zNum, p[2] = kind
  PROVE  p[3] < dev
<1>1. p[3] \in 1..NumDevices /\ dev \in 1..NumDevices + 1 /\ NumDevices \in Nat
  BY Sizes DEF Place, Types, TypeOK
<1>2. SUFFICES ASSUME dev <= p[3] PROVE FALSE BY <1>1
<1>3. dev \in 1..p[3] BY <1>1, <1>2
<1>4. ~Unused(zones[zNum].devs[Kind[kind]][dev]) BY <1>3 DEF Demanding, Visited
<1>5. dev <= NumDevices BY <1>1, <1>2
<1> QED BY <1>4, <1>5 DEF AtDevice, EndDevice

LEMMA PlaceTypes ==
  ASSUME NEW p \in Place
  PROVE  /\ p[1] \in 1..NumZones /\ p[2] \in 1..3 /\ p[3] \in 1..NumDevices
         /\ p = <<p[1], p[2], p[3]>>
BY DEF Place

(* The place the scan is at is one the table asks a command for, if any.   *)
LEMMA Here ==
  ASSUME Types, regulator \in {"device", "print", "send"}, dev <= NumDevices, InZone,
         \A h \in 1..(zNum - 1) : zones[h].zoneID # 0, ~Unused(EndDevice)
  PROVE  <<zNum, kind, dev>> \in Place /\ Demanding(<<zNum, kind, dev>>)
<1>1. zNum \in 1..NumZones /\ kind \in 1..3 /\ dev \in 1..NumDevices BY Entries
<1>2. NumZones \in Nat /\ NumDevices \in Nat BY Sizes
<1>3. \A h \in 1..zNum : h = zNum \/ h \in 1..(zNum - 1) BY <1>1, <1>2
<1>4. Used(zNum) BY <1>3 DEF Used, InZone
<1>5. \A r \in 1..dev : r = dev \/ r \in 1..(dev - 1) BY <1>1, <1>2
<1>6. Visited(zNum, kind, dev) BY <1>5 DEF Visited, InZone, EndDevice
<1>7. <<zNum, kind, dev>> \in Place BY <1>1 DEF Place
<1> QED BY <1>4, <1>6, <1>7 DEF Demanding

(* What the readings and thresholds say of the place the scan is at.       *)
LEMMA AskedHere ==
  ASSUME Types, regulator = "device", dev <= NumDevices
  PROVE  /\ Reading > EndDevice.up \/ Reading < EndDevice.down =>
              AskedAt(<<zNum, kind, dev>>) =
                {Command(Kind[kind], Reading, EndDevice)}
         /\ Reading <= EndDevice.up /\ Reading >= EndDevice.down =>
              AskedAt(<<zNum, kind, dev>>) = {}
<1>1. Reading \in Int /\ EndDevice.up \in Int /\ EndDevice.down \in Int
  BY Entries DEF DeviceRow
<1>2. AskedAt(<<zNum, kind, dev>>) =
        IF Reading > EndDevice.up \/ Reading < EndDevice.down
        THEN {Command(Kind[kind], Reading, EndDevice)} ELSE {}
  BY DEF AskedAt, Asked, EndDevice, Reading
<1> HIDE DEF EndDevice, Reading
<1> QED BY <1>1, <1>2

(* The scan passes the place it is at.                                     *)
LEMMA Passing ==
  ASSUME Types, zNum \in 1..NumZones, kind \in 1..3, dev \in 1..NumDevices,
         regulator # "zone", regulator' # "zone",
         zNum' = zNum, kind' = kind, dev' = dev + 1,
         NEW p \in Place
  PROVE  Before(p)' <=> Before(p) \/ p = <<zNum, kind, dev>>
<1>1. /\ p[1] \in 1..NumZones /\ p[2] \in 1..3 /\ p[3] \in 1..NumDevices
      /\ p = <<p[1], p[2], p[3]>>
  BY PlaceTypes
<1>2. p[3] < dev + 1 <=> p[3] < dev \/ p[3] = dev BY <1>1, Sizes
<1>3. p = <<zNum, kind, dev>> <=> p[1] = zNum /\ p[2] = kind /\ p[3] = dev BY <1>1
<1>4. ~(p[1] = zNum /\ p[1] < zNum) BY <1>1
<1> QED BY <1>2, <1>3, <1>4 DEF Before

(* Nothing that the scan looks at changes.                                 *)
LEMMA ScanStands ==
  ASSUME Scanning, zones' = zones, pos' = pos, quiet' = quiet, regulator' = regulator,
         zNum' = zNum, kind' = kind, dev' = dev, msgTx' = msgTx, scanned' = scanned
  PROVE  Scanning'
<1> SUFFICES ASSUME quiet PROVE Scanning' BY DEF Scanning
<1>1. ASSUME ScannedSoFar PROVE ScannedSoFar'
  <2>1. \A p \in Place : Before(p)' <=> Before(p) BY DEF Before
  <2> QED BY <1>1, <2>1, NothingPassed
<1>2. InZone' <=> InZone BY DEF InZone
<1>3. EndDevice' = EndDevice BY DEF EndDevice
<1>4. AskedAt(<<zNum, kind, dev>>)' = AskedAt(<<zNum, kind, dev>>)
  BY DEF AskedAt, Asked
<1> QED BY <1>1, <1>2, <1>3, <1>4 DEF Scanning

LEMMA StepScanning ==
  ASSUME Types, Scanning, Next
  PROVE  Scanning'
<1>1. CASE ReceiveAnswer BY <1>1 DEF ReceiveAnswer, Scanning
<1>2. CASE Store
  <2>1. pos # Idle /\ quiet' = quiet BY <1>2, Storing DEF Store, StoreWord
  <2> QED BY <2>1 DEF Scanning
<1>3. CASE DataSend
  <2>1. /\ zones' = zones /\ pos' = pos /\ quiet' = quiet /\ regulator' = regulator
        /\ zNum' = zNum /\ kind' = kind /\ dev' = dev /\ msgTx' = msgTx
        /\ scanned' = scanned
    BY <1>3 DEF DataSend, httpVars, loopVars
  <2> QED BY <2>1, ScanStands
<1>4. CASE Wake
  <2>1. /\ regulator' = "zone" /\ zNum' = 1 /\ scanned' = {} /\ pos' = pos
        /\ quiet' = (pos = Idle)
    BY <1>4 DEF Wake, httpVars
  <2>2. \A p \in Place : ~Before(p)' BY <2>1, PlaceTypes DEF Before
  <2>3. ScannedSoFar' BY <2>1, <2>2 DEF ScannedSoFar
  <2>4. \A h \in 1..(zNum' - 1) : zones'[h].zoneID # 0 BY <2>1
  <2> QED BY <2>1, <2>3, <2>4 DEF Scanning
<1>5. CASE FinishScan
  <2>1. regulator' = "sleep" /\ pos' = pos /\ quiet' = quiet
    BY <1>5 DEF FinishScan, httpVars
  <2> QED BY <2>1 DEF Scanning
<1>6. ASSUME RegulatorTask, ~Wake, ~FinishScan, quiet'
      PROVE  /\ quiet /\ zones' = zones /\ pos' = pos /\ pos = Idle /\ ScannedSoFar
             /\ \A h \in 1..(zNum - 1) : zones[h].zoneID # 0
  <2>1. quiet' = quiet /\ zones' = zones /\ pos' = pos /\ regulator # "sleep"
    BY <1>6 DEF RegulatorTask, EnterZone, Decide, Printed, Send, LeaveAlone,
                FinishKind, httpVars, AtDevice
  <2> QED BY <1>6, <2>1 DEF Scanning
<1>7. ASSUME EnterZone, quiet' PROVE Scanning'
  <2>1. /\ regulator = "zone" /\ zones[zNum].zoneID # 0 /\ regulator' = "device"
        /\ kind' = 1 /\ dev' = 1 /\ zNum' = zNum /\ scanned' = scanned
    BY <1>7 DEF EnterZone, AtZone
  <2>2. /\ quiet /\ zones' = zones /\ pos' = pos /\ pos = Idle /\ ScannedSoFar
        /\ \A h \in 1..(zNum - 1) : zones[h].zoneID # 0
    BY <1>6, <1>7, <2>1 DEF RegulatorTask, Wake, FinishScan
  <2>3. \A p \in Place : Before(p)' <=> Before(p)
    <3> SUFFICES ASSUME NEW p \in Place PROVE Before(p)' <=> Before(p) OBVIOUS
    <3>1. p[2] \in 1..3 /\ p[3] \in 1..NumDevices BY PlaceTypes
    <3>2. ~(p[2] < 1) /\ ~(p[3] < 1) BY <3>1, Sizes
    <3> QED BY <2>1, <3>2 DEF Before
  <2>4. ScannedSoFar' BY <2>1, <2>2, <2>3, NothingPassed
  <2>5. InZone' BY <2>1, <2>2 DEF InZone
  <2> QED BY <2>1, <2>2, <2>4, <2>5 DEF Scanning
<1>8. ASSUME Decide, quiet' PROVE Scanning'
  <2>1. /\ regulator = "device" /\ dev <= NumDevices /\ ~Unused(EndDevice)
        /\ Reading > EndDevice.up \/ Reading < EndDevice.down
        /\ msgTx' = Command(Kind[kind], Reading, EndDevice)
        /\ regulator' \in {"print", "send"} /\ zNum' = zNum /\ kind' = kind /\ dev' = dev
        /\ scanned' = scanned
    BY <1>8 DEF Decide, AtDevice, loopVars
  <2>2. /\ quiet /\ zones' = zones /\ pos' = pos /\ pos = Idle /\ ScannedSoFar
        /\ \A h \in 1..(zNum - 1) : zones[h].zoneID # 0
    BY <1>6, <1>8, <2>1 DEF RegulatorTask, Wake, FinishScan
  <2>3. \A p \in Place : Before(p)' <=> Before(p) BY <2>1 DEF Before
  <2>4. ScannedSoFar' BY <2>1, <2>2, <2>3, NothingPassed
  <2>5. InZone BY <2>1, <2>2 DEF Scanning
  <2>6. InZone' BY <2>1, <2>2, <2>5 DEF InZone
  <2>7. AskedAt(<<zNum, kind, dev>>) = {msgTx'} BY <2>1, AskedHere
  <2>8. AskedAt(<<zNum, kind, dev>>)' = AskedAt(<<zNum, kind, dev>>)
    BY <2>1, <2>2 DEF AskedAt, Asked
  <2>9. EndDevice' = EndDevice BY <2>1, <2>2 DEF EndDevice
  <2> HIDE DEF EndDevice
  <2> QED BY <2>1, <2>2, <2>4, <2>6, <2>7, <2>8, <2>9 DEF Scanning
<1>9. ASSUME Printed, quiet' PROVE Scanning'
  <2>1. /\ regulator = "print" /\ regulator' = "send" /\ scanned' = scanned
        /\ zNum' = zNum /\ kind' = kind /\ dev' = dev
        /\ msgTx' = [msgTx EXCEPT !.low = EndDevice.low, !.high = EndDevice.high]
    BY <1>9 DEF Printed, loopVars
  <2>2. /\ quiet /\ zones' = zones /\ pos' = pos /\ pos = Idle /\ ScannedSoFar
        /\ \A h \in 1..(zNum - 1) : zones[h].zoneID # 0
    BY <1>6, <1>9, <2>1 DEF RegulatorTask, Wake, FinishScan
  <2>3. \A p \in Place : Before(p)' <=> Before(p) BY <2>1 DEF Before
  <2>4. ScannedSoFar' BY <2>1, <2>2, <2>3, NothingPassed
  <2>5. /\ InZone /\ ~Unused(EndDevice)
        /\ AskedAt(<<zNum, kind, dev>>) = {msgTx}
    BY <2>1, <2>2 DEF Scanning
  <2>6. InZone' BY <2>1, <2>2, <2>5 DEF InZone
  <2>7. dev <= NumDevices /\ msgTx \in CommandRow
    BY <2>1 DEF Types, TypeOK, Shape
  <2>8. msgTx.low = EndDevice.low /\ msgTx.high = EndDevice.high
    <3>1. msgTx \in AskedAt(<<zNum, kind, dev>>) BY <2>5
    <3>2. msgTx = Command(Kind[kind], Reading, EndDevice)
      BY <3>1 DEF AskedAt, Asked, EndDevice, Reading
    <3> HIDE DEF EndDevice
    <3> QED BY <3>2 DEF Command
  <2>9. msgTx' = msgTx BY <2>1, <2>7, <2>8 DEF CommandRow
  <2>10. AskedAt(<<zNum, kind, dev>>)' = AskedAt(<<zNum, kind, dev>>)
    BY <2>1, <2>2 DEF AskedAt, Asked
  <2>11. EndDevice' = EndDevice BY <2>1, <2>2 DEF EndDevice
  <2> HIDE DEF EndDevice
  <2> QED BY <2>1, <2>2, <2>4, <2>5, <2>6, <2>9, <2>10, <2>11 DEF Scanning
<1>10. ASSUME Send, quiet' PROVE Scanning'
  <2> DEFINE here == <<zNum, kind, dev>>
  <2>1. /\ regulator = "send" /\ regulator' = "device" /\ dev' = dev + 1
        /\ zNum' = zNum /\ kind' = kind
        /\ scanned' = IF quiet THEN scanned \cup {msgTx} ELSE {}
    BY <1>10 DEF Send
  <2>2. /\ quiet /\ zones' = zones /\ pos' = pos /\ pos = Idle /\ ScannedSoFar
        /\ \A h \in 1..(zNum - 1) : zones[h].zoneID # 0
    BY <1>6, <1>10, <2>1 DEF RegulatorTask, Wake, FinishScan
  <2>3. InZone /\ ~Unused(EndDevice) /\ AskedAt(here) = {msgTx}
    BY <2>1, <2>2 DEF Scanning
  <2>4. dev <= NumDevices BY <2>1 DEF Types, Shape
  <2>5. /\ zNum \in 1..NumZones /\ kind \in 1..3 /\ dev \in 1..NumDevices
    BY <2>1, <2>4, Entries
  <2>6. here \in Place /\ Demanding(here) BY <2>1, <2>2, <2>3, <2>4, Here
  <2> HIDE DEF here
  <2>7. \A p \in Place : Before(p)' <=> Before(p) \/ p = here
    BY <2>1, <2>5, Passing DEF here
  <2>8. \A p \in Place : (Demanding(p)' <=> Demanding(p)) /\ AskedAt(p)' = AskedAt(p)
    BY <2>2, SameTable
  <2>9. scanned' = scanned \cup {msgTx} BY <2>1, <2>2
  <2>10. \A p \in Place : (Before(p) /\ Demanding(p))' => AskedAt(p)' \subseteq scanned'
    <3> SUFFICES ASSUME NEW p \in Place, Before(p)', Demanding(p)'
                 PROVE  AskedAt(p)' \subseteq scanned'
      OBVIOUS
    <3>1. CASE Before(p) BY <2>2, <2>8, <2>9, <3>1 DEF ScannedSoFar
    <3>2. CASE p = here BY <2>3, <2>8, <2>9, <3>2
    <3> QED BY <2>7, <3>1, <3>2
  <2>11. \A c \in scanned' :
           \E p \in Place : (Before(p) /\ Demanding(p))' /\ c \in AskedAt(p)'
    <3> SUFFICES ASSUME NEW c \in scanned'
                 PROVE  \E p \in Place : (Before(p) /\ Demanding(p))' /\ c \in AskedAt(p)'
      OBVIOUS
    <3>1. CASE c \in scanned
      <4>1. PICK p \in Place : Before(p) /\ Demanding(p) /\ c \in AskedAt(p)
        BY <2>2, <3>1 DEF ScannedSoFar
      <4> QED BY <2>7, <2>8, <4>1
    <3>2. CASE c = msgTx BY <2>3, <2>6, <2>7, <2>8, <3>2
    <3> QED BY <2>9, <3>1, <3>2
  <2>12. ScannedSoFar' BY <2>10, <2>11 DEF ScannedSoFar
  <2>13. InZone'
    <3>1. \A r \in 1..(dev' - 1) : r = dev \/ r \in 1..(dev - 1) BY <2>1, <2>5, Sizes
    <3> QED BY <2>1, <2>2, <2>3, <3>1 DEF InZone, EndDevice
  <2> QED BY <2>1, <2>2, <2>12, <2>13 DEF Scanning
<1>11. ASSUME LeaveAlone, quiet' PROVE Scanning'
  <2>1. /\ regulator = "device" /\ dev <= NumDevices /\ ~Unused(EndDevice)
        /\ Reading <= EndDevice.up /\ Reading >= EndDevice.down
        /\ regulator' = "device" /\ dev' = dev + 1 /\ zNum' = zNum /\ kind' = kind
        /\ scanned' = scanned
    BY <1>11 DEF LeaveAlone, AtDevice
  <2>2. /\ quiet /\ zones' = zones /\ pos' = pos /\ pos = Idle /\ ScannedSoFar
        /\ \A h \in 1..(zNum - 1) : zones[h].zoneID # 0
    BY <1>6, <1>11, <2>1 DEF RegulatorTask, Wake, FinishScan
  <2>3. InZone BY <2>1, <2>2 DEF Scanning
  <2>4. /\ zNum \in 1..NumZones /\ kind \in 1..3 /\ dev \in 1..NumDevices
    BY <2>1, Entries
  <2>5. \A p \in Place : Before(p)' <=> Before(p) \/ p = <<zNum, kind, dev>>
    BY <2>1, <2>4, Passing
  <2>6. AskedAt(<<zNum, kind, dev>>) = {} BY <2>1, AskedHere
  <2>7. ScannedSoFar' BY <2>1, <2>2, <2>5, <2>6, NothingPassed
  <2>8. InZone'
    <3>1. \A r \in 1..(dev' - 1) : r = dev \/ r \in 1..(dev - 1) BY <2>1, <2>4, Sizes
    <3> QED BY <2>1, <2>2, <2>3, <3>1 DEF InZone, EndDevice
  <2> QED BY <2>1, <2>2, <2>7, <2>8 DEF Scanning
<1>12. ASSUME FinishKind, quiet' PROVE Scanning'
  <2>1. /\ regulator = "device" /\ ~AtDevice /\ scanned' = scanned
        /\ \/ /\ kind < 3 /\ kind' = kind + 1 /\ dev' = 1
              /\ regulator' = regulator /\ zNum' = zNum
           \/ /\ ~(kind < 3) /\ zNum' = zNum + 1 /\ regulator' = "zone"
              /\ kind' = kind /\ dev' = dev
    BY <1>12 DEF FinishKind
  <2>2. /\ quiet /\ zones' = zones /\ pos' = pos /\ pos = Idle /\ ScannedSoFar
        /\ \A h \in 1..(zNum - 1) : zones[h].zoneID # 0
    BY <1>6, <1>12, <2>1 DEF RegulatorTask, Wake, FinishScan
  <2>3. InZone BY <2>1, <2>2 DEF Scanning
  <2>4. zNum \in 1..NumZones + 1 /\ kind \in 1..3 /\ dev \in 1..NumDevices + 1
    BY DEF Types, TypeOK
  <2>5. \A p \in Place : Demanding(p) => (Before(p)' <=> Before(p))
    <3> SUFFICES ASSUME NEW p \in Place, Demanding(p) PROVE Before(p)' <=> Before(p)
      OBVIOUS
    <3>1. p[1] \in 1..NumZones /\ p[2] \in 1..3 /\ p[3] \in 1..NumDevices BY PlaceTypes
    <3>2. p[1] = zNum /\ p[2] = kind => p[3] < dev BY <2>1, EndOfList
    <3>3. CASE kind < 3
      <4>1. /\ kind' = kind + 1 /\ dev' = 1 /\ regulator' = "device" /\ zNum' = zNum
        BY <2>1, <3>3
      <4>2. p[2] < kind + 1 <=> p[2] < kind \/ p[2] = kind BY <2>4, <3>1
      <4>3. ~(p[3] < 1) BY <3>1, Sizes
      <4> QED BY <2>1, <3>2, <4>1, <4>2, <4>3 DEF Before
    <3>4. CASE ~(kind < 3)
      <4>1. zNum' = zNum + 1 /\ regulator' = "zone" BY <2>1, <3>4
      <4>2. p[1] < zNum + 1 <=> p[1] < zNum \/ p[1] = zNum BY <2>4, <3>1, Sizes
      <4>3. p[2] < kind \/ p[2] = kind BY <2>4, <3>1, <3>4
      <4> QED BY <2>1, <3>2, <4>1, <4>2, <4>3 DEF Before
    <3> QED BY <3>3, <3>4
  <2>6. ScannedSoFar' BY <2>1, <2>2, <2>5, NothingPassed
  <2>7. CASE kind < 3
    <3>1. /\ dev' = 1 /\ regulator' = "device" /\ zNum' = zNum BY <2>1, <2>7
    <3>2. InZone' BY <2>2, <2>3, <3>1 DEF InZone
    <3> QED BY <2>2, <2>6, <3>1, <3>2 DEF Scanning
  <2>8. CASE ~(kind < 3)
    <3>1. regulator' = "zone" /\ zNum' = zNum + 1 BY <2>1, <2>8
    <3>2. \A h \in 1..(zNum' - 1) : h = zNum \/ h \in 1..(zNum - 1)
      BY <2>4, <3>1, Sizes
    <3>3. \A h \in 1..(zNum' - 1) : zones'[h].zoneID # 0
      BY <2>2, <2>3, <3>2 DEF InZone
    <3> QED BY <2>2, <2>6, <3>1, <3>3 DEF Scanning
  <2> QED BY <2>7, <2>8
<1>13. CASE ~quiet' BY <1>13 DEF Scanning
<1> QED BY <1>1, <1>2, <1>3, <1>4, <1>5, <1>7, <1>8, <1>9, <1>10, <1>11, <1>12, <1>13
        DEF Next, RegulatorTask
-------------------------------------------------------------------------------
LEMMA StepInstalling ==
  ASSUME Types, Installing, Next
  PROVE  Installing'
<1>1. CASE Store BY <1>1, StoreInstalls DEF Store
<1>2. CASE ReceiveAnswer
  <2>1. answer' \in Answers /\ pos' = IF answer' = <<>> THEN Idle ELSE At("zoneID", 1, 1, 1)
    BY <1>2 DEF ReceiveAnswer
  <2>2. CASE answer' = <<>>
    <3>1. pos' = Idle BY <2>1, <2>2
    <3>2. Listed(answer') = 0 BY <2>2, Sizes DEF Listed
    <3>3. AnswerInstalled' BY <3>2 DEF AnswerInstalled
    <3> QED BY <3>1, <3>3 DEF Installing
  <2>3. CASE answer' # <<>>
    <3>1. pos' = [field |-> "zoneID", i |-> 1, t |-> 1, j |-> 1, left |-> Words("zoneID")]
      BY <2>1, <2>3 DEF At
    <3>2. pos'.field = "zoneID" /\ pos'.i = 1 BY <3>1
    <3>3. pos' # Idle BY <3>2 DEF Idle, At
    <3>4. \A i \in 1..(pos'.i - 1) : Holds(i)' BY <3>2
    <3>5. Written(zones'[pos'.i], answer'[pos'.i], pos'.field, pos'.t, pos'.j, pos'.left)
      BY <3>2 DEF Written
    <3> QED BY <3>3, <3>4, <3>5 DEF Installing, AnswerInstalled
  <2> QED BY <2>2, <2>3
<1>3. CASE DataSend \/ RegulatorTask
  <2>1. zones' = zones /\ answer' = answer /\ pos' = pos
    BY <1>3, RegulatorStepTypes DEF DataSend, httpVars
  <2>2. \A i \in 1..NumZones : Holds(i)' <=> Holds(i) BY <2>1 DEF Holds
  <2>3. Listed(answer) \in 0..NumZones /\ NumZones \in Nat
    BY AnswerFacts, Sizes DEF Types, TypeOK
  <2>4. AnswerInstalled'
    <3>1. \A i \in 1..Listed(answer) : i \in 1..NumZones BY <2>3
    <3> QED BY <2>1, <2>2, <3>1 DEF Installing, AnswerInstalled
  <2>5. ASSUME pos # Idle PROVE \A i \in 1..(pos.i - 1) : Holds(i)'
    <3>1. pos.i \in 1..NumZones BY <2>5, Positions
    <3>2. \A i \in 1..(pos.i - 1) : i \in 1..NumZones BY <2>3, <3>1
    <3> QED BY <2>2, <2>5, <3>2 DEF Installing
  <2> QED BY <2>1, <2>4, <2>5 DEF Installing
<1> QED BY <1>1, <1>2, <1>3 DEF Next

LEMMA InitIInv ==
  ASSUME Init
  PROVE  IInv
<1>1. /\ zones = [i \in 1..NumZones |-> NoZone] /\ answer = <<>> /\ pos = Idle
      /\ regulator = "sleep" /\ zNum = 1 /\ kind = 1 /\ dev = 1 /\ msgTx = NoCommand
      /\ queued = 0 /\ quiet = TRUE /\ scanned = {}
  BY DEF Init
<1>2. NoZone \in ZoneRow BY DEF NoZone, ZoneRow, DeviceRow, NoEndDevice
<1>3. zones \in [1..NumZones -> ZoneRow] BY <1>1, <1>2
<1>4. TypeOK
  BY <1>1, <1>3, Sizes DEF TypeOK, ZoneRow, Position, RegulatorPc, NoCommand,
                             CommandRow
<1>5. Shape BY <1>1 DEF Shape
<1>6. Installing
  <2>1. Listed(answer) = 0 BY <1>1, Sizes DEF Listed
  <2> QED BY <1>1, <2>1 DEF Installing, AnswerInstalled
<1>7. ListedIds
  <2>1. TableIds BY <1>1 DEF TableIds, NoZone, NoEndDevice, Unused
  <2> QED BY <1>1, <2>1 DEF ListedIds, PrintingBranch, AddressesAreListed
<1>8. Scanning BY <1>1 DEF Scanning
<1> QED BY <1>4, <1>5, <1>6, <1>7, <1>8 DEF IInv, Types

LEMMA StepIInv ==
  ASSUME IInv, [Next]_vars
  PROVE  IInv'
<1> USE DEF IInv
<1>1. CASE Next
  <2>1. Types' BY <1>1, HttpTypes, RegulatorStepTypes DEF Next
  <2> QED BY <1>1, <2>1, StepInstalling, StepIds, StepScanning
<1>2. CASE UNCHANGED vars
  <2>1. /\ zones' = zones /\ answer' = answer /\ pos' = pos /\ regulator' = regulator
        /\ zNum' = zNum /\ kind' = kind /\ dev' = dev /\ msgTx' = msgTx
        /\ queued' = queued /\ quiet' = quiet /\ scanned' = scanned
    BY <1>2 DEF vars, httpVars, loopVars
  <2>2. Types' BY <2>1 DEF Types, TypeOK, Shape, Devices
  <2>3. Installing' BY <2>1 DEF Installing, AnswerInstalled, Holds
  <2>4. ListedIds'
    BY <2>1 DEF ListedIds, TableIds, Gaps, Loose, PrintingBranch, AddressesAreListed
  <2>5. Scanning' BY <2>1, ScanStands
  <2> QED BY <2>2, <2>3, <2>4, <2>5
<1> QED BY <1>1, <1>2

(* The variables keep their types, and neither task leaves the table: each *)
(* store is to an entry and a slot of it, each visit to one of them.       *)
THEOREM TypesHold == Spec => []Types
<1>1. IInv => Types BY DEF IInv
<1> QED BY <1>1, InitIInv, StepIInv, PTL DEF Spec

(* When httpGetFullZones has made its last store, the table holds the      *)
(* answer and nothing older in every zone the answer lists.                *)
THEOREM AnswersAreInstalled == Spec => []AnswerInstalled
<1>1. IInv => AnswerInstalled BY DEF IInv, Installing
<1> QED BY <1>1, InitIInv, StepIInv, PTL DEF Spec

(* A command is addressed to a device that an answer lists; when its scan  *)
(* raced with a store, halves of that address may be 0, both of them only  *)
(* in a branch that printed before it read the id.  The halves of two      *)
(* devices never meet, because every slot is reset before it is filled.    *)
THEOREM AddressesHold == Spec => []AddressesAreListed
<1>1. IInv => AddressesAreListed BY DEF IInv, ListedIds
<1> QED BY <1>1, InitIInv, StepIInv, PTL DEF Spec

LEMMA FinishedScan ==
  ASSUME IInv, FinishScan, quiet
  PROVE  scanned = Demanded
<1>1. regulator = "zone" /\ ~AtZone BY DEF FinishScan
<1>2. ScannedSoFar /\ \A h \in 1..(zNum - 1) : zones[h].zoneID # 0
  BY <1>1 DEF IInv, Scanning
<1>3. zNum \in 1..NumZones + 1 /\ NumZones \in Nat BY Sizes DEF IInv, Types, TypeOK
<1>4. \A p \in Place : Demanding(p) => Before(p)
  <2> SUFFICES ASSUME NEW p \in Place, Demanding(p), ~(p[1] < zNum) PROVE FALSE
    BY DEF Before
  <2>1. p[1] \in 1..NumZones BY PlaceTypes
  <2>2. zNum \in 1..p[1] /\ zNum <= NumZones BY <1>3, <2>1
  <2>3. zones[zNum].zoneID # 0 BY <2>2 DEF Demanding, Used
  <2> QED BY <1>1, <2>2, <2>3 DEF AtZone
<1>5. \A c \in scanned : \E p \in Place : Demanding(p) /\ c \in AskedAt(p)
  BY <1>2 DEF ScannedSoFar
<1>6. \A p \in Place : Demanding(p) => AskedAt(p) \subseteq scanned
  BY <1>2, <1>4 DEF ScannedSoFar
<1>7. Demanded = UNION {AskedAt(p) : p \in {q \in Place : Demanding(q)}}
  BY DEF Demanded, AskedAt, Demanding
<1> QED BY <1>5, <1>6, <1>7

(* A scan during which httpGetFullZones stores nothing queues exactly the  *)
(* commands that the readings and thresholds of the table ask for.         *)
THEOREM QuietScans == Spec => QuietScanIsExact
<1>1. IInv /\ [Next]_vars => [FinishScan /\ quiet => scanned = Demanded]_vars
  BY FinishedScan
<1> QED BY <1>1, InitIInv, StepIInv, PTL DEF Spec, QuietScanIsExact
===============================================================================
