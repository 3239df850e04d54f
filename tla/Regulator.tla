------------------------------ MODULE Regulator ------------------------------
(***************************************************************************)
(* The control loop of the greenhouse controller: the table zones[], its   *)
(* rewriting by httpGetFullZones on the http task, and regulatorTask which *)
(* compares readings with thresholds and queues switching commands.        *)
(*                                                                         *)
(* No lock protects zones[].  The scheduler is strictly preemptive: the    *)
(* regulator (priority 5) runs over the http task (1) and dataSend (2),    *)
(* which advance only while it sleeps or blocks.  So http stores word by   *)
(* word, and the regulator may wake between any two stores: the struct     *)
(* assignment that resets a slot and the store of a 64-bit id are several  *)
(* of them on a 32-bit processor, in an order the compiler chooses.        *)
(*                                                                         *)
(* The three loops over temperature, humidity and light devices are one    *)
(* loop over Kind.  The onOff field is written and never read: left out.   *)
(***************************************************************************)
EXTENDS Integers, Sequences

CONSTANTS NumZones,     \* NUM_ZONES: length of zones[]
          Slots,        \* devices per kind that zones[] can hold
          NumDevices,   \* NUM_DEVICES: devices per kind the regulator visits
          TxCap,        \* mq_maxmsg of spiTxQueue
          Answers       \* bodies /devices/zones/full may return, see Answer

ASSUME SizeAssumption ==
  /\ NumZones \in Nat \ {0} /\ TxCap \in Nat \ {0}
  /\ Slots \in Nat /\ NumDevices \in Nat \ {0} /\ NumDevices <= Slots

Kind == <<"temp", "hum", "light">>       \* the order of the loops
KindName == {"temp", "hum", "light"}

(* An EndDevice by its words; low and high are the halves of its id.       *)
DeviceRow == [low : Nat, high : Nat, up : Int, down : Int]
AnswerZone == [zoneID : Nat, reading : [KindName -> Int],
               devs : [KindName -> Seq(DeviceRow)]]

ASSUME AnswerAssumption == Answers \subseteq Seq(AnswerZone)

NoEndDevice == [low |-> 0, high |-> 0, up |-> 0, down |-> 0]
NoZone == [zoneID |-> 0, reading |-> [k \in KindName |-> 0],
           devs |-> [k \in KindName |-> [s \in 1..Slots |-> NoEndDevice]]]
NoCommand == [low |-> 0, high |-> 0, code |-> 0]

Unused(d) == d.low = 0 /\ d.high = 0        \* its id is 0

Word == {"zoneID", "reading", "low", "high", "up", "down"}

(* The words an assignment of httpGetFullZones stores.                     *)
Words(f) == CASE f = "reset" -> {"low", "high", "up", "down"}
              [] f = "id"    -> {"low", "high"}
              [] f = "none"  -> {}
              [] OTHER       -> {f}

(* httpGetFullZones: where it stands in its loops over the zones (i), the  *)
(* three lists (t) and their slots (j), the field it is assigning and the  *)
(* words of it that are left to store.                                     *)
At(f, i, t, j) == [field |-> f, i |-> i, t |-> t, j |-> j, left |-> Words(f)]
Idle == At("none", 1, 1, 1)

VARIABLES
  zones,        \* the table the two tasks share
  answer,       \* the server's answer being stored, or stored last
  pos,          \* the stores of that answer under way, see At, or Idle
  regulator,    \* regulatorTask, see RegulatorPc
  zNum, kind, dev,   \* its loop counters, from 1
  msgTx,        \* the command under construction
  queued,       \* the number of commands in spiTxQueue
  quiet,        \* ghost: no store since this scan began, none under way
  scanned       \* ghost: commands this scan has queued while quiet

httpVars == <<answer, pos>>
loopVars == <<zNum, kind, dev>>
vars == <<zones, httpVars, regulator, loopVars, msgTx, queued, quiet,
          scanned>>

RegulatorPc == {"sleep", "zone", "device", "print", "send"}

Init ==
  /\ zones = [i \in 1..NumZones |-> NoZone]
  /\ answer = <<>> /\ pos = Idle
  /\ regulator = "sleep" /\ zNum = 1 /\ kind = 1 /\ dev = 1
  /\ msgTx = NoCommand
  /\ queued = 0 /\ quiet = TRUE /\ scanned = {}

(* The regulator leaves the processor to the other tasks.                  *)
Blocked == \/ regulator \in {"sleep", "print"}
           \/ regulator = "send" /\ queued >= TxCap
-------------------------------------------------------------------------------
(* httpGetFullZones.                                                       *)

(* Zones beyond the table are dropped, and devices beyond the array; table *)
(* entries beyond the answer are not touched.                              *)
Listed(a) == IF Len(a) < NumZones THEN Len(a) ELSE NumZones
Fitting(list) == IF Len(list) < Slots THEN Len(list) ELSE Slots

Devices(a, p) == a[p.i].devs[Kind[p.t]]

NextList(a, p) == IF p.t < 3 THEN At("reset", p.i, p.t + 1, 1)
                  ELSE IF p.i < Listed(a) THEN At("zoneID", p.i + 1, 1, 1)
                  ELSE Idle

NextDevice(a, p, j) == IF j <= Fitting(Devices(a, p)) THEN At("id", p.i, p.t, j)
                       ELSE NextList(a, p)

(* Mutant: only as many slots are reset as the regulator visits.           *)
NextResetVisited(a, p) ==
  IF p.j < NumDevices THEN At("reset", p.i, p.t, p.j + 1) ELSE NextDevice(a, p, 1)

NextReset(a, p) ==
  IF p.j < Slots THEN At("reset", p.i, p.t, p.j + 1) ELSE NextDevice(a, p, 1)

(* All slots of a list are reset, then the listed devices filled in field  *)
(* by field, each read by a call that no store can be moved across.        *)
After(a, p) ==
  CASE p.field = "zoneID"  -> At("reading", p.i, 1, 1)
    [] p.field = "reading" -> IF p.t < 3 THEN At("reading", p.i, p.t + 1, 1)
                                         ELSE At("reset", p.i, 1, 1)
    [] p.field = "reset"   -> NextReset(a, p)
    [] p.field = "id"      -> At("up", p.i, p.t, p.j)
    [] p.field = "up"      -> At("down", p.i, p.t, p.j)
    [] p.field = "down"    -> NextDevice(a, p, p.j + 1)

(* What is assigned to a slot: the empty struct, or fields of the device.  *)
NewContent(a, p) == IF p.field = "reset" THEN NoEndDevice ELSE Devices(a, p)[p.j]

(* Mutant: of an id only the low half is stored by the reset.              *)
SlotStoredLowOnly(old, a, p, w) ==
  LET new == NewContent(a, p) IN
  CASE w = "low"  -> [old EXCEPT !.low = new.low]
    [] w = "high" -> IF p.field = "reset" THEN old ELSE [old EXCEPT !.high = new.high]
    [] w = "up"   -> [old EXCEPT !.up = new.up]
    [] w = "down" -> [old EXCEPT !.down = new.down]

(* What storing word w makes of a slot.                                    *)
SlotStored(old, a, p, w) ==
  LET new == NewContent(a, p) IN
  CASE w = "low"  -> [old EXCEPT !.low = new.low]
    [] w = "high" -> [old EXCEPT !.high = new.high]
    [] w = "up"   -> [old EXCEPT !.up = new.up]
    [] w = "down" -> [old EXCEPT !.down = new.down]

Stored(zs, a, p, w) ==
  LET k == Kind[p.t] IN
  CASE p.field = "zoneID"  -> [zs EXCEPT ![p.i].zoneID = a[p.i].zoneID]
    [] p.field = "reading" -> [zs EXCEPT ![p.i].reading[k] = a[p.i].reading[k]]
    [] OTHER               ->
         [zs EXCEPT ![p.i].devs[k][p.j] = SlotStored(@, a, p, w)]

(* A request that fails returns before any store and is no step here.      *)
ReceiveAnswer ==
  /\ Blocked /\ pos = Idle
  /\ \E a \in Answers : /\ answer' = a
                        /\ pos' = IF a = <<>> THEN Idle ELSE At("zoneID", 1, 1, 1)
  /\ quiet' = FALSE /\ scanned' = {}
  /\ UNCHANGED <<zones, regulator, loopVars, msgTx, queued>>

(* Word w, and after the last one of a field on to the next.               *)
StoreWord(w) ==
  /\ Blocked /\ w \in pos.left
  /\ zones' = Stored(zones, answer, pos, w)
  /\ pos' = IF pos.left = {w} THEN After(answer, pos)
                             ELSE [pos EXCEPT !.left = @ \ {w}]
  /\ UNCHANGED <<answer, regulator, loopVars, msgTx, queued, quiet,
                 scanned>>

Store == \E w \in Word : StoreWord(w)

(* dataSend takes a command; what becomes of it is SpiLink's matter.       *)
DataSend ==
  /\ Blocked /\ queued > 0
  /\ queued' = queued - 1
  /\ UNCHANGED <<zones, httpVars, regulator, loopVars, msgTx, quiet, scanned>>
-------------------------------------------------------------------------------
(* regulatorTask.                                                          *)

(* Task_sleep(5000) ends.                                                  *)
Wake ==
  /\ regulator = "sleep"
  /\ regulator' = "zone" /\ zNum' = 1
  /\ quiet' = (pos = Idle) /\ scanned' = {}
  /\ UNCHANGED <<zones, httpVars, kind, dev, msgTx, queued>>

(* The scan stops at the first unused entry.                               *)
AtZone == zNum <= NumZones /\ zones[zNum].zoneID # 0

EnterZone ==
  /\ regulator = "zone" /\ AtZone
  /\ regulator' = "device" /\ kind' = 1 /\ dev' = 1
  /\ UNCHANGED <<zones, httpVars, zNum, msgTx, queued, quiet, scanned>>

FinishScan ==
  /\ regulator = "zone" /\ ~AtZone
  /\ regulator' = "sleep"
  /\ UNCHANGED <<zones, httpVars, loopVars, msgTx, queued, quiet, scanned>>

Reading == zones[zNum].reading[Kind[kind]]
EndDevice == zones[zNum].devs[Kind[kind]][dev]

(* Mutant: the last device of a list is not visited.                       *)
AtDeviceOffByOne ==
  regulator = "device" /\ dev < NumDevices /\ ~Unused(EndDevice)

(* A list ends at its first unused slot, or after NUM_DEVICES.             *)
AtDevice == regulator = "device" /\ dev <= NumDevices /\ ~Unused(EndDevice)

OffCode(k) == IF k = "light" THEN 2 ELSE 0

(* Code 1 switches on.                                                     *)
Code(k, v, up) == IF v > up THEN OffCode(k) ELSE 1

(* The command: the id as it stands in the table, and the code.            *)
Command(k, v, d) == [low |-> d.low, high |-> d.high, code |-> Code(k, v, d.up)]

(* These branches print, and read the id only after that.                  *)
Prints(k, code) == k = "light" \/ (k = "hum" /\ code = 1)

(* Above upValue the device is switched off, below downValue on.           *)
Decide ==
  /\ AtDevice
  /\ Reading > EndDevice.up \/ Reading < EndDevice.down
  /\ msgTx' = Command(Kind[kind], Reading, EndDevice)
  /\ regulator' = IF Prints(Kind[kind], msgTx'.code) THEN "print" ELSE "send"
  /\ UNCHANGED <<zones, httpVars, loopVars, queued, quiet, scanned>>

Printed ==
  /\ regulator = "print"
  /\ msgTx' = [msgTx EXCEPT !.low = EndDevice.low, !.high = EndDevice.high]
  /\ regulator' = "send"
  /\ UNCHANGED <<zones, httpVars, loopVars, queued, quiet, scanned>>

(* Every field of msgTx is assigned again before the next mq_send.         *)
Send ==
  /\ regulator = "send" /\ queued < TxCap
  /\ queued' = queued + 1
  /\ scanned' = IF quiet THEN scanned \cup {msgTx} ELSE {}
  /\ msgTx' = NoCommand
  /\ regulator' = "device" /\ dev' = dev + 1
  /\ UNCHANGED <<zones, httpVars, zNum, kind, quiet>>

LeaveAlone ==
  /\ AtDevice
  /\ Reading <= EndDevice.up /\ Reading >= EndDevice.down
  /\ dev' = dev + 1
  /\ UNCHANGED <<zones, httpVars, regulator, zNum, kind, msgTx, queued,
                 quiet, scanned>>

(* Mutant: zNum is not incremented.                                        *)
FinishKindSameZone ==
  /\ regulator = "device" /\ ~AtDevice
  /\ IF kind < 3
     THEN kind' = kind + 1 /\ dev' = 1 /\ UNCHANGED <<regulator, zNum>>
     ELSE regulator' = "zone" /\ UNCHANGED <<zNum, kind, dev>>
  /\ UNCHANGED <<zones, httpVars, msgTx, queued, quiet, scanned>>

(* The next list, or the next zone.                                        *)
FinishKind ==
  /\ regulator = "device" /\ ~AtDevice
  /\ IF kind < 3
     THEN kind' = kind + 1 /\ dev' = 1 /\ UNCHANGED <<regulator, zNum>>
     ELSE zNum' = zNum + 1 /\ regulator' = "zone" /\ UNCHANGED <<kind, dev>>
  /\ UNCHANGED <<zones, httpVars, msgTx, queued, quiet, scanned>>
-------------------------------------------------------------------------------
RegulatorTask == Wake \/ EnterZone \/ FinishScan \/ Decide \/ Printed \/ Send
                   \/ LeaveAlone \/ FinishKind

Next == ReceiveAnswer \/ Store \/ DataSend \/ RegulatorTask

Spec == Init /\ [][Next]_vars

(* The regulator always gets the processor.  The sleeps of 5 s leave the   *)
(* low-priority tasks time again and again, hence strong fairness.  The    *)
(* server need not answer.                                                 *)
Fairness == WF_vars(RegulatorTask) /\ SF_vars(DataSend) /\ SF_vars(Store)

FairSpec == Spec /\ Fairness
-------------------------------------------------------------------------------
Position ==
  {Idle} \cup {p \in [field : {"zoneID", "reading", "reset", "id", "up", "down"},
                     i : 1..NumZones, t : 1..3, j : 1..Slots,
                     left : (SUBSET Word) \ {{}}] : p.left \subseteq Words(p.field)}

CommandRow == [low : Nat, high : Nat, code : 0..2]

TypeOK ==
  /\ zones \in [1..NumZones ->
                  [zoneID : Nat, reading : [KindName -> Int],
                   devs : [KindName -> [1..Slots -> DeviceRow]]]]
  /\ answer \in Answers \cup {<<>>} /\ pos \in Position
  /\ regulator \in RegulatorPc
  /\ zNum \in 1..NumZones + 1 /\ kind \in 1..3 /\ dev \in 1..NumDevices + 1
  /\ msgTx \in CommandRow
  /\ queued \in 0..TxCap /\ quiet \in BOOLEAN
  /\ scanned \subseteq CommandRow

(* What a list of devices looks like in the table.                         *)
Row(list) == [s \in 1..Slots |-> IF s <= Len(list) THEN list[s]
                                                   ELSE NoEndDevice]

(* When the last store of an answer is done, the table holds that answer   *)
(* and nothing of an earlier one in every zone the answer lists, whatever  *)
(* the table held before.                                                  *)
Holds(i) ==
  zones[i] = [zoneID  |-> answer[i].zoneID,
              reading |-> answer[i].reading,
              devs    |-> [k \in KindName |-> Row(answer[i].devs[k])]]

AnswerInstalled == pos = Idle => \A i \in 1..Listed(answer) : Holds(i)

(* What the readings and thresholds of the table ask for: the devices      *)
(* before the first unused slot of the zones before the first unused zone. *)
Used(i) == \A h \in 1..i : zones[h].zoneID # 0
Visited(i, t, s) == \A r \in 1..s : ~Unused(zones[i].devs[Kind[t]][r])

Asked(i, t, s) ==
  LET d == zones[i].devs[Kind[t]][s]  v == zones[i].reading[Kind[t]]
  IN  IF v > d.up \/ v < d.down THEN {Command(Kind[t], v, d)} ELSE {}

Place == (1..NumZones) \X (1..3) \X (1..NumDevices)

Demanded ==
  UNION {Asked(p[1], p[2], p[3]) :
           p \in {q \in Place : Used(q[1]) /\ Visited(q[1], q[2], q[3])}}

(* A scan during which the table is left alone queues exactly the commands *)
(* the table asks for.                                                     *)
QuietScanIsExact ==
  [][FinishScan /\ quiet => scanned = Demanded]_vars

(* Some answer lists a device of kind k whose id has the halves low and    *)
(* high of d, but for those that are among gaps.                           *)
ListedId(k, d, gaps) ==
  \E a \in Answers : \E i \in 1..Len(a) : \E s \in 1..Len(a[i].devs[k]) :
    LET e == a[i].devs[k][s]
    IN  d.low \in {e.low} \cup gaps /\ d.high \in {e.high} \cup gaps

(* Whatever the interleaving with the word-by-word stores, a command never *)
(* carries the halves of two devices: its id is that of a device of the    *)
(* kind the loop is at which some answer lists, in a scan that raced with  *)
(* a store perhaps with 0 for a half, and 0 for both halves only from a    *)
(* branch that gave up the processor before it read the id.                *)
AddressesAreListed ==
  regulator = "send" =>
    /\ ListedId(Kind[kind], msgTx, IF quiet THEN {} ELSE {0})
    /\ Unused(msgTx) => Prints(Kind[kind], msgTx.code)

(* A full spiTxQueue or an endless rewriting of the table never keeps the  *)
(* regulator from finishing its scan, and an answer gets stored.           *)
TableAndScanGoOn ==
  /\ []<>(regulator = "sleep")
  /\ (pos # Idle) ~> (pos = Idle)
===============================================================================
