----------------------------- MODULE RadioBridge -----------------------------
(***************************************************************************)
(* The radio between the gateway (CC1310), the sensor nodes and the end    *)
(* devices.                                                                *)
(*                                                                         *)
(*   spiTask -> rfTxQueue -> rfTxTaskFxn ~> callback of an end device -> pin*)
(*   sensor node, end device ~> callback of the gateway -> spiQueue        *)
(*                                                                         *)
(* A receiver takes a packet that it hears from its first bit to its last: *)
(* it must be listening all the time and nobody else in its range may send *)
(* meanwhile.  What it takes lies in one of the two entries of its receive *)
(* queue until the callback has run.  The gateway and the end devices send *)
(* without listening; a sensor node listens first.                         *)
(*                                                                         *)
(* The regulator sends the level it wants over and over; spiTask takes it  *)
(* from the SPI link (module SpiLink) and then spins as long as the slave  *)
(* keeps its line up.  A spin that ends is a pause of the tasks, as there  *)
(* may be at any time; one that does not end wedges them.  A change of the *)
(* level has a number, and so has a round of a sensor node, up to the      *)
(* bounds of the model.                                                    *)
(***************************************************************************)
EXTENDS Naturals, Sequences, FiniteSets

CONSTANTS Sensor, Device, Gateway, Nobody,
          World         \* the greenhouses this may run in, see Worlds

Radio == Sensor \cup Device \cup {Gateway}
Receiver == Device \cup {Gateway}

(* Which nodes have power, which devices the regulator commands, whom each *)
(* radio can hear, how many messages fit the gateway's heap, CS_RETRIES_-  *)
(* WHEN_BUSY; and, bounds of the model, the changes of each device's       *)
(* level, the rounds of a node that are told apart, and the restarts of a  *)
(* device.                                                                 *)
Worlds == [on : SUBSET (Sensor \cup Device), commanded : SUBSET Device,
           inRange : [Radio -> SUBSET Radio], heap : Nat \ {0}, retries : Nat \ {0},
           changes : [Device -> Nat], rounds : Nat \ {0}, restarts : Nat]

ASSUME RadioAssumption == /\ Gateway \notin Sensor \cup Device
                          /\ Sensor \cap Device = {}
ASSUME WorldAssumption == World \subseteq Worlds

VARIABLES
  world,      \* the greenhouse; it does not change
  asked,      \* the levels the regulator has wanted of a device, in order
  air,        \* who is sending, and what
  hears,      \* the sender a receiver has heard from the first bit on
  listening,  \* the receiver's RF_cmdPropRx runs
  entry,      \* the two entries of the receive queue
  writeEntry, \* the entry the radio fills next
  readEntry,  \* the entry the callback reads next
  events,     \* calls of the callback the RF driver still has to make
  rfTxQueue, spiQueue, txTask, heap, faulted,        \* the gateway
  sent,       \* the packet of its transmit task is out, RF_runCmd returns
  wedged,     \* its spiTask spins for ever, above the transmit task
  pin, level, announce, restarts,                    \* an end device
  node        \* a sensor node

ringVars == <<entry, writeEntry, readEntry, events>>
airVars == <<air, hears, listening>>
gatewayVars == <<rfTxQueue, spiQueue, txTask, heap, faulted, sent, wedged>>
deviceVars == <<pin, level, announce, restarts>>
vars == <<world, asked, airVars, ringVars, gatewayVars, deviceVars, node>>

HeapSize == world.heap
Retries == world.retries
MaxRounds == world.rounds

Empty == [kind |-> "empty"]
Command(d) == [kind |-> "command", dev |-> d, pin |-> asked[d][Len(asked[d])],
               num |-> Len(asked[d])]
Announcement(d) == [kind |-> "announcement", from |-> d]
Reading(n) == [kind |-> "reading", from |-> n, round |-> node[n].round,
               light |-> node[n].light, climate |-> node[n].climate]

(* RFQueue_defineQueue: a ring of two pending entries.                     *)
Init ==
  /\ world \in World
  /\ asked = [d \in Device |-> <<0>>]
  /\ air = <<>> /\ hears = [r \in Receiver |-> Nobody]
  /\ listening = [r \in Receiver |-> r = Gateway]
  /\ entry = [r \in Receiver |-> [i \in 0..1 |-> Empty]]
  /\ writeEntry = [r \in Receiver |-> 0] /\ readEntry = writeEntry
  /\ events = [r \in Receiver |-> 0]
  /\ rfTxQueue = <<>> /\ spiQueue = <<>> /\ txTask = Empty
  /\ heap = 0 /\ faulted = FALSE /\ sent = FALSE /\ wedged = FALSE
  /\ pin = [d \in Device |-> 0] /\ level = [d \in Device |-> 0]
  /\ announce = [d \in Device |-> d \in world.on]
  /\ restarts = [d \in Device |-> 0]
  /\ node = [n \in Sensor |-> [at |-> "light", left |-> Retries, round |-> 1,
                               light |-> 0, climate |-> 0]]
------------------------------------------------------------------------------
(* The air.                                                                *)

SendersNear(r) == DOMAIN air \cap world.inRange[r]

(* A second sender in range spoils both packets.                           *)
StartSending(x, packet) ==
  /\ air' = [y \in DOMAIN air \cup {x} |-> IF y = x THEN packet ELSE air[y]]
  /\ hears' = [r \in Receiver |->
                 IF r = x THEN Nobody
                 ELSE IF x \notin world.inRange[r] THEN hears[r]
                 ELSE IF listening[r] /\ SendersNear(r) = {} THEN x
                 ELSE Nobody]

(* The packet ends.  Those in got have it without a bit error.  A receiver *)
(* with both entries full has its command ended by the radio, which nobody *)
(* notices.  A node and an end device go back to receiving.                *)
StopSending(x, got) ==
  LET Free(r) == entry[r][writeEntry[r]] = Empty
      Store == {r \in got : Free(r)} IN
  /\ got \subseteq {r \in Receiver : hears[r] = x}
  /\ hears' = [r \in Receiver |-> IF hears[r] = x THEN Nobody ELSE hears[r]]
  /\ entry' = [r \in Receiver |-> IF r \in Store
                 THEN [entry[r] EXCEPT ![writeEntry[r]] = air[x]]
                 ELSE entry[r]]
  /\ writeEntry' = [r \in Receiver |-> IF r \in Store THEN 1 - writeEntry[r]
                                       ELSE writeEntry[r]]
  /\ events' = [r \in Receiver |-> IF r \in Store THEN events[r] + 1
                                   ELSE events[r]]
  /\ listening' = [r \in Receiver |->
                     \/ r = x /\ x # Gateway
                     \/ listening[r] /\ ~(r \in got \ Store)]
  /\ air' = [y \in DOMAIN air \ {x} |-> air[y]]
  /\ UNCHANGED readEntry

(* RFQueue_nextEntry, the last call of both callbacks.                     *)
NextEntry(r) ==
  /\ entry' = [entry EXCEPT ![r][readEntry[r]] = Empty]
  /\ readEntry' = [readEntry EXCEPT ![r] = 1 - @]
  /\ events' = [events EXCEPT ![r] = @ - 1]
  /\ UNCHANGED writeEntry
------------------------------------------------------------------------------
(* The gateway.                                                            *)

(* The regulator changes its mind.                                         *)
Want(d) ==
  /\ Len(asked[d]) <= world.changes[d]
  /\ asked' = [asked EXCEPT ![d] = Append(@, 1 - @[Len(@)])]
  /\ UNCHANGED <<world, airVars, ringVars, gatewayVars, deviceVars, node>>

(* spiTask: a command for which malloc finds no room is dropped.           *)
QueueCommand(d) ==
  /\ ~faulted /\ ~wedged /\ heap < HeapSize
  /\ heap' = heap + 1
  /\ rfTxQueue' = Append(rfTxQueue, Command(d))
  /\ UNCHANGED <<world, asked, airVars, ringVars, spiQueue, txTask, sent, wedged,
                 faulted, deviceVars, node>>

(* The slave has raised its line for a command, and never lowers it again  *)
(* (Wedged of SpiLink).                                                    *)
Wedge ==
  /\ ~faulted /\ ~wedged /\ world.commanded # {}
  /\ wedged' = TRUE
  /\ UNCHANGED <<world, asked, airVars, ringVars, rfTxQueue, spiQueue, txTask, sent,
                 heap, faulted, deviceVars, node>>

(* spiTask: one message up per round, freed after the transfer.            *)
SendUp ==
  /\ ~faulted /\ ~wedged /\ spiQueue # <<>>
  /\ spiQueue' = Tail(spiQueue)
  /\ heap' = heap - 1
  /\ UNCHANGED <<world, asked, airVars, ringVars, rfTxQueue, txTask, sent, wedged,
                 faulted, deviceVars, node>>

(* Mutant: the newest command first.                                       *)
TakeNewest ==
  /\ ~faulted /\ ~wedged /\ rfTxQueue # <<>> /\ txTask = Empty
  /\ txTask' = rfTxQueue[Len(rfTxQueue)]
  /\ rfTxQueue' = SubSeq(rfTxQueue, 1, Len(rfTxQueue) - 1)
  /\ listening' = [listening EXCEPT ![Gateway] = FALSE]
  /\ hears' = [hears EXCEPT ![Gateway] = Nobody]
  /\ UNCHANGED <<world, asked, air, ringVars, spiQueue, heap, faulted, sent, wedged,
                 deviceVars, node>>

(* rfTxTaskFxn: Queue_get, RF_cancelCmd and RF_flushCmd.  A packet that is *)
(* being received is lost; the entries are kept.                           *)
TakeCommand ==
  /\ ~faulted /\ ~wedged /\ rfTxQueue # <<>> /\ txTask = Empty
  /\ txTask' = Head(rfTxQueue)
  /\ rfTxQueue' = Tail(rfTxQueue)
  /\ listening' = [listening EXCEPT ![Gateway] = FALSE]
  /\ hears' = [hears EXCEPT ![Gateway] = Nobody]
  /\ UNCHANGED <<world, asked, air, ringVars, spiQueue, heap, faulted, sent, wedged,
                 deviceVars, node>>

Transmit ==
  /\ txTask # Empty /\ ~sent /\ Gateway \notin DOMAIN air
  /\ ~faulted /\ ~wedged
  /\ StartSending(Gateway, txTask)
  /\ UNCHANGED <<world, asked, listening, ringVars, gatewayVars, deviceVars, node>>

(* The radio has sent the packet, whatever the tasks do.                   *)
Transmitted(got) ==
  /\ Gateway \in DOMAIN air
  /\ StopSending(Gateway, got)
  /\ sent' = TRUE
  /\ UNCHANGED <<world, asked, rfTxQueue, spiQueue, txTask, heap, faulted, wedged,
                 deviceVars, node>>

(* Mutant: without free(msg).                                              *)
ReturnLeaking ==
  /\ sent /\ ~faulted /\ ~wedged
  /\ sent' = FALSE /\ txTask' = Empty
  /\ listening' = [listening EXCEPT ![Gateway] = TRUE]
  /\ UNCHANGED <<world, asked, air, hears, ringVars, rfTxQueue, spiQueue, heap,
                 faulted, wedged, deviceVars, node>>

(* Mutant: without RF_postCmd.                                             *)
ReturnDeaf ==
  /\ sent /\ ~faulted /\ ~wedged
  /\ sent' = FALSE /\ txTask' = Empty /\ heap' = heap - 1
  /\ UNCHANGED <<world, asked, airVars, ringVars, rfTxQueue, spiQueue, faulted,
                 wedged, deviceVars, node>>

(* RF_runCmd returns, RF_postCmd starts the reception again, free(msg).    *)
Return ==
  /\ sent /\ ~faulted /\ ~wedged
  /\ sent' = FALSE /\ txTask' = Empty /\ heap' = heap - 1
  /\ listening' = [listening EXCEPT ![Gateway] = TRUE]
  /\ UNCHANGED <<world, asked, air, hears, ringVars, rfTxQueue, spiQueue, faulted,
                 wedged, deviceVars, node>>

(* Mutant: the message goes to the front of the queue.                     *)
CallbackToFront ==
  /\ events[Gateway] > 0 /\ ~faulted
  /\ IF heap < HeapSize
       THEN /\ heap' = heap + 1
            /\ spiQueue' = <<entry[Gateway][readEntry[Gateway]]>> \o spiQueue
            /\ UNCHANGED faulted
       ELSE faulted' = TRUE /\ UNCHANGED <<heap, spiQueue>>
  /\ NextEntry(Gateway)
  /\ UNCHANGED <<world, asked, airVars, rfTxQueue, txTask, sent, wedged, deviceVars,
                 node>>

(* callback and spiQueueSend, above all tasks: what malloc returns is not  *)
(* looked at, and a store through NULL stops the processor.                *)
GatewayCallback ==
  /\ events[Gateway] > 0 /\ ~faulted
  /\ IF heap < HeapSize
       THEN /\ heap' = heap + 1
            /\ spiQueue' = Append(spiQueue, entry[Gateway][readEntry[Gateway]])
            /\ UNCHANGED faulted
       ELSE faulted' = TRUE /\ UNCHANGED <<heap, spiQueue>>
  /\ NextEntry(Gateway)
  /\ UNCHANGED <<world, asked, airVars, rfTxQueue, txTask, sent, wedged, deviceVars,
                 node>>
------------------------------------------------------------------------------
(* An end device.  Its transmit task runs before mainThread has started    *)
(* the reception, and clears g_rfSendFlag before it sends.                 *)

Announce(d) ==
  /\ announce[d] /\ d \notin DOMAIN air
  /\ announce' = [announce EXCEPT ![d] = FALSE]
  /\ StartSending(d, Announcement(d))
  /\ UNCHANGED <<world, asked, listening, ringVars, gatewayVars, pin, level,
                 restarts, node>>

Announced(d, got) ==
  /\ d \in DOMAIN air
  /\ StopSending(d, got)
  /\ UNCHANGED <<world, asked, gatewayVars, deviceVars, node>>


(* callback: eight bytes are compared with uid, the ninth is the level.    *)
DeviceCallback(d) ==
  /\ events[d] > 0
  /\ LET packet == entry[d][readEntry[d]] IN
       IF packet.kind = "command" /\ packet.dev = d
         THEN /\ pin' = [pin EXCEPT ![d] = packet.pin]
              /\ level' = [level EXCEPT ![d] = packet.num]
         ELSE UNCHANGED <<pin, level>>
  /\ NextEntry(d)
  /\ UNCHANGED <<world, asked, airVars, gatewayVars, announce, restarts, node>>

(* The power is lost: the output is low, the device announces itself.      *)
Restart(d) ==
  /\ restarts[d] < world.restarts /\ d \notin DOMAIN air
  /\ restarts' = [restarts EXCEPT ![d] = @ + 1]
  /\ pin' = [pin EXCEPT ![d] = 0] /\ level' = [level EXCEPT ![d] = 0]
  /\ announce' = [announce EXCEPT ![d] = TRUE]
  /\ listening' = [listening EXCEPT ![d] = FALSE]
  /\ hears' = [hears EXCEPT ![d] = Nobody]
  /\ entry' = [entry EXCEPT ![d] = [i \in 0..1 |-> Empty]]
  /\ writeEntry' = [writeEntry EXCEPT ![d] = 0]
  /\ readEntry' = [readEntry EXCEPT ![d] = 0]
  /\ events' = [events EXCEPT ![d] = 0]
  /\ UNCHANGED <<world, asked, air, gatewayVars, node>>
------------------------------------------------------------------------------
(* A sensor node.  After the first round I2C_close has closed the driver   *)
(* its transfers go through: any of them may fail.                         *)

Node(n, changed) ==
  /\ node' = [node EXCEPT ![n] =
       [f \in DOMAIN @ |-> IF f \in DOMAIN changed THEN changed[f] ELSE @[f]]]
  /\ UNCHANGED <<world, asked, gatewayVars, deviceVars>>

(* Without an answer of the light sensor the node loops for ever.          *)
NoLightSensor(n) ==
  /\ node[n].at = "light"
  /\ Node(n, [at |-> "stuck"])
  /\ UNCHANGED <<airVars, ringVars>>

(* A failed measurement leaves the bytes of the last one in the packet.    *)
MeasureLight(n) ==
  /\ node[n].at = "light"
  /\ \E l \in {node[n].light, node[n].round} :
       Node(n, [at |-> "climate", light |-> l])
  /\ UNCHANGED <<airVars, ringVars>>

(* Temperature and humidity together, or neither: a bus error or a CRC     *)
(* that does not fit.                                                      *)
MeasureClimate(n) ==
  /\ node[n].at = "climate"
  /\ \E c \in {node[n].climate, node[n].round} :
       Node(n, [at |-> "sense", climate |-> c])
  /\ UNCHANGED <<airVars, ringVars>>

(* CMD_PROP_CS: nothing above the threshold for the whole window.          *)
SenseIdle(n) ==
  /\ node[n].at = "sense" /\ SendersNear(n) = {}
  /\ Node(n, [at |-> "send"])
  /\ UNCHANGED <<airVars, ringVars>>

SenseBusy(n) ==
  /\ node[n].at = "sense" /\ SendersNear(n) # {}
  /\ Node(n, [at |-> "count"])
  /\ UNCHANGED <<airVars, ringVars>>

(* The end of a round: the statuses are set to IDLE.                       *)
Round(n) == IF node[n].round < MaxRounds THEN node[n].round + 1 ELSE MaxRounds

Fresh(n) == [at |-> "light", left |-> Retries, round |-> Round(n)]

(* CMD_COUNT_BRANCH: a counter that becomes 0 ends the chain without a     *)
(* packet; one that is 0 already does not.                                 *)
CountBranch(n) ==
  /\ node[n].at = "count"
  /\ Node(n, IF node[n].left = 1 THEN Fresh(n)
             ELSE [at |-> "sense",
                   left |-> IF node[n].left = 0 THEN 0 ELSE node[n].left - 1])
  /\ UNCHANGED <<airVars, ringVars>>

Send(n) ==
  /\ node[n].at = "send" /\ n \notin DOMAIN air
  /\ StartSending(n, Reading(n))
  /\ UNCHANGED <<world, asked, listening, ringVars, gatewayVars, deviceVars, node>>

Sent(n, got) ==
  /\ n \in DOMAIN air
  /\ StopSending(n, got)
  /\ Node(n, Fresh(n))
------------------------------------------------------------------------------
GatewayStep == Wedge \/ SendUp \/ GatewayCallback
                 \/ TakeCommand \/ Transmit \/ Return
                 \/ \E got \in SUBSET Receiver : Transmitted(got)
DeviceStep(d) == \/ DeviceCallback(d) \/ Announce(d)
                 \/ \E got \in SUBSET Receiver : Announced(d, got)
NodeStep(n) == \/ MeasureLight(n) \/ MeasureClimate(n) \/ SenseIdle(n)
               \/ SenseBusy(n) \/ CountBranch(n) \/ Send(n)
               \/ \E got \in SUBSET Receiver : Sent(n, got)

Next == \/ GatewayStep
        \/ \E d \in world.commanded : Want(d) \/ QueueCommand(d)
        \/ \E d \in Device \cap world.on : DeviceStep(d) \/ Restart(d)
        \/ \E n \in Sensor \cap world.on : NodeStep(n) \/ NoLightSensor(n)

Spec == Init /\ [][Next]_vars

(* Callbacks run, and so do the tasks of the gateway unless it is wedged;  *)
(* the regulator repeats itself, and a packet is not spoilt for ever.      *)
Received(d) == /\ Gateway \in DOMAIN air /\ txTask.dev = d
               /\ \E got \in SUBSET Receiver : d \in got /\ Transmitted(got)

Fairness ==
  /\ WF_vars(TakeCommand \/ Transmit \/ Return) /\ WF_vars(GatewayCallback)
  /\ WF_vars(SendUp)
  /\ WF_vars(\E got \in SUBSET Receiver : Transmitted(got))
  /\ \A d \in Device : /\ SF_vars(d \in world.commanded /\ QueueCommand(d))
                       /\ SF_vars(Received(d))
                       /\ WF_vars(d \in world.on /\ DeviceStep(d))
  /\ \A n \in Sensor : WF_vars(n \in world.on /\ NodeStep(n))

FairSpec == Spec /\ Fairness
------------------------------------------------------------------------------
Packet == {Empty} \cup [kind : {"announcement"}, from : Device]
  \cup [kind : {"command"}, dev : Device, pin : {0, 1}, num : Nat]
  \cup [kind : {"reading"}, from : Sensor, round : 0..MaxRounds,
        light : 0..MaxRounds, climate : 0..MaxRounds]

TypeOK ==
  /\ world \in World
  /\ \A d \in Device : /\ Len(asked[d]) \in 1..(world.changes[d] + 1)
                       /\ asked[d] \in Seq({0, 1})
  /\ DOMAIN air \subseteq Radio /\ \A x \in DOMAIN air : air[x] \in Packet
  /\ hears \in [Receiver -> Radio \cup {Nobody}]
  /\ listening \in [Receiver -> BOOLEAN]
  /\ entry \in [Receiver -> [0..1 -> Packet]]
  /\ writeEntry \in [Receiver -> 0..1] /\ readEntry \in [Receiver -> 0..1]
  /\ events \in [Receiver -> 0..2]
  /\ rfTxQueue \in Seq(Packet) /\ spiQueue \in Seq(Packet)
  /\ txTask \in Packet /\ heap \in 0..HeapSize /\ faulted \in BOOLEAN
  /\ sent \in BOOLEAN /\ wedged \in BOOLEAN
  /\ pin \in [Device -> {0, 1}] /\ level \in [Device -> Nat]
  /\ announce \in [Device -> BOOLEAN] /\ restarts \in [Device -> 0..world.restarts]
  /\ node \in [Sensor -> [at : {"light", "climate", "sense", "count", "send",
                               "stuck"},
                         left : 0..Retries, round : 0..MaxRounds,
                         light : 0..MaxRounds, climate : 0..MaxRounds]]

(* The two entries of a receive queue, and the events for them.            *)
RingInStep ==
  \A r \in Receiver :
    /\ events[r] = Cardinality({i \in 0..1 : entry[r][i] # Empty})
    /\ (readEntry[r] + events[r]) % 2 = writeEntry[r]
    /\ events[r] > 0 => entry[r][readEntry[r]] # Empty

(* Every message of the heap is in a queue or with the transmit task.      *)
HeapAccounted ==
  heap = Len(rfTxQueue) + Len(spiQueue) + (IF txTask = Empty THEN 0 ELSE 1)

(* Radio, callback and restarts of the reception stay in step on the ring: *)
(* what the callback reads next is what was received first, whatever       *)
(* cancels the reception meanwhile; and the gateway does not leak.         *)
BuffersInStep == RingInStep /\ HeapAccounted

(* The output of an end device changes to the level that was asked of this *)
(* device, never of another, and a device that keeps its power never obeys *)
(* an older command after a newer one, through two queues, a ring, the air.*)
PinsObeyInOrder ==
  [][\A d \in Device : restarts'[d] = restarts[d] =>
       /\ level'[d] >= level[d]
       /\ pin'[d] # pin[d] => pin'[d] = asked[d][level'[d]]]_vars

(* What the gateway sends up of a node is in the order of the node's       *)
(* rounds, no packet twice, and no measurement older than the last.        *)
Later(a, b) ==
  a.kind = "reading" /\ b.kind = "reading" /\ a.from = b.from =>
    /\ a.round < b.round \/ b.round = MaxRounds
    /\ a.light <= b.light /\ a.climate <= b.climate

UplinkInOrder ==
  \A j \in 1..Len(spiQueue) :
    /\ \A i \in 1..(j - 1) : Later(spiQueue[i], spiQueue[j])
    /\ \A i \in 0..1 : Later(spiQueue[j], entry[Gateway][i])


(* A gateway whose reception the radio has ended for lack of an entry, as  *)
(* nobody looks at the status, hears again after the next command, unless  *)
(* it runs out of memory, is wedged or has nothing to send; and a          *)
(* node gives a busy channel up after CS_RETRIES_WHEN_BUSY attempts and    *)
(* measures again.                                                         *)
RadiosRecover ==
  /\ \/ world.commanded = {} \/ <>faulted \/ <>wedged
     \/ (~listening[Gateway] ~> listening[Gateway])
  /\ \A n \in Sensor : (node[n].at = "sense") ~> (node[n].at = "light")
==============================================================================
