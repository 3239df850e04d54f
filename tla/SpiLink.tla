------------------------------- MODULE SpiLink -------------------------------
(***************************************************************************)
(* The SPI link between the greenhouse controller (CC3235SF, SPI slave)    *)
(* and the radio gateway (CC1310, SPI master).                             *)
(*                                                                         *)
(*   regulator -> spiTxQueue -> dataSend -> txBuf, spiReady                *)
(*   spiGPIOTask: spiReady -> GPIO line -> gateway spiTask polls a frame   *)
(*   gateway spiTask -> rfTxQueue -> radio                                 *)
(*   radio -> gwQueue -> gateway spiTask -> controller spiTask             *)
(*         -> spiQueue -> httpHTLPostTask                                  *)
(*                                                                         *)
(* Every transfer moves 15 bytes both ways.  A command is named by its     *)
(* position in sent, a radio packet by the order of its reception; 0 names *)
(* the all-zero frame of a buffer never written.  Steps are not timed: the *)
(* two boards start, stall and are delayed independently of each other.    *)
(***************************************************************************)
EXTENDS Integers, Sequences

CONSTANTS Device, NoDevice,   \* as in CommandChannel
          TxCap,              \* mq_maxmsg of spiTxQueue
          RxCap,              \* mq_maxmsg of spiQueue
          Code,               \* the level codes the k-th command may have
          MaxCommands,        \* bound: commands the regulator queues
          MaxPackets          \* bound: packets the radio receives

ASSUME NoDeviceAssumption == NoDevice \notin Device
ASSUME CapAssumption == TxCap \in Nat \ {0} /\ RxCap \in Nat \ {0}
ASSUME CodeAssumption == \A k \in 1..MaxCommands : Code[k] \subseteq 0..2
ASSUME BoundAssumption == MaxCommands \in Nat /\ MaxPackets \in Nat

Command == [dev : Device, code : 0..2]
Frame   == [dev : Device \cup {NoDevice}, pin : 0..2]
Poll    == 0     \* first byte 2: the gateway asks for a command

VARIABLES
  sent,         \* history: the commands the regulator has queued
  spiTxQueue,   \* controller: commands waiting for dataSend
  dataSend,     \* dataSendTask: "wait" in mq_receive, "copying" in memcpy,
                \* "copied" after it
  msgTx,        \* the command dataSendTask took last
  txBuf,        \* the command the slave shifts out
  spiReady,     \* controller flag: txBuf holds a command
  gpio,         \* the ready line as the gateway sees it
  spiTask,      \* controller spiTask, see SlavePc
  spiMsg,       \* what the controller received last: a packet or Poll
  spiQueue,     \* controller: packets waiting for the http task
  posted,       \* history: the packet posted last
  heard,        \* history: number of packets the radio received
  gwQueue,      \* gateway: packets waiting for its spiTask
  gwTask,       \* gateway spiTask, see MasterPc
  gwMsg,        \* the packet being clocked out
  armed,        \* the slave was listening when the transfer began
  clk,          \* txBuf when the transfer began
  rfTxQueue,    \* gateway: frames waiting for the radio
  last          \* history: newest command whose level the gateway accepted

commandVars == <<sent, spiTxQueue, dataSend, msgTx, txBuf>>
slaveVars   == <<spiTask, spiMsg, spiQueue, posted>>
radioVars   == <<heard, gwQueue, rfTxQueue, last>>
masterVars  == <<gwTask, gwMsg, armed, clk>>
vars == <<commandVars, spiReady, gpio, slaveVars, radioVars, masterVars>>

SlavePc  == {"starting", "armed", "received", "send", "print"}
MasterPc == {"top", "uplink", "gpio", "poll", "spin"}

Init ==
  /\ sent = <<>> /\ spiTxQueue = <<>> /\ dataSend = "wait"
  /\ msgTx = 0 /\ txBuf = 0
  /\ spiReady = 0 /\ gpio = 0
  /\ spiTask = "starting" /\ spiMsg = Poll /\ spiQueue = <<>> /\ posted = 0
  /\ heard = 0 /\ gwQueue = <<>>
  /\ gwTask = "top" /\ gwMsg = Poll /\ armed = FALSE /\ clk = 0
  /\ rfTxQueue = <<>> /\ last = 0
-------------------------------------------------------------------------------
(* Controller, downlink half.                                              *)

(* The regulator's mq_send blocks while spiTxQueue is full.                *)
Regulate ==
  /\ Len(sent) < MaxCommands
  /\ Len(spiTxQueue) < TxCap
  /\ \E c \in Command : c.code \in Code[Len(sent) + 1] /\ sent' = Append(sent, c)
  /\ spiTxQueue' = Append(spiTxQueue, Len(sent) + 1)
  /\ UNCHANGED <<dataSend, msgTx, txBuf, spiReady, gpio, slaveVars,
                 radioVars, masterVars>>

(* Mutant: the newest command first.                                       *)
ReceiveNewestFirst ==
  /\ dataSend = "wait" /\ spiTxQueue # <<>>
  /\ msgTx' = spiTxQueue[Len(spiTxQueue)]
  /\ spiTxQueue' = SubSeq(spiTxQueue, 1, Len(spiTxQueue) - 1)
  /\ dataSend' = "copying"
  /\ UNCHANGED <<sent, txBuf, spiReady, gpio, slaveVars, radioVars,
                 masterVars>>

(* Mutant: waits until the last command has been fetched.                  *)
ReceiveWhenFetched ==
  /\ dataSend = "wait" /\ spiTxQueue # <<>> /\ spiReady = 0
  /\ msgTx' = Head(spiTxQueue)
  /\ spiTxQueue' = Tail(spiTxQueue)
  /\ dataSend' = "copying"
  /\ UNCHANGED <<sent, txBuf, spiReady, gpio, slaveVars, radioVars,
                 masterVars>>

ReceiveCommand ==
  /\ dataSend = "wait" /\ spiTxQueue # <<>>
  /\ msgTx' = Head(spiTxQueue)
  /\ spiTxQueue' = Tail(spiTxQueue)
  /\ dataSend' = "copying"
  /\ UNCHANGED <<sent, txBuf, spiReady, gpio, slaveVars, radioVars,
                 masterVars>>

(* memcpy ends with the level byte; tasks of higher priority may preempt   *)
(* it before that.  Whatever txBuf held is overwritten.                    *)
LoadTxBuf ==
  /\ dataSend = "copying"
  /\ txBuf' = msgTx
  /\ dataSend' = "copied"
  /\ UNCHANGED <<sent, spiTxQueue, msgTx, spiReady, gpio, slaveVars, radioVars,
                 masterVars>>

RaiseReady ==
  /\ dataSend = "copied"
  /\ spiReady' = 1
  /\ dataSend' = "wait"
  /\ UNCHANGED <<sent, spiTxQueue, msgTx, txBuf, gpio, slaveVars, radioVars,
                 masterVars>>

(* Mutant: the pin is raised but never lowered.                            *)
SampleReadyRaiseOnly ==
  /\ gpio' = IF spiReady = 1 THEN 1 ELSE gpio
  /\ UNCHANGED <<commandVars, spiReady, slaveVars, radioVars, masterVars>>

(* spiGPIOTask copies the flag to the pin every 10 ms.                     *)
SampleReady ==
  /\ gpio' = spiReady
  /\ UNCHANGED <<commandVars, spiReady, slaveVars, radioVars, masterVars>>
-------------------------------------------------------------------------------
(* Controller, spiTask: SPI_transfer, clear the flag, queue, print.        *)

Arm ==
  /\ spiTask \in {"starting", "print"}
  /\ spiTask' = "armed"
  /\ UNCHANGED <<commandVars, spiReady, gpio, spiMsg, spiQueue, posted,
                 radioVars, masterVars>>

(* Mutant: poll frames are queued as packets too.                          *)
ClearReadyQueuePolls ==
  /\ spiTask = "received"
  /\ spiReady' = 0
  /\ spiTask' = "send"
  /\ UNCHANGED <<commandVars, gpio, spiMsg, spiQueue, posted, radioVars,
                 masterVars>>

(* Cleared after every transfer, whichever way the frame that mattered     *)
(* went; a poll frame is not queued.                                       *)
ClearReady ==
  /\ spiTask = "received"
  /\ spiReady' = 0
  /\ spiTask' = IF spiMsg = Poll THEN "print" ELSE "send"
  /\ UNCHANGED <<commandVars, gpio, spiMsg, spiQueue, posted, radioVars,
                 masterVars>>

(* mq_send blocks while spiQueue is full; the slave is not armed then.     *)
QueueReading ==
  /\ spiTask = "send" /\ Len(spiQueue) < RxCap
  /\ spiQueue' = Append(spiQueue, spiMsg)
  /\ spiTask' = "print"
  /\ UNCHANGED <<commandVars, spiReady, gpio, spiMsg, posted, radioVars,
                 masterVars>>

(* httpHTLPostTask takes one packet, posts it and sleeps 5 s.              *)
PostReading ==
  /\ spiQueue # <<>>
  /\ posted' = Head(spiQueue)
  /\ spiQueue' = Tail(spiQueue)
  /\ UNCHANGED <<commandVars, spiReady, gpio, spiTask, spiMsg, radioVars,
                 masterVars>>
-------------------------------------------------------------------------------
(* Gateway.                                                                *)

(* The RX callback copies the packet of the current ring entry.            *)
Hear ==
  /\ heard < MaxPackets
  /\ heard' = heard + 1
  /\ gwQueue' = Append(gwQueue, heard + 1)
  /\ UNCHANGED <<commandVars, spiReady, gpio, slaveVars, rfTxQueue, last,
                 masterVars>>

(* The gateway's transfer starts: only a slave already waiting in          *)
(* SPI_transfer takes part in it.                                          *)
BeginTransfer(msg) ==
  /\ gwMsg' = msg
  /\ armed' = (spiTask = "armed")
  /\ clk' = txBuf

(* The 15th byte: the slave's SPI_transfer returns if it took part.        *)
EndTransfer ==
  /\ IF armed THEN spiTask' = "received" /\ spiMsg' = gwMsg
              ELSE UNCHANGED <<spiTask, spiMsg>>
  /\ UNCHANGED <<commandVars, spiReady, gpio, spiQueue, posted, heard,
                 gwQueue, gwMsg, armed, clk>>

BeginUplink ==
  /\ gwTask = "top" /\ gwQueue # <<>>
  /\ BeginTransfer(Head(gwQueue))
  /\ gwQueue' = Tail(gwQueue)
  /\ gwTask' = "uplink"
  /\ UNCHANGED <<commandVars, spiReady, gpio, slaveVars, heard, rfTxQueue,
                 last>>

(* What the slave shifted out meanwhile is dropped with rxBuf.             *)
EndUplink ==
  /\ gwTask = "uplink" /\ EndTransfer
  /\ gwTask' = "gpio"
  /\ UNCHANGED <<rfTxQueue, last>>

NoUplink ==
  /\ gwTask = "top" /\ gwQueue = <<>>
  /\ gwTask' = "gpio"
  /\ UNCHANGED <<commandVars, spiReady, gpio, slaveVars, radioVars, gwMsg,
                 armed, clk>>

BeginPoll ==
  /\ gwTask = "gpio" /\ gpio = 1
  /\ BeginTransfer(Poll)
  /\ gwTask' = "poll"
  /\ UNCHANGED <<commandVars, spiReady, gpio, slaveVars, radioVars>>

SkipPoll ==
  /\ gwTask = "gpio" /\ gpio = 0
  /\ gwTask' = "top"
  /\ UNCHANGED <<commandVars, spiReady, gpio, slaveVars, radioVars, gwMsg,
                 armed, clk>>

(* Mutant: the lamp's off code goes out as it is.                          *)
RelayedRaw(code) == code

(* The lamp's off code 2 becomes level 0 on its way to the radio.          *)
Relayed(code) == IF code = 2 THEN 0 ELSE code

EndPoll == gwTask = "poll" /\ gwTask' = "spin" /\ EndTransfer

(* The command the address bytes of txBuf belong to, in part or as a whole. *)
AddressIn == IF dataSend = "copying" THEN msgTx ELSE txBuf

(* The transfer does not stop a memcpy nor a memcpy the transfer: the      *)
(* address is that of a command i, the level that of a command j copied    *)
(* meanwhile.  The address is copied first and shifted out first.          *)
EndPollCommand ==
  /\ EndPoll /\ armed
  /\ \E i \in clk..AddressIn, j \in clk..txBuf :
       /\ i <= j + 1
       /\ rfTxQueue' = Append(rfTxQueue, [dev |-> sent[i].dev,
                                          pin |-> Relayed(sent[j].code)])
       /\ last' = j

(* An undriven line, or an address mixed from two commands.                *)
EndPollStray ==
  /\ EndPoll /\ (~armed \/ clk # AddressIn)
  /\ \E p \in {0, 1} :
       rfTxQueue' = Append(rfTxQueue, [dev |-> NoDevice, pin |-> p])
  /\ UNCHANGED last

(* A line held low throughout, or malloc returned NULL.                    *)
EndPollNothing == EndPoll /\ UNCHANGED <<rfTxQueue, last>>

(* Mutant: the spin gives up after a while.                                *)
StopSpinningTimeout ==
  /\ gwTask = "spin"
  /\ gwTask' = "top"
  /\ UNCHANGED <<commandVars, spiReady, gpio, slaveVars, radioVars, gwMsg,
                 armed, clk>>

(* while (val == 1) val = GPIO_read(...): leaves on the first low sample.  *)
StopSpinning ==
  /\ gwTask = "spin" /\ gpio = 0
  /\ gwTask' = "top"
  /\ UNCHANGED <<commandVars, spiReady, gpio, slaveVars, radioVars, gwMsg,
                 armed, clk>>

(* The transmit task has a lower priority than the spinning spiTask.       *)
Transmit ==
  /\ rfTxQueue # <<>> /\ gwTask # "spin"
  /\ rfTxQueue' = Tail(rfTxQueue)
  /\ UNCHANGED <<commandVars, spiReady, gpio, slaveVars, heard, gwQueue,
                 last, masterVars>>
-------------------------------------------------------------------------------
Controller == Regulate \/ ReceiveCommand \/ LoadTxBuf \/ RaiseReady
                \/ SampleReady \/ Arm \/ ClearReady \/ QueueReading
                \/ PostReading
Gateway == Hear \/ BeginUplink \/ EndUplink \/ NoUplink \/ BeginPoll
             \/ SkipPoll \/ EndPollCommand \/ EndPollStray \/ EndPollNothing
             \/ StopSpinning \/ Transmit

Next == Controller \/ Gateway

Spec == Init /\ [][Next]_vars

(* Every task keeps being scheduled.  Nothing is assumed of the regulator  *)
(* and of the air: they need not produce anything.                         *)
Fairness ==
  /\ WF_vars(ReceiveCommand \/ LoadTxBuf \/ RaiseReady)
  /\ WF_vars(SampleReady)
  /\ WF_vars(Arm \/ ClearReady \/ QueueReading)
  /\ WF_vars(PostReading)
  /\ WF_vars(BeginUplink \/ EndUplink \/ NoUplink \/ BeginPoll \/ SkipPoll
               \/ EndPollCommand \/ EndPollStray \/ EndPollNothing
               \/ StopSpinning)
  /\ WF_vars(Transmit)

FairSpec == Spec /\ Fairness
-------------------------------------------------------------------------------
(* Every variable holds a value of its kind and the queues keep their      *)
(* capacity.                                                               *)
TypeOK ==
  /\ sent \in Seq(Command) /\ Len(sent) <= MaxCommands
  /\ spiTxQueue \in Seq(Nat) /\ Len(spiTxQueue) <= TxCap
  /\ dataSend \in {"wait", "copying", "copied"}
  /\ msgTx \in Nat /\ txBuf \in Nat
  /\ spiReady \in {0, 1} /\ gpio \in {0, 1}
  /\ spiTask \in SlavePc /\ spiMsg \in Nat
  /\ spiQueue \in Seq(Nat) /\ Len(spiQueue) <= RxCap
  /\ posted \in Nat /\ heard \in 0..MaxPackets
  /\ gwQueue \in Seq(Nat) /\ gwTask \in MasterPc /\ gwMsg \in Nat
  /\ armed \in BOOLEAN /\ clk \in Nat
  /\ rfTxQueue \in Seq(Frame) /\ last \in Nat

(* The path from the regulator to the gateway's transmit queue is the      *)
(* channel of CommandChannel: lossy and duplicating, but an accepted frame *)
(* carries the address and the level of commands that were really issued,  *)
(* of nearly the same command and never older than what came before.       *)
Channel == INSTANCE CommandChannel WITH out <- rfTxQueue
ChannelSpec == Channel!Spec

(* Commands are neither lost nor swapped before they reach txBuf: what     *)
(* waits in spiTxQueue is exactly what was issued after the command taken  *)
(* last, txBuf lags behind that one by a memcpy at most, the gateway has   *)
(* accepted nothing newer than txBuf, and is never called for a buffer     *)
(* that was not written yet.                                               *)
CommandsInStep ==
  /\ msgTx + Len(spiTxQueue) = Len(sent)
  /\ \A k \in 1..Len(spiTxQueue) : spiTxQueue[k] = msgTx + k
  /\ txBuf = IF dataSend = "copying" THEN msgTx - 1 ELSE msgTx
  /\ last <= txBuf
  /\ spiReady = 1 \/ gpio = 1 => txBuf > 0

(* A packet reaches the http task at most once and in the order of         *)
(* reception, whatever the transfers lose on the way.                      *)
Rising(s) == \A a, b \in 1..Len(s) : a < b => s[a] < s[b]

ReadingsInOrder ==
  /\ Rising(spiQueue) /\ Rising(gwQueue)
  /\ \A a \in 1..Len(spiQueue) : posted < spiQueue[a]
  /\ \A a \in 1..Len(spiQueue), b \in 1..Len(gwQueue) :
       spiQueue[a] < gwQueue[b]
  /\ \A b \in 1..Len(gwQueue) : posted < gwQueue[b] /\ gwQueue[b] <= heard

(* The gateway spins on a raised line while the slave waits for a clock    *)
(* that only the gateway gives.                                            *)
Wedged == /\ gwTask = "spin" /\ gpio = 1
          /\ spiReady = 1 /\ spiTask = "armed"

(* No step of any task on either board dissolves that state.               *)
WedgeIsPermanent == [][Wedged => Wedged']_vars

(* The mutual wait is the only way for the gateway to stop: otherwise its  *)
(* spiTask returns to the top of its loop over and over.                   *)
GatewayStopsOnlyWedged == []<>(gwTask = "top") \/ <>[]Wedged

(* A gateway that is slow, absent or wedged never holds the regulator up:  *)
(* a full spiTxQueue is always drained.                                    *)
RegulatorNotHeldUp == (Len(spiTxQueue) = TxCap) ~> (Len(spiTxQueue) < TxCap)

(* The link goes on serving the greenhouse: the gateway's loop never stops *)
(* for good.                                                               *)
GatewayKeepsServing == []<>(gwTask = "top")
===============================================================================
