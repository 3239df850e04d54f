---------------------------- MODULE SpiLinkProofs ----------------------------
(***************************************************************************)
(* What SpiLink guarantees for every queue capacity, every number of       *)
(* commands and packets and every set of devices.                          *)
(***************************************************************************)
EXTENDS SpiLink, SequenceTheorems, TLAPS

(***************************************************************************)
(* The inductive invariant.  Down the link, the command clocked out by a   *)
(* poll lies between the newest accepted one and the one now in txBuf.     *)
(***************************************************************************)
PollInv == gwTask = "poll" => 0 < clk /\ last <= clk /\ clk <= txBuf

(* Whatever dataSend is past mq_receive with is a command.                 *)
TakenInv == dataSend # "wait" => msgTx > 0

DownInv == CommandsInStep /\ PollInv /\ TakenInv

(* Up the link, the packets 1..Taken have left gwQueue for good.           *)
Taken == heard - Len(gwQueue)

(* A slave that took part in a transfer from its beginning is still in it  *)
(* at its end.                                                             *)
TransferInv ==
  /\ gwTask \in {"uplink", "poll"} /\ armed => spiTask = "armed"
  /\ gwTask = "poll" => gwMsg = Poll
  /\ gwTask = "uplink" => gwMsg = Taken

(* The packet the controller's spiTask has received and not queued yet.    *)
Holding == spiTask \in {"received", "send"} /\ spiMsg # Poll

(* Every packet further down the pipeline is older than those before it.   *)
UpInv ==
  /\ Taken >= 0
  /\ \A b \in 1..Len(gwQueue) : gwQueue[b] = Taken + b
  /\ posted <= Taken
  /\ spiTask = "send" => spiMsg # Poll
  /\ gwTask = "uplink" => posted < Taken
  /\ Holding => posted < spiMsg /\ spiMsg <= Taken
  /\ Holding /\ gwTask = "uplink" => spiMsg < Taken
  /\ Rising(spiQueue)
  /\ \A a \in 1..Len(spiQueue) :
       /\ posted < spiQueue[a] /\ spiQueue[a] <= Taken
       /\ gwTask = "uplink" => spiQueue[a] < Taken
       /\ Holding => spiQueue[a] < spiMsg

IInv == TypeOK /\ DownInv /\ TransferInv /\ UpInv
-------------------------------------------------------------------------------
(* Where the elements of a queue are after mq_send or Queue_put...         *)
LEMMA AppendElements ==
  ASSUME NEW S, NEW s \in Seq(S), NEW e \in S
  PROVE  /\ Append(s, e) \in Seq(S)
         /\ Len(Append(s, e)) = Len(s) + 1
         /\ \A k \in 1..Len(s) : Append(s, e)[k] = s[k]
         /\ Append(s, e)[Len(s) + 1] = e
  OBVIOUS

(* ... and after mq_receive or Queue_get.                                  *)
LEMMA TailElements ==
  ASSUME NEW S, NEW s \in Seq(S), s # <<>>
  PROVE  /\ Head(s) = s[1] /\ Len(s) \in Nat \ {0}
         /\ Tail(s) \in Seq(S)
         /\ Len(Tail(s)) = Len(s) - 1
         /\ \A k \in 1..Len(s) - 1 : Tail(s)[k] = s[k + 1]
  BY HeadTailProperties, EmptySeq

(* A step from a state of the invariant leads to well-typed values.        *)
LEMMA TypeStep == TypeOK /\ DownInv /\ [Next]_vars => TypeOK'
<1> SUFFICES ASSUME TypeOK, DownInv, [Next]_vars PROVE TypeOK'
  OBVIOUS
<1> USE CapAssumption, BoundAssumption DEF TypeOK, SlavePc, MasterPc, Poll
<1>1. CASE Regulate
  BY <1>1 DEF Regulate, slaveVars, radioVars, masterVars
<1>2. CASE LoadTxBuf
  BY <1>2 DEF LoadTxBuf, slaveVars, radioVars, masterVars
<1>21. CASE ReceiveCommand
  BY <1>21 DEF ReceiveCommand, slaveVars, radioVars, masterVars
<1>3. CASE RaiseReady
  BY <1>3 DEF RaiseReady, slaveVars, radioVars, masterVars
<1>4. CASE SampleReady
  BY <1>4 DEF SampleReady, commandVars, slaveVars, radioVars, masterVars
<1>5. CASE Arm
  BY <1>5 DEF Arm, commandVars, radioVars, masterVars
<1>6. CASE ClearReady
  BY <1>6 DEF ClearReady, commandVars, radioVars, masterVars
<1>7. CASE QueueReading
  BY <1>7 DEF QueueReading, commandVars, radioVars, masterVars
<1>8. CASE PostReading
  BY <1>8 DEF PostReading, commandVars, radioVars, masterVars
<1>9. CASE Hear
  BY <1>9 DEF Hear, commandVars, slaveVars, masterVars
<1>10. CASE BeginUplink
  BY <1>10 DEF BeginUplink, BeginTransfer, commandVars, slaveVars
<1>11. CASE EndUplink
  BY <1>11 DEF EndUplink, EndTransfer, commandVars
<1>12. CASE NoUplink
  BY <1>12 DEF NoUplink, commandVars, slaveVars, radioVars
<1>13. CASE BeginPoll
  BY <1>13 DEF BeginPoll, BeginTransfer, commandVars, slaveVars, radioVars
<1>14. CASE SkipPoll
  BY <1>14 DEF SkipPoll, commandVars, slaveVars, radioVars
<1>15. CASE EndPollCommand
  <2>1. PICK i \in clk..AddressIn, j \in clk..txBuf :
           /\ i <= j + 1
           /\ rfTxQueue' = Append(rfTxQueue,
                               [dev |-> sent[i].dev,
                                pin |-> Relayed(sent[j].code)])
           /\ last' = j
    BY <1>15 DEF EndPollCommand
  <2>2. /\ 0 < clk /\ clk <= txBuf /\ txBuf <= Len(sent)
        /\ AddressIn \in Nat /\ AddressIn <= Len(sent)
    BY <1>15 DEF EndPollCommand, EndPoll, DownInv, CommandsInStep, PollInv,
       AddressIn
  <2>3. i \in 1..Len(sent) /\ j \in 1..Len(sent)
    BY <2>1, <2>2
  <2>4. sent[i] \in Command /\ sent[j] \in Command
    BY <2>3
  <2>5. sent[i].dev \in Device /\ Relayed(sent[j].code) \in 0..2
    BY <2>4 DEF Command, Relayed
  <2>6. [dev |-> sent[i].dev, pin |-> Relayed(sent[j].code)] \in Frame
    BY <2>5 DEF Frame
  <2>7. rfTxQueue' \in Seq(Frame) /\ last' \in Nat
    BY <2>1, <2>3, <2>6
  <2> QED
    BY <1>15, <2>7 DEF EndPollCommand, EndPoll, EndTransfer, commandVars
<1>16. CASE EndPollStray
  <2>1. [dev |-> NoDevice, pin |-> 0] \in Frame
        /\ [dev |-> NoDevice, pin |-> 1] \in Frame
    BY DEF Frame
  <2> QED
    BY <1>16, <2>1 DEF EndPollStray, EndPoll, EndTransfer, commandVars
<1>17. CASE EndPollNothing
  BY <1>17 DEF EndPollNothing, EndPoll, EndTransfer, commandVars
<1>18. CASE StopSpinning
  BY <1>18 DEF StopSpinning, commandVars, slaveVars, radioVars
<1>19. CASE Transmit
  BY <1>19 DEF Transmit, commandVars, slaveVars, masterVars
<1>20. CASE UNCHANGED vars
  BY <1>20 DEF vars, commandVars, slaveVars, radioVars, masterVars
<1> QED
  BY <1>1, <1>2, <1>21, <1>3, <1>4, <1>5, <1>6, <1>7, <1>8, <1>9, <1>10, <1>11,
     <1>12, <1>13, <1>14, <1>15, <1>16, <1>17, <1>18, <1>19, <1>20
     DEF Next, Controller, Gateway

(* Commands stay in step along the downlink.                               *)
LEMMA DownStep == TypeOK /\ DownInv /\ [Next]_vars => DownInv'
<1> SUFFICES ASSUME TypeOK, DownInv, [Next]_vars PROVE DownInv'
  OBVIOUS
<1> USE DEF DownInv, CommandsInStep, PollInv, TakenInv
<1>0. /\ sent \in Seq(Command) /\ spiTxQueue \in Seq(Nat)
      /\ Len(sent) \in Nat /\ Len(spiTxQueue) \in Nat
      /\ msgTx \in Nat /\ txBuf \in Nat /\ clk \in Nat /\ last \in Nat
      /\ dataSend \in {"wait", "copying", "copied"}
  BY DEF TypeOK
<1>1. CASE Regulate
  <2>1. PICK c \in Command : sent' = Append(sent, c)
    BY <1>1 DEF Regulate
  <2>2. spiTxQueue' = Append(spiTxQueue, Len(sent) + 1)
        /\ UNCHANGED <<dataSend, msgTx, txBuf, spiReady, gpio, last, clk,
                       gwTask>>
    BY <1>1 DEF Regulate, radioVars, masterVars
  <2>3. Len(sent') = Len(sent) + 1
    BY <1>0, <2>1, AppendElements
  <2>4. /\ Len(spiTxQueue') = Len(spiTxQueue) + 1
        /\ \A k \in 1..Len(spiTxQueue) : spiTxQueue'[k] = spiTxQueue[k]
        /\ spiTxQueue'[Len(spiTxQueue) + 1] = Len(sent) + 1
    BY <1>0, <2>2, AppendElements
  <2>5. \A k \in 1..Len(spiTxQueue') : spiTxQueue'[k] = msgTx + k
    <3>1. Len(sent) + 1 = msgTx + (Len(spiTxQueue) + 1)
      BY <1>0
    <3>2. \A k \in 1..Len(spiTxQueue') :
            k \in 1..Len(spiTxQueue) \/ k = Len(spiTxQueue) + 1
      BY <1>0, <2>4
    <3> QED
      BY <2>4, <3>1, <3>2
  <2> QED
    BY <1>0, <2>2, <2>3, <2>4, <2>5
<1>2. CASE ReceiveCommand
  <2>1. /\ dataSend = "wait" /\ dataSend' = "copying"
        /\ spiTxQueue # <<>> /\ spiTxQueue' = Tail(spiTxQueue)
        /\ msgTx' = Head(spiTxQueue)
        /\ UNCHANGED <<sent, txBuf, spiReady, gpio, last, clk, gwTask>>
    BY <1>2 DEF ReceiveCommand, radioVars, masterVars
  <2>2. /\ Head(spiTxQueue) = spiTxQueue[1] /\ Len(spiTxQueue) \in Nat \ {0}
        /\ Len(spiTxQueue') = Len(spiTxQueue) - 1
        /\ \A k \in 1..Len(spiTxQueue) - 1 :
             spiTxQueue'[k] = spiTxQueue[k + 1]
    BY <1>0, <2>1, TailElements
  <2>3. msgTx' = msgTx + 1
    BY <1>0, <2>1, <2>2
  <2>4. \A k \in 1..Len(spiTxQueue') : spiTxQueue'[k] = msgTx' + k
    BY <1>0, <2>2, <2>3
  <2> QED
    BY <1>0, <2>1, <2>2, <2>3, <2>4
<1>3. CASE LoadTxBuf
  <2>1. /\ dataSend = "copying" /\ dataSend' = "copied" /\ txBuf' = msgTx
        /\ UNCHANGED <<sent, spiTxQueue, msgTx, spiReady, gpio, last, clk,
                       gwTask>>
    BY <1>3 DEF LoadTxBuf, radioVars, masterVars
  <2> QED
    BY <1>0, <2>1
<1>4. CASE RaiseReady
  BY <1>0, <1>4 DEF RaiseReady, radioVars, masterVars
<1>5. CASE SampleReady \/ ClearReady
  BY <1>5 DEF SampleReady, ClearReady, commandVars, radioVars, masterVars
<1>6. CASE BeginPoll
  BY <1>0, <1>6 DEF BeginPoll, BeginTransfer, commandVars, slaveVars,
     radioVars
<1>7. CASE EndPollCommand
  BY <1>0, <1>7 DEF EndPollCommand, EndPoll, EndTransfer, commandVars
<1>8. CASE UNCHANGED <<commandVars, spiReady, gpio, last, clk, gwTask>>
  BY <1>8 DEF commandVars
<1>9. CASE UNCHANGED <<commandVars, spiReady, gpio, last>> /\ gwTask' # "poll"
  BY <1>9 DEF commandVars
<1> QED
  BY <1>1, <1>2, <1>3, <1>4, <1>5, <1>6, <1>7, <1>8, <1>9
     DEF Next, Controller, Gateway, Arm, QueueReading, PostReading, Hear,
         BeginUplink, BeginTransfer, EndUplink, EndTransfer, NoUplink,
         SkipPoll, EndPollStray, EndPollNothing, EndPoll, StopSpinning,
         Transmit, vars, slaveVars, radioVars, masterVars

(* Only its own transfer takes an armed slave out of SPI_transfer.         *)
LEMMA TransferStep ==
  TypeOK /\ UpInv /\ TransferInv /\ [Next]_vars => TransferInv'
<1> SUFFICES ASSUME TypeOK, UpInv, TransferInv, [Next]_vars
             PROVE  TransferInv'
  OBVIOUS
<1> USE DEF TransferInv
<1>0. gwQueue \in Seq(Nat) /\ heard \in Nat
  BY BoundAssumption DEF TypeOK
<1>1. CASE Hear
  <2>1. heard' = heard + 1 /\ gwQueue' = Append(gwQueue, heard + 1)
        /\ UNCHANGED <<gwTask, gwMsg, armed, spiTask>>
    BY <1>1 DEF Hear, masterVars, slaveVars
  <2>2. Taken' = Taken
    BY <1>0, <2>1, AppendElements, LenProperties DEF Taken
  <2> QED
    BY <2>1, <2>2
<1>2. CASE BeginUplink
  <2>1. gwQueue # <<>> /\ gwQueue' = Tail(gwQueue) /\ heard' = heard
        /\ gwTask' = "uplink" /\ gwMsg' = Head(gwQueue)
        /\ armed' = (spiTask = "armed") /\ spiTask' = spiTask
    BY <1>2 DEF BeginUplink, BeginTransfer, slaveVars
  <2>2. Head(gwQueue) = gwQueue[1] /\ Len(gwQueue) \in Nat \ {0}
        /\ Len(gwQueue') = Len(gwQueue) - 1
    BY <1>0, <2>1, TailElements
  <2>3. gwQueue[1] = Taken + 1
    BY <2>2 DEF UpInv
  <2>4. Taken' = Taken + 1
    BY <1>0, <2>1, <2>2 DEF Taken
  <2> QED
    BY <2>1, <2>2, <2>3, <2>4
<1>3. CASE BeginPoll
  BY <1>3 DEF BeginPoll, BeginTransfer, slaveVars
<1>4. CASE Arm
  BY <1>4 DEF Arm, radioVars, masterVars, Taken
<1>5. CASE ClearReady
  BY <1>5 DEF ClearReady, radioVars, masterVars, Taken
<1>6. CASE QueueReading
  BY <1>6 DEF QueueReading, radioVars, masterVars, Taken
<1>7. CASE gwTask' \notin {"uplink", "poll"}
  BY <1>7
<1>8. CASE UNCHANGED <<gwTask, gwMsg, armed, spiTask, heard, gwQueue>>
  BY <1>8 DEF Taken
<1> QED
  BY <1>1, <1>2, <1>3, <1>4, <1>5, <1>6, <1>7, <1>8
     DEF Next, Controller, Gateway, Regulate, ReceiveCommand, LoadTxBuf,
         RaiseReady, SampleReady, PostReading, EndUplink, NoUplink, SkipPoll,
         EndPollCommand, EndPollStray, EndPollNothing, EndPoll,
         StopSpinning, Transmit, vars, commandVars, slaveVars, radioVars,
         masterVars
(* Packets keep their order from the radio to the http task.               *)
LEMMA UpStep == IInv /\ [Next]_vars => UpInv'
<1> SUFFICES ASSUME IInv, [Next]_vars PROVE UpInv'
  OBVIOUS
<1>0. /\ gwQueue \in Seq(Nat) /\ spiQueue \in Seq(Nat)
      /\ Len(gwQueue) \in Nat /\ Len(spiQueue) \in Nat
      /\ heard \in Nat /\ posted \in Nat /\ spiMsg \in Nat
      /\ Taken \in Int
      /\ \A a \in 1..Len(spiQueue) : spiQueue[a] \in Nat
  BY BoundAssumption DEF IInv, TypeOK, Taken
<1>00. UpInv /\ TransferInv
  BY DEF IInv
<1>1. CASE Hear
  <2>1. /\ heard' = heard + 1 /\ gwQueue' = Append(gwQueue, heard + 1)
        /\ UNCHANGED <<spiTask, spiMsg, spiQueue, posted, gwTask>>
    BY <1>1 DEF Hear, slaveVars, masterVars
  <2>2. /\ Len(gwQueue') = Len(gwQueue) + 1
        /\ \A b \in 1..Len(gwQueue) : gwQueue'[b] = gwQueue[b]
        /\ gwQueue'[Len(gwQueue) + 1] = heard + 1
    BY <1>0, <2>1, AppendElements
  <2>3. Taken' = Taken
    BY <1>0, <2>1, <2>2 DEF Taken
  <2>4. heard + 1 = Taken + (Len(gwQueue) + 1)
    BY <1>0 DEF Taken
  <2>5. \A b \in 1..Len(gwQueue) : gwQueue'[b] = Taken + b
    BY <1>0, <1>00, <2>2 DEF UpInv
  <2>6. \A b \in 1..Len(gwQueue') : gwQueue'[b] = Taken' + b
    <3> SUFFICES ASSUME NEW b \in 1..Len(gwQueue')
                 PROVE  gwQueue'[b] = Taken + b
      BY <2>3
    <3>1. b \in 1..Len(gwQueue) \/ b = Len(gwQueue) + 1
      BY <1>0, <2>2
    <3> QED
      BY <2>2, <2>4, <2>5, <3>1
  <2> QED
    BY <1>00, <2>1, <2>3, <2>6 DEF UpInv, Holding, Rising
<1>2. CASE BeginUplink
  <2>1. /\ gwQueue # <<>> /\ gwQueue' = Tail(gwQueue)
        /\ gwTask' = "uplink"
        /\ UNCHANGED <<heard, spiTask, spiMsg, spiQueue, posted>>
    BY <1>2 DEF BeginUplink, slaveVars
  <2>2. /\ Len(gwQueue) \in Nat \ {0} /\ Len(gwQueue') = Len(gwQueue) - 1
        /\ \A b \in 1..Len(gwQueue) - 1 : gwQueue'[b] = gwQueue[b + 1]
    BY <1>0, <2>1, TailElements
  <2>3. Taken' = Taken + 1
    BY <1>0, <2>1, <2>2 DEF Taken
  <2>4. \A b \in 1..Len(gwQueue') : gwQueue'[b] = Taken' + b
    BY <1>0, <1>00, <2>2, <2>3 DEF UpInv
  <2> QED
    BY <1>0, <1>00, <2>1, <2>3, <2>4 DEF UpInv, Holding, Rising
<1>3. CASE EndUplink
  <2>1. /\ gwTask = "uplink" /\ gwTask' = "gpio"
        /\ UNCHANGED <<heard, gwQueue, spiQueue, posted>>
        /\ IF armed THEN spiTask' = "received" /\ spiMsg' = gwMsg
                    ELSE UNCHANGED <<spiTask, spiMsg>>
    BY <1>3 DEF EndUplink, EndTransfer
  <2>2. Taken' = Taken /\ gwMsg = Taken
    BY <1>00, <2>1 DEF Taken, TransferInv
  <2>3. CASE armed
    BY <1>0, <1>00, <2>1, <2>2, <2>3 DEF UpInv, Holding, Rising
  <2>4. CASE ~armed
    BY <1>0, <1>00, <2>1, <2>2, <2>4 DEF UpInv, Holding, Rising
  <2> QED
    BY <2>3, <2>4
<1>4. CASE EndPoll /\ UNCHANGED <<heard, gwQueue, spiQueue, posted>>
  <2>1. /\ gwTask = "poll" /\ gwTask' = "spin" /\ Taken' = Taken
        /\ \/ spiTask' = "received" /\ spiMsg' = Poll
           \/ UNCHANGED <<spiTask, spiMsg>>
    BY <1>00, <1>4 DEF EndPoll, EndTransfer, TransferInv, Taken
  <2> QED
    BY <1>0, <1>00, <1>4, <2>1 DEF UpInv, Holding, Rising, Poll
<1>5. CASE ClearReady
  <2>1. UNCHANGED <<heard, gwQueue, spiMsg, spiQueue, posted, gwTask>>
        /\ Taken' = Taken /\ (Holding' => Holding)
        /\ (spiTask' = "send" => spiMsg # Poll)
    BY <1>5 DEF ClearReady, radioVars, masterVars, Taken, Holding
  <2> QED
    BY <1>00, <2>1 DEF UpInv, Rising
<1>6. CASE QueueReading
  <2>1. /\ spiTask = "send" /\ spiTask' = "print"
        /\ spiQueue' = Append(spiQueue, spiMsg)
        /\ UNCHANGED <<heard, gwQueue, spiMsg, posted, gwTask>>
    BY <1>6 DEF QueueReading, radioVars, masterVars
  <2>2. /\ Len(spiQueue') = Len(spiQueue) + 1
        /\ \A a \in 1..Len(spiQueue) : spiQueue'[a] = spiQueue[a]
        /\ spiQueue'[Len(spiQueue) + 1] = spiMsg
    BY <1>0, <2>1, AppendElements
  <2>3. Taken' = Taken /\ ~Holding'
    BY <2>1 DEF Taken, Holding
  <2>4. Holding
    BY <1>00, <2>1 DEF Holding, UpInv
  <2> QED
    BY <1>0, <1>00, <2>1, <2>2, <2>3, <2>4 DEF UpInv, Rising
<1>7. CASE PostReading
  <2>1. /\ spiQueue # <<>> /\ spiQueue' = Tail(spiQueue)
        /\ posted' = Head(spiQueue)
        /\ UNCHANGED <<heard, gwQueue, spiTask, spiMsg, gwTask>>
    BY <1>7 DEF PostReading, radioVars, masterVars
  <2>2. /\ Len(spiQueue) \in Nat \ {0} /\ Head(spiQueue) = spiQueue[1]
        /\ Len(spiQueue') = Len(spiQueue) - 1
        /\ \A a \in 1..Len(spiQueue) - 1 : spiQueue'[a] = spiQueue[a + 1]
    BY <1>0, <2>1, TailElements
  <2>3. Taken' = Taken /\ Holding' = Holding
    BY <2>1 DEF Taken, Holding
  <2>4. \A a \in 1..Len(spiQueue') : posted' < spiQueue'[a]
    BY <1>0, <1>00, <2>1, <2>2 DEF UpInv, Rising
  <2>5. Rising(spiQueue)'
    <3> SUFFICES ASSUME NEW a \in 1..Len(spiQueue'),
                        NEW b \in 1..Len(spiQueue'), a < b
                 PROVE  spiQueue'[a] < spiQueue'[b]
      BY DEF Rising
    <3>1. /\ a + 1 \in 1..Len(spiQueue) /\ b + 1 \in 1..Len(spiQueue)
          /\ spiQueue'[a] = spiQueue[a + 1]
          /\ spiQueue'[b] = spiQueue[b + 1]
      BY <1>0, <2>2
    <3> QED
      BY <1>0, <1>00, <3>1 DEF UpInv, Rising
  <2> QED
    BY <1>0, <1>00, <2>1, <2>2, <2>3, <2>4, <2>5 DEF UpInv
<1>8. CASE Arm
  <2>1. UNCHANGED <<heard, gwQueue, spiMsg, spiQueue, posted, gwTask>>
        /\ Taken' = Taken /\ ~Holding' /\ spiTask' = "armed"
    BY <1>8 DEF Arm, radioVars, masterVars, Taken, Holding
  <2> QED
    BY <1>00, <2>1 DEF UpInv, Rising
<1>9. CASE UNCHANGED <<heard, gwQueue, spiTask, spiMsg, spiQueue, posted>>
           /\ (gwTask' = "uplink" => gwTask = "uplink")
  <2>1. Taken' = Taken /\ Holding' = Holding
    BY <1>9 DEF Taken, Holding
  <2> QED
    BY <1>00, <1>9, <2>1 DEF UpInv, Rising
<1> QED
  BY <1>1, <1>2, <1>3, <1>4, <1>5, <1>6, <1>7, <1>8, <1>9
     DEF Next, Controller, Gateway, Regulate, ReceiveCommand, LoadTxBuf,
         RaiseReady, SampleReady, NoUplink, BeginPoll, BeginTransfer, SkipPoll,
         EndPollCommand, EndPollStray, EndPollNothing, EndPoll, EndTransfer,
         StopSpinning, Transmit, vars, commandVars, slaveVars, radioVars,
         masterVars
(* The conjunction of the parts is inductive.                              *)
LEMMA InvInit == Init => IInv
<1> SUFFICES ASSUME Init PROVE IInv
  OBVIOUS
<1> USE CapAssumption, BoundAssumption DEF Init
<1>1. TypeOK
  <2>1. /\ sent \in Seq(Command) /\ spiTxQueue \in Seq(Nat)
        /\ spiQueue \in Seq(Nat) /\ gwQueue \in Seq(Nat)
        /\ rfTxQueue \in Seq(Frame)
        /\ Len(sent) = 0 /\ Len(spiTxQueue) = 0 /\ Len(spiQueue) = 0
    BY EmptySeq
  <2>2. 0 <= MaxCommands /\ 0 <= TxCap /\ 0 <= RxCap /\ 0 \in 0..MaxPackets
    OBVIOUS
  <2>3. armed \in BOOLEAN
    OBVIOUS
  <2> QED
    BY <2>1, <2>2, <2>3 DEF TypeOK, SlavePc, MasterPc, Poll
<1>2. DownInv /\ TransferInv
  BY DEF DownInv, CommandsInStep, PollInv, TakenInv, TransferInv
<1>3. UpInv
  BY DEF UpInv, Taken, Holding, Rising
<1> QED
  BY <1>1, <1>2, <1>3 DEF IInv

THEOREM Invariance == Spec => []IInv
<1>1. IInv /\ [Next]_vars => IInv'
  BY TypeStep, DownStep, TransferStep, UpStep DEF IInv
<1> QED
  BY InvInit, <1>1, PTL DEF Spec
-------------------------------------------------------------------------------
(* Every variable of the two boards keeps its type and every queue its     *)
(* capacity.                                                               *)
THEOREM TypeCorrect == Spec => []TypeOK
<1>1. IInv => TypeOK
  BY DEF IInv
<1> QED
  BY Invariance, <1>1, PTL

(* regulatorTask's commands reach txBuf complete and in order.             *)
THEOREM CommandsStayInStep == Spec => []CommandsInStep
<1>1. IInv => CommandsInStep
  BY DEF IInv, DownInv
<1> QED
  BY Invariance, <1>1, PTL

(* httpHTLPostTask sees every packet at most once, in order of reception.  *)
THEOREM ReadingsStayInOrder == Spec => []ReadingsInOrder
<1>1. IInv => ReadingsInOrder
  <2> SUFFICES ASSUME IInv PROVE ReadingsInOrder
    OBVIOUS
  <2>1. /\ Len(gwQueue) \in Nat /\ Len(spiQueue) \in Nat
        /\ heard \in Nat /\ posted \in Nat /\ Taken \in Int
        /\ \A a \in 1..Len(spiQueue) : spiQueue[a] \in Nat
    BY BoundAssumption DEF IInv, TypeOK, Taken
  <2>2. UpInv
    BY DEF IInv
  <2>3. Rising(gwQueue)
    BY <2>1, <2>2 DEF UpInv, Rising
  <2>4. \A b \in 1..Len(gwQueue) : gwQueue[b] > Taken /\ gwQueue[b] <= heard
    BY <2>1, <2>2 DEF UpInv, Taken
  <2> QED
    BY <2>1, <2>2, <2>3, <2>4 DEF UpInv, ReadingsInOrder
<1> QED
  BY Invariance, <1>1, PTL

(* Once the gateway spins on a raised line and the slave waits for its     *)
(* clock, no task of either board ends the wait.                           *)
THEOREM WedgeStays == Spec => WedgeIsPermanent
<1>1. [Next]_vars => [Wedged => Wedged']_vars
  BY DEF Wedged, Next, Controller, Gateway, Regulate, ReceiveCommand,
         LoadTxBuf, RaiseReady, SampleReady, Arm, ClearReady, QueueReading,
         PostReading, Hear,
         BeginUplink, EndUplink, NoUplink, BeginPoll, SkipPoll,
         EndPollCommand, EndPollStray, EndPollNothing, EndPoll,
         StopSpinning, Transmit, vars, commandVars, slaveVars, radioVars,
         masterVars
<1> QED
  BY <1>1, PTL DEF Spec, WedgeIsPermanent
-------------------------------------------------------------------------------
(* The initial state of the link is one of the channel.                    *)
LEMMA ChannelInit == Init => Channel!Init
  BY DEF Init, Channel!Init

(* Every step of the link is a step of the channel or leaves it alone.     *)
LEMMA ChannelStep == IInv /\ [Next]_vars => [Channel!Next]_(Channel!vars)
<1> SUFFICES ASSUME IInv, [Next]_vars, ~UNCHANGED <<sent, rfTxQueue, last>>
             PROVE  Channel!Next
  BY DEF Channel!vars
<1>1. CASE Regulate
  BY <1>1 DEF Regulate, radioVars, Channel!Next, Channel!Issue, Command,
     Channel!Command
<1>2. CASE EndPollCommand
  <2>1. PICK i \in clk..AddressIn, j \in clk..txBuf :
           /\ i <= j + 1
           /\ rfTxQueue' = Append(rfTxQueue,
                               [dev |-> sent[i].dev,
                                pin |-> Relayed(sent[j].code)])
           /\ last' = j
    BY <1>2 DEF EndPollCommand
  <2>2. /\ 0 < clk /\ last <= clk /\ clk <= txBuf /\ txBuf <= Len(sent)
        /\ clk \in Nat /\ txBuf \in Nat /\ last \in Nat
        /\ AddressIn \in Nat /\ AddressIn <= Len(sent)
        /\ Len(sent) \in Nat /\ sent \in Seq(Command)
    BY <1>2 DEF EndPollCommand, EndPoll, IInv, DownInv, CommandsInStep,
       PollInv, AddressIn, TypeOK
  <2>3. /\ i \in 1..Len(sent) /\ j \in 1..Len(sent)
        /\ last <= i /\ last <= j /\ i <= j + 1
    BY <2>1, <2>2
  <2>4. Relayed(sent[j].code) = Channel!Level(sent[j].code)
    <3>1. sent[j] \in Command
      BY <2>2, <2>3
    <3> QED
      BY <3>1 DEF Command, Relayed, Channel!Level
  <2>5. sent' = sent
    BY <1>2 DEF EndPollCommand, EndPoll, EndTransfer, commandVars
  <2> QED
    BY <2>1, <2>3, <2>4, <2>5 DEF Channel!Next, Channel!Accept
<1>3. CASE EndPollStray
  BY <1>3 DEF EndPollStray, EndPoll, EndTransfer, commandVars,
     Channel!Next, Channel!AcceptStray
<1>4. CASE Transmit
  BY <1>4 DEF Transmit, commandVars, Channel!Next, Channel!Take
<1> QED
  BY <1>1, <1>2, <1>3, <1>4
     DEF Next, Controller, Gateway, ReceiveCommand, LoadTxBuf, RaiseReady,
         SampleReady, Arm, ClearReady, QueueReading, PostReading, Hear,
         BeginUplink, EndUplink, NoUplink, BeginPoll, BeginTransfer, SkipPoll,
         EndPollNothing, EndPoll, EndTransfer, StopSpinning, vars,
         commandVars, slaveVars, radioVars, masterVars

(* The link implements the lossy but order-preserving command channel.     *)
THEOREM Refinement == Spec => ChannelSpec
<1>1. Spec => [][Channel!Next]_(Channel!vars)
  BY Invariance, ChannelStep, PTL DEF Spec
<1> QED
  BY ChannelInit, <1>1, PTL DEF Spec, ChannelSpec, Channel!Spec
===============================================================================
