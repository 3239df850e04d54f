-------------------------- MODULE RadioBridgeProofs --------------------------
(***************************************************************************)
(* Theorems about the radio, for any number of nodes, any ranges, any heap *)
(* and any bounds of the model.                                            *)
(*                                                                         *)
(* BuffersInStep is nearly inductive: which entries are taken follows from *)
(* where the callback reads and how often it still has to (RingShape), and *)
(* what the gateway sends is what its transmit task holds, until the task  *)
(* learns that the packet is out (OnAir).  That pins obey in order rests on*)
(* the way of a command: each that is under way was asked for (Wanted), and*)
(* whatever is further along the way rfTxQueue, transmit task, ring, output*)
(* pin is not newer (InLine).  The readings go the other way: what the     *)
(* gateway has of a node is of a round that the node has left, and older   *)
(* than what the node will send (Uplink).                                  *)
(***************************************************************************)
EXTENDS RadioBridge, FiniteSetTheorems, SequenceTheorems, TLAPS

CommandPacket == [kind : {"command"}, dev : Device, pin : {0, 1}, num : Nat]

Types == /\ TypeOK
         /\ asked \in [Device -> Seq({0, 1})]
         /\ txTask \in {Empty} \cup CommandPacket
         /\ rfTxQueue \in Seq(CommandPacket)

OnAir == /\ Gateway \in DOMAIN air => air[Gateway] = txTask
         /\ sent => txTask # Empty /\ Gateway \notin DOMAIN air
         /\ \A x \in DOMAIN air : /\ air[x] # Empty
                                  /\ x # Gateway => air[x].kind # "command"

RingShape ==
  \A r \in Receiver :
    \/ /\ events[r] = 0 /\ writeEntry[r] = readEntry[r]
       /\ entry[r][0] = Empty /\ entry[r][1] = Empty
    \/ /\ events[r] = 1 /\ writeEntry[r] = 1 - readEntry[r]
       /\ entry[r][readEntry[r]] # Empty /\ entry[r][1 - readEntry[r]] = Empty
    \/ /\ events[r] = 2 /\ writeEntry[r] = readEntry[r]
       /\ entry[r][0] # Empty /\ entry[r][1] # Empty

IInv == Types /\ OnAir /\ RingShape /\ HeapAccounted
-------------------------------------------------------------------------------
LEMMA ConstantWorld ==
  ASSUME TypeOK
  PROVE  /\ world.restarts \in Nat /\ HeapSize \in Nat \ {0} /\ Retries \in Nat \ {0}
         /\ MaxRounds \in Nat \ {0}
         /\ world.changes \in [Device -> Nat]
BY WorldAssumption DEF TypeOK, Worlds, HeapSize, Retries, MaxRounds

LEMMA Kinds ==
  /\ Empty \in Packet /\ Empty.kind = "empty"
  /\ CommandPacket \subseteq Packet
  /\ \A c \in CommandPacket : c.kind = "command" /\ c # Empty
BY DEF Packet, CommandPacket, Empty

(* The air and the ring when a packet begins and when it ends.             *)
LEMMA Starts ==
  ASSUME TypeOK, NEW x \in Radio, NEW p \in Packet, StartSending(x, p)
  PROVE  /\ DOMAIN air' = DOMAIN air \cup {x} /\ air'[x] = p
         /\ \A y \in DOMAIN air \ {x} : air'[y] = air[y]
         /\ DOMAIN air' \subseteq Radio /\ \A y \in DOMAIN air' : air'[y] \in Packet
         /\ hears' \in [Receiver -> Radio \cup {Nobody}]
BY DEF StartSending, TypeOK

LEMMA Stops ==
  ASSUME Types, OnAir, RingShape, NEW x \in DOMAIN air, NEW got \in SUBSET Receiver,
         StopSending(x, got)
  PROVE  /\ DOMAIN air' = DOMAIN air \ {x}
         /\ \A y \in DOMAIN air' : air'[y] = air[y]
         /\ DOMAIN air' \subseteq Radio /\ \A y \in DOMAIN air' : air'[y] \in Packet
         /\ hears' \in [Receiver -> Radio \cup {Nobody}]
         /\ listening' \in [Receiver -> BOOLEAN]
         /\ entry' \in [Receiver -> [0..1 -> Packet]]
         /\ writeEntry' \in [Receiver -> 0..1] /\ readEntry' = readEntry
         /\ events' \in [Receiver -> 0..2]
         /\ RingShape'
<1> DEFINE Free(r) == entry[r][writeEntry[r]] = Empty
<1>1. /\ DOMAIN air \subseteq Radio /\ \A y \in DOMAIN air : air[y] \in Packet
      /\ entry \in [Receiver -> [0..1 -> Packet]]
      /\ writeEntry \in [Receiver -> 0..1] /\ readEntry \in [Receiver -> 0..1]
      /\ events \in [Receiver -> 0..2]
      /\ hears \in [Receiver -> Radio \cup {Nobody}]
      /\ listening \in [Receiver -> BOOLEAN]
      /\ air[x] # Empty
  BY DEF Types, TypeOK, OnAir
<1>2. /\ DOMAIN air' = DOMAIN air \ {x}
      /\ \A y \in DOMAIN air' : air'[y] = air[y]
      /\ hears' \in [Receiver -> Radio \cup {Nobody}]
      /\ listening' \in [Receiver -> BOOLEAN]
      /\ readEntry' = readEntry
  BY <1>1 DEF StopSending
<1>3. entry' = [r \in Receiver |-> IF r \in got /\ Free(r)
                  THEN [entry[r] EXCEPT ![writeEntry[r]] = air[x]] ELSE entry[r]]
  BY DEF StopSending
<1>4. writeEntry' = [r \in Receiver |-> IF r \in got /\ Free(r) THEN 1 - writeEntry[r]
                                        ELSE writeEntry[r]]
  BY DEF StopSending
<1>5. events' = [r \in Receiver |-> IF r \in got /\ Free(r) THEN events[r] + 1
                                    ELSE events[r]]
  BY DEF StopSending
<1>6. entry' \in [Receiver -> [0..1 -> Packet]] BY <1>1, <1>3
<1>7. writeEntry' \in [Receiver -> 0..1] BY <1>1, <1>4
<1>8. ASSUME NEW r \in Receiver
      PROVE  /\ events'[r] \in 0..2
             /\ RingShape!(r)'
  <2>1. /\ entry[r] \in [0..1 -> Packet] /\ readEntry[r] \in {0, 1} /\ writeEntry[r] \in {0, 1}
        /\ RingShape!(r)
    BY <1>1 DEF RingShape
  <2>2. CASE r \in got /\ Free(r)
    <3>1. /\ entry'[r] = [entry[r] EXCEPT ![writeEntry[r]] = air[x]]
          /\ writeEntry'[r] = 1 - writeEntry[r] /\ events'[r] = events[r] + 1
          /\ readEntry'[r] = readEntry[r]
      BY <1>2, <1>3, <1>4, <1>5, <2>2
    <3> QED BY <1>1, <2>1, <2>2, <3>1
  <2>3. CASE ~(r \in got /\ Free(r))
    <3>1. /\ entry'[r] = entry[r] /\ writeEntry'[r] = writeEntry[r]
          /\ events'[r] = events[r] /\ readEntry'[r] = readEntry[r]
      BY <1>2, <1>3, <1>4, <1>5, <2>3
    <3> QED BY <1>1, <2>1, <3>1
  <2> QED BY <2>2, <2>3
<1>9. events' \in [Receiver -> 0..2] BY <1>5, <1>8
<1>10. RingShape' BY <1>8 DEF RingShape
<1> QED BY <1>1, <1>2, <1>6, <1>7, <1>9, <1>10

(* The callback has read an entry.                                         *)
LEMMA Reads ==
  ASSUME Types, RingShape, NEW r \in Receiver, events[r] > 0, NextEntry(r)
  PROVE  /\ entry' \in [Receiver -> [0..1 -> Packet]]
         /\ readEntry' \in [Receiver -> 0..1] /\ writeEntry' = writeEntry
         /\ events' \in [Receiver -> 0..2]
         /\ RingShape'
         /\ entry[r][readEntry[r]] # Empty
<1>1. /\ entry \in [Receiver -> [0..1 -> Packet]]
      /\ writeEntry \in [Receiver -> 0..1] /\ readEntry \in [Receiver -> 0..1]
      /\ events \in [Receiver -> 0..2]
  BY DEF Types, TypeOK
<1>2. /\ entry' = [entry EXCEPT ![r][readEntry[r]] = Empty]
      /\ readEntry' = [readEntry EXCEPT ![r] = 1 - readEntry[r]]
      /\ events' = [events EXCEPT ![r] = events[r] - 1]
      /\ writeEntry' = writeEntry
  BY DEF NextEntry
<1>3. entry' \in [Receiver -> [0..1 -> Packet]] BY <1>1, <1>2, Kinds
<1>4. readEntry' \in [Receiver -> 0..1] /\ events' \in [Receiver -> 0..2]
  <2>1. 1 - readEntry[r] \in 0..1 /\ events[r] - 1 \in 0..2 BY <1>1
  <2> QED BY <1>1, <1>2, <2>1
<1>5. RingShape!(r) BY DEF RingShape
<1>6. /\ entry'[r] = [entry[r] EXCEPT ![readEntry[r]] = Empty]
      /\ readEntry'[r] = 1 - readEntry[r] /\ events'[r] = events[r] - 1
      /\ writeEntry'[r] = writeEntry[r]
      /\ entry[r] \in [0..1 -> Packet] /\ readEntry[r] \in {0, 1}
  BY <1>1, <1>2
<1>7. RingShape!(r)' /\ entry[r][readEntry[r]] # Empty BY <1>5, <1>6
<1>8. ASSUME NEW q \in Receiver, q # r PROVE RingShape!(q)'
  <2>1. /\ entry'[q] = entry[q] /\ readEntry'[q] = readEntry[q]
        /\ events'[q] = events[q] /\ writeEntry'[q] = writeEntry[q]
    BY <1>1, <1>2, <1>8
  <2> QED BY <2>1 DEF RingShape
<1>9. RingShape' BY <1>7, <1>8 DEF RingShape
<1> QED BY <1>2, <1>3, <1>4, <1>7, <1>9
-------------------------------------------------------------------------------
Stage == {"light", "climate", "sense", "count", "send", "stuck"}

NodeState == [at : Stage, left : 0..Retries, round : 0..MaxRounds,
              light : 0..MaxRounds, climate : 0..MaxRounds]

(* What a sensor node sends is a packet.                                   *)
LEMMA NodeTypes ==
  ASSUME TypeOK, NEW n \in Sensor
  PROVE  /\ node[n] \in NodeState /\ Round(n) \in 0..MaxRounds
         /\ Reading(n) \in Packet /\ Reading(n) # Empty /\ Reading(n).kind = "reading"
<1>1. node[n] \in NodeState BY DEF TypeOK, NodeState, Stage
<1>2. Round(n) \in 0..MaxRounds BY <1>1, ConstantWorld DEF Round, NodeState
<1> QED BY <1>1, <1>2 DEF Reading, Packet, Empty, NodeState

(* The parts of a node's state that a step changes.                        *)
LEMMA NodeKeepsType ==
  ASSUME TypeOK, NEW n \in Sensor, NEW new, Node(n, new),
         DOMAIN new \subseteq {"at", "left", "round", "light", "climate"},
         "at" \in DOMAIN new => new["at"] \in Stage,
         "left" \in DOMAIN new => new["left"] \in 0..Retries,
         "round" \in DOMAIN new => new["round"] \in 0..MaxRounds,
         "light" \in DOMAIN new => new["light"] \in 0..MaxRounds,
         "climate" \in DOMAIN new => new["climate"] \in 0..MaxRounds
  PROVE  node' \in [Sensor -> NodeState]
<1> DEFINE old == node[n]
           Over == [f \in DOMAIN old |-> IF f \in DOMAIN new THEN new[f] ELSE old[f]]
<1>1. node \in [Sensor -> NodeState] BY DEF TypeOK, NodeState, Stage
<1>2. old \in NodeState /\ DOMAIN old = {"at", "left", "round", "light", "climate"}
  BY <1>1 DEF NodeState
<1>3. Over \in NodeState BY <1>2 DEF NodeState
<1>4. node' = [node EXCEPT ![n] = Over] BY DEF Node
<1> HIDE DEF Over
<1> QED BY <1>1, <1>3, <1>4

(* Steps of a node other than sending.                                     *)
LEMMA NodeMoves ==
  ASSUME TypeOK, NEW n \in Sensor,
         \/ NoLightSensor(n) \/ MeasureLight(n) \/ MeasureClimate(n)
         \/ SenseIdle(n) \/ SenseBusy(n) \/ CountBranch(n)
  PROVE  /\ node' \in [Sensor -> NodeState]
         /\ UNCHANGED <<world, asked, airVars, ringVars, gatewayVars, deviceVars>>
<1>1. node[n] \in NodeState /\ Round(n) \in 0..MaxRounds BY NodeTypes
<1>2. UNCHANGED <<world, asked, airVars, ringVars, gatewayVars, deviceVars>>
  BY DEF NoLightSensor, MeasureLight, MeasureClimate, SenseIdle, SenseBusy, CountBranch,
         Node
<1>3. CASE NoLightSensor(n)
  <2>1. Node(n, [at |-> "stuck"]) BY <1>3 DEF NoLightSensor
  <2> QED BY <1>2, <2>1, NodeKeepsType DEF Stage
<1>4. CASE MeasureLight(n)
  <2>1. PICK l \in {node[n].light, node[n].round} : Node(n, [at |-> "climate", light |-> l])
    BY <1>4 DEF MeasureLight
  <2>2. l \in 0..MaxRounds BY <1>1 DEF NodeState
  <2> QED BY <1>2, <2>1, <2>2, NodeKeepsType DEF Stage
<1>5. CASE MeasureClimate(n)
  <2>1. PICK c \in {node[n].climate, node[n].round} :
          Node(n, [at |-> "sense", climate |-> c])
    BY <1>5 DEF MeasureClimate
  <2>2. c \in 0..MaxRounds BY <1>1 DEF NodeState
  <2> QED BY <1>2, <2>1, <2>2, NodeKeepsType DEF Stage
<1>6. CASE SenseIdle(n)
  <2>1. Node(n, [at |-> "send"]) BY <1>6 DEF SenseIdle
  <2> QED BY <1>2, <2>1, NodeKeepsType DEF Stage
<1>7. CASE SenseBusy(n)
  <2>1. Node(n, [at |-> "count"]) BY <1>7 DEF SenseBusy
  <2> QED BY <1>2, <2>1, NodeKeepsType DEF Stage
<1>8. CASE CountBranch(n)
  <2>1. CASE node[n].left = 1
    <3>1. Node(n, [at |-> "light", left |-> Retries, round |-> Round(n)])
      BY <1>8, <2>1 DEF CountBranch, Fresh
    <3>2. Retries \in 0..Retries BY ConstantWorld
    <3> QED BY <1>1, <1>2, <3>1, <3>2, NodeKeepsType DEF Stage
  <2>2. CASE node[n].left # 1
    <3> DEFINE l == IF node[n].left = 0 THEN 0 ELSE node[n].left - 1
    <3>1. Node(n, [at |-> "sense", left |-> l]) BY <1>8, <2>2 DEF CountBranch
    <3>2. l \in 0..Retries BY <1>1, ConstantWorld DEF NodeState
    <3> HIDE DEF l
    <3> QED BY <1>2, <3>1, <3>2, NodeKeepsType DEF Stage
  <2> QED BY <2>1, <2>2
<1> QED BY <1>3, <1>4, <1>5, <1>6, <1>7, <1>8
-------------------------------------------------------------------------------
(* The steps, by what they touch.                                          *)

LEMMA SeqFacts ==
  ASSUME NEW S, NEW q \in Seq(S)
  PROVE  /\ Len(q) \in Nat
         /\ \A e \in S : Append(q, e) \in Seq(S) /\ Len(Append(q, e)) = Len(q) + 1
         /\ q # <<>> => /\ Head(q) \in S /\ Tail(q) \in Seq(S)
                        /\ Len(Tail(q)) = Len(q) - 1 /\ Len(q) > 0
BY HeadTailProperties, AppendProperties, LenProperties, EmptySeq

LEMMA WantStep ==
  ASSUME IInv, NEW d \in Device, Want(d)
  PROVE  IInv'
<1> DEFINE l == asked[d][Len(asked[d])]
<1>1. /\ asked \in [Device -> Seq({0, 1})] /\ Len(asked[d]) \in 1..(world.changes[d] + 1)
      /\ world.changes[d] \in Nat
  BY ConstantWorld DEF IInv, Types, TypeOK
<1>2. asked' = [asked EXCEPT ![d] = Append(asked[d], 1 - l)] /\ Len(asked[d]) <= world.changes[d]
      /\ UNCHANGED <<world, airVars, ringVars, gatewayVars, deviceVars, node>>
  BY DEF Want
<1>3. 1 - l \in {0, 1}
  <2>1. l \in {0, 1} BY <1>1
  <2> QED BY <2>1
<1> HIDE DEF l
<1>4. asked[d] \in Seq({0, 1}) BY <1>1
<1>5. /\ Append(asked[d], 1 - l) \in Seq({0, 1})
      /\ Len(Append(asked[d], 1 - l)) = Len(asked[d]) + 1
  BY <1>3, <1>4, SeqFacts
<1>6. asked' \in [Device -> Seq({0, 1})] /\ Len(asked'[d]) \in 1..(world.changes[d] + 1)
      /\ \A e \in Device \ {d} : asked'[e] = asked[e]
  BY <1>1, <1>2, <1>5
<1>7. TypeOK'
  BY <1>2, <1>6 DEF IInv, Types, TypeOK, airVars, ringVars, gatewayVars, deviceVars, Packet,
     HeapSize, Retries, MaxRounds
<1> QED BY <1>2, <1>6, <1>7 DEF IInv, Types, OnAir, RingShape, HeapAccounted, airVars,
        ringVars, gatewayVars

LEMMA QueueStep ==
  ASSUME IInv, \/ \E d \in Device : QueueCommand(d)
               \/ SendUp \/ TakeCommand \/ Wedge \/ Return
  PROVE  IInv'
<1> USE DEF IInv, Types
<1>1. /\ heap \in 0..HeapSize /\ HeapSize \in Nat /\ Gateway \in Receiver
      /\ spiQueue \in Seq(Packet) /\ rfTxQueue \in Seq(Packet)
      /\ rfTxQueue \in Seq(CommandPacket) /\ Len(rfTxQueue) \in Nat /\ Len(spiQueue) \in Nat
  BY ConstantWorld, LenProperties DEF TypeOK, Receiver
<1>2. CASE \E d \in Device : QueueCommand(d)
  <2>1. PICK d \in Device : QueueCommand(d) BY <1>2
  <2>2. Command(d) \in CommandPacket
    <3>1. asked[d] \in Seq({0, 1}) /\ Len(asked[d]) \in Nat /\ Len(asked[d]) >= 1
      BY ConstantWorld DEF TypeOK
    <3> QED BY <3>1 DEF Command, CommandPacket
  <2>3. /\ rfTxQueue' \in Seq(CommandPacket) /\ Len(rfTxQueue') = Len(rfTxQueue) + 1
    BY <1>1, <2>1, <2>2, SeqFacts DEF QueueCommand
  <2>4. rfTxQueue' \in Seq(Packet)
    BY <1>1, <2>1, <2>2, Kinds, SeqFacts DEF QueueCommand
  <2>5. /\ heap' = heap + 1 /\ heap' \in 0..HeapSize
        /\ UNCHANGED <<world, asked, airVars, ringVars, spiQueue, txTask, faulted,
                       sent, wedged, deviceVars, node>>
    BY <1>1, <2>1 DEF QueueCommand
  <2>6. TypeOK'
    BY <2>4, <2>5 DEF TypeOK, airVars, ringVars, deviceVars, Packet, HeapSize, Retries,
       MaxRounds
  <2>7. HeapAccounted' BY <1>1, <2>3, <2>5 DEF HeapAccounted
  <2> QED BY <2>3, <2>5, <2>6, <2>7 DEF OnAir, RingShape, airVars, ringVars
<1>3. CASE SendUp
  <2>1. /\ spiQueue' \in Seq(Packet) /\ Len(spiQueue') = Len(spiQueue) - 1
        /\ Len(spiQueue) > 0
    BY <1>1, <1>3, SeqFacts DEF SendUp
  <2>2. /\ heap' = heap - 1
        /\ UNCHANGED <<world, asked, airVars, ringVars, rfTxQueue, txTask, faulted,
                       sent, wedged, deviceVars, node>>
    BY <1>3 DEF SendUp
  <2>3. HeapAccounted' BY <1>1, <2>1, <2>2 DEF HeapAccounted
  <2>4. heap' \in 0..HeapSize BY <1>1, <2>1, <2>2 DEF HeapAccounted
  <2>5. TypeOK'
    BY <2>1, <2>2, <2>4 DEF TypeOK, airVars, ringVars, deviceVars, Packet, HeapSize,
       Retries, MaxRounds
  <2> QED BY <2>2, <2>3, <2>5 DEF OnAir, RingShape, airVars, ringVars
<1>4. CASE TakeCommand
  <2>1. /\ rfTxQueue # <<>> /\ txTask = Empty /\ txTask' = Head(rfTxQueue)
        /\ rfTxQueue' = Tail(rfTxQueue)
        /\ listening' = [listening EXCEPT ![Gateway] = FALSE]
        /\ hears' = [hears EXCEPT ![Gateway] = Nobody]
        /\ UNCHANGED <<world, asked, air, ringVars, spiQueue, heap, faulted, sent,
                       wedged, deviceVars, node>>
    BY <1>4 DEF TakeCommand
  <2>2. /\ txTask' \in CommandPacket /\ rfTxQueue' \in Seq(CommandPacket)
        /\ Len(rfTxQueue') = Len(rfTxQueue) - 1
    BY <1>1, <2>1, SeqFacts
  <2>3. rfTxQueue' \in Seq(Packet) /\ txTask' \in Packet /\ txTask' # Empty
    BY <1>1, <2>1, <2>2, SeqFacts, Kinds
  <2>4. /\ listening' \in [Receiver -> BOOLEAN] /\ hears' \in [Receiver -> Radio \cup {Nobody}]
    BY <1>1, <2>1 DEF TypeOK
  <2>5. TypeOK'
    BY <2>1, <2>3, <2>4 DEF TypeOK, ringVars, deviceVars, Packet, HeapSize, Retries, MaxRounds
  <2>6. HeapAccounted' BY <1>1, <2>1, <2>2, <2>3 DEF HeapAccounted
  <2>7. OnAir'
    <3>1. Gateway \notin DOMAIN air /\ ~sent BY <2>1 DEF OnAir
    <3> QED BY <2>1, <3>1 DEF OnAir
  <2> QED BY <2>1, <2>2, <2>5, <2>6, <2>7 DEF RingShape, ringVars
<1>5. CASE Wedge
  <2>1. /\ wedged' = TRUE
        /\ UNCHANGED <<world, asked, airVars, ringVars, rfTxQueue, spiQueue, txTask,
                       sent, heap, faulted, deviceVars, node>>
    BY <1>5 DEF Wedge
  <2>2. TypeOK'
    BY <2>1 DEF TypeOK, airVars, ringVars, deviceVars, Packet, HeapSize, Retries,
       MaxRounds
  <2> QED BY <2>1, <2>2 DEF OnAir, RingShape, HeapAccounted, airVars, ringVars
<1>6. CASE Return
  <2>1. /\ sent /\ sent' = FALSE /\ txTask' = Empty /\ heap' = heap - 1
        /\ listening' = [listening EXCEPT ![Gateway] = TRUE]
        /\ UNCHANGED <<world, asked, air, hears, ringVars, rfTxQueue, spiQueue, faulted,
                       wedged, deviceVars, node>>
    BY <1>6 DEF Return
  <2>2. txTask # Empty /\ Gateway \notin DOMAIN air BY <2>1 DEF OnAir
  <2>3. heap = Len(rfTxQueue) + Len(spiQueue) + 1 BY <2>2 DEF HeapAccounted
  <2>4. heap' \in 0..HeapSize BY <1>1, <2>1, <2>3
  <2>5. HeapAccounted' BY <1>1, <2>1, <2>3 DEF HeapAccounted
  <2>6. listening' \in [Receiver -> BOOLEAN] BY <2>1 DEF TypeOK
  <2>7. TypeOK'
    BY <2>1, <2>4, <2>6, Kinds DEF TypeOK, ringVars, deviceVars, Packet, HeapSize,
       Retries, MaxRounds
  <2> QED BY <2>1, <2>2, <2>5, <2>7 DEF OnAir, RingShape, ringVars
<1> QED BY <1>2, <1>3, <1>4, <1>5, <1>6

(* Somebody begins to send.                                                *)
LEMMA SendStep ==
  ASSUME IInv,
         \/ Transmit
         \/ \E d \in Device : Announce(d)
         \/ \E n \in Sensor : Send(n)
  PROVE  IInv'
<1> USE DEF IInv, Types
<1> DEFINE Begins(x, p) ==
        /\ StartSending(x, p)
        /\ p # Empty
        /\ IF x = Gateway THEN p = txTask /\ ~sent ELSE p.kind # "command"
        /\ announce' \in [Device -> BOOLEAN]
        /\ UNCHANGED <<world, asked, listening, ringVars, gatewayVars, pin, level,
                       restarts, node>>
<1>1. PICK x \in Radio, p \in Packet : Begins(x, p)
  <2>1. CASE Transmit
    <3>1. txTask \in Packet BY DEF TypeOK
    <3>2. Gateway \in Radio BY DEF Radio
    <3>3. announce \in [Device -> BOOLEAN] BY DEF TypeOK
    <3> QED BY <2>1, <3>1, <3>2, <3>3 DEF Transmit, deviceVars
  <2>2. ASSUME NEW d \in Device, Announce(d)
        PROVE  \E x \in Radio, p \in Packet : Begins(x, p)
    <3>1. /\ Announcement(d) \in Packet /\ Announcement(d) # Empty
          /\ Announcement(d).kind # "command"
      BY DEF Announcement, Packet, Empty
    <3>2. d \in Radio /\ d # Gateway BY RadioAssumption DEF Radio
    <3>3. announce' \in [Device -> BOOLEAN] BY <2>2 DEF TypeOK, Announce
    <3> QED BY <2>2, <3>1, <3>2, <3>3 DEF Announce
  <2>3. ASSUME NEW n \in Sensor, Send(n)
        PROVE  \E x \in Radio, p \in Packet : Begins(x, p)
    <3>1. /\ Reading(n) \in Packet /\ Reading(n) # Empty /\ Reading(n).kind # "command"
      BY NodeTypes
    <3>2. n \in Radio /\ n # Gateway BY RadioAssumption DEF Radio
    <3>3. announce \in [Device -> BOOLEAN] BY DEF TypeOK
    <3> QED BY <2>3, <3>1, <3>2, <3>3 DEF Send, deviceVars
  <2> QED BY <2>1, <2>2, <2>3
<1>2. /\ DOMAIN air' = DOMAIN air \cup {x} /\ air'[x] = p
      /\ \A y \in DOMAIN air \ {x} : air'[y] = air[y]
      /\ DOMAIN air' \subseteq Radio /\ \A y \in DOMAIN air' : air'[y] \in Packet
      /\ hears' \in [Receiver -> Radio \cup {Nobody}]
  BY <1>1, Starts
<1>3. TypeOK'
  BY <1>1, <1>2 DEF TypeOK, ringVars, gatewayVars, Packet, HeapSize, Retries, MaxRounds
<1>4. OnAir' BY <1>1, <1>2 DEF OnAir, gatewayVars
<1> QED BY <1>1, <1>3, <1>4 DEF RingShape, HeapAccounted, ringVars, gatewayVars

(* Somebody ends to send.                                                  *)
LEMMA SentStep ==
  ASSUME IInv, NEW got \in SUBSET Receiver,
         \/ Transmitted(got)
         \/ \E d \in Device : Announced(d, got)
         \/ \E n \in Sensor : Sent(n, got)
  PROVE  IInv'
<1> USE DEF IInv, Types
<1> DEFINE Ends(x) ==
        /\ StopSending(x, got)
        /\ IF x = Gateway THEN sent' = TRUE ELSE UNCHANGED sent
        /\ node' \in [Sensor -> NodeState]
        /\ UNCHANGED <<world, asked, rfTxQueue, spiQueue, txTask, heap, faulted, wedged,
                       deviceVars>>
<1>1. PICK x \in DOMAIN air : Ends(x)
  <2>0. node \in [Sensor -> NodeState] BY DEF TypeOK, NodeState, Stage
  <2>1. CASE Transmitted(got) BY <2>0, <2>1 DEF Transmitted
  <2>2. ASSUME NEW d \in Device, Announced(d, got)
        PROVE  \E x \in DOMAIN air : Ends(x)
    <3>1. d # Gateway BY RadioAssumption
    <3> QED BY <2>0, <2>2, <3>1 DEF Announced, gatewayVars
  <2>3. ASSUME NEW n \in Sensor, Sent(n, got)
        PROVE  \E x \in DOMAIN air : Ends(x)
    <3>1. n # Gateway BY RadioAssumption
    <3>2. Node(n, [at |-> "light", left |-> Retries, round |-> Round(n)])
      BY <2>3 DEF Sent, Fresh
    <3>3. Retries \in 0..Retries BY ConstantWorld
    <3>4. node' \in [Sensor -> NodeState]
      BY <3>2, <3>3, NodeTypes, NodeKeepsType DEF Stage
    <3> QED BY <2>3, <3>1, <3>4 DEF Sent, Node, gatewayVars
  <2> QED BY <2>1, <2>2, <2>3
<1>2. /\ DOMAIN air' = DOMAIN air \ {x}
      /\ \A y \in DOMAIN air' : air'[y] = air[y]
      /\ DOMAIN air' \subseteq Radio /\ \A y \in DOMAIN air' : air'[y] \in Packet
      /\ hears' \in [Receiver -> Radio \cup {Nobody}]
      /\ listening' \in [Receiver -> BOOLEAN]
      /\ entry' \in [Receiver -> [0..1 -> Packet]]
      /\ writeEntry' \in [Receiver -> 0..1] /\ readEntry' = readEntry
      /\ events' \in [Receiver -> 0..2]
      /\ RingShape'
  BY <1>1, Stops
<1>3. OnAir'
  <2>1. x = Gateway => txTask # Empty BY DEF OnAir
  <2> QED BY <1>1, <1>2, <2>1 DEF OnAir
<1>4. HeapAccounted' BY <1>1 DEF HeapAccounted
<1>5. TypeOK'
  <2>1. readEntry' \in [Receiver -> 0..1] BY <1>2 DEF TypeOK
  <2>2. sent' \in BOOLEAN BY <1>1 DEF TypeOK
  <2> QED BY <1>1, <1>2, <2>1, <2>2
    DEF TypeOK, deviceVars, Packet, HeapSize, Retries, MaxRounds, NodeState, Stage
<1> QED BY <1>1, <1>2, <1>3, <1>4, <1>5

LEMMA GatewayCallbackStep ==
  ASSUME IInv, GatewayCallback
  PROVE  IInv'
<1> USE DEF IInv, Types
<1> DEFINE p == entry[Gateway][readEntry[Gateway]]
<1>1. Gateway \in Receiver BY DEF Receiver
<1>2. /\ entry' \in [Receiver -> [0..1 -> Packet]]
      /\ readEntry' \in [Receiver -> 0..1] /\ writeEntry' = writeEntry
      /\ events' \in [Receiver -> 0..2] /\ RingShape'
  BY <1>1, Reads DEF GatewayCallback
<1>3. UNCHANGED <<world, asked, airVars, rfTxQueue, txTask, sent, wedged, deviceVars,
                 node>>
  BY DEF GatewayCallback
<1>4. /\ heap \in 0..HeapSize /\ HeapSize \in Nat /\ p \in Packet
      /\ Len(rfTxQueue) \in Nat /\ Len(spiQueue) \in Nat /\ spiQueue \in Seq(Packet)
  BY <1>1, ConstantWorld, LenProperties DEF TypeOK
<1> HIDE DEF p
<1>5. /\ heap' \in 0..HeapSize /\ spiQueue' \in Seq(Packet) /\ HeapAccounted'
      /\ faulted' \in BOOLEAN
  <2>1. CASE heap < HeapSize
    <3>1. /\ heap' = heap + 1 /\ spiQueue' = Append(spiQueue, p) /\ faulted' = faulted
      BY <2>1 DEF GatewayCallback, p
    <3>2. spiQueue' \in Seq(Packet) /\ Len(spiQueue') = Len(spiQueue) + 1
      BY <1>4, <3>1, SeqFacts
    <3> QED BY <1>3, <1>4, <2>1, <3>1, <3>2 DEF HeapAccounted, TypeOK
  <2>2. CASE ~(heap < HeapSize)
    BY <1>3, <1>4, <2>2 DEF GatewayCallback, HeapAccounted
  <2> QED BY <2>1, <2>2
<1>6. TypeOK'
  BY <1>2, <1>3, <1>5 DEF TypeOK, airVars, deviceVars, Packet, HeapSize, Retries, MaxRounds
<1> QED BY <1>2, <1>3, <1>5, <1>6 DEF OnAir, airVars

LEMMA DeviceStepKeeps ==
  ASSUME IInv, NEW d \in Device, DeviceCallback(d) \/ Restart(d)
  PROVE  IInv'
<1> USE DEF IInv, Types
<1>1. d \in Receiver BY DEF Receiver
<1>2. CASE DeviceCallback(d)
  <2> DEFINE p == entry[d][readEntry[d]]
  <2>1. /\ entry' \in [Receiver -> [0..1 -> Packet]]
        /\ readEntry' \in [Receiver -> 0..1] /\ writeEntry' = writeEntry
        /\ events' \in [Receiver -> 0..2] /\ RingShape'
    BY <1>1, <1>2, Reads DEF DeviceCallback
  <2>2. UNCHANGED <<world, asked, airVars, gatewayVars, announce, restarts, node>>
    BY <1>2 DEF DeviceCallback
  <2>3. p \in Packet BY <1>1 DEF TypeOK
  <2>4. p.kind = "command" => p.pin \in {0, 1} /\ p.num \in Nat
    BY <2>3 DEF Packet, Empty
  <2>5. pin' \in [Device -> {0, 1}] /\ level' \in [Device -> Nat]
    BY <1>2, <2>4 DEF DeviceCallback, TypeOK
  <2>6. TypeOK'
    BY <2>1, <2>2, <2>5 DEF TypeOK, airVars, gatewayVars, Packet, HeapSize, Retries,
       MaxRounds
  <2> QED BY <2>1, <2>2, <2>6 DEF OnAir, HeapAccounted, airVars, gatewayVars
<1>3. CASE Restart(d)
  <2>1. /\ entry' = [entry EXCEPT ![d] = [i \in 0..1 |-> Empty]]
        /\ writeEntry' = [writeEntry EXCEPT ![d] = 0]
        /\ readEntry' = [readEntry EXCEPT ![d] = 0]
        /\ events' = [events EXCEPT ![d] = 0]
        /\ listening' = [listening EXCEPT ![d] = FALSE]
        /\ hears' = [hears EXCEPT ![d] = Nobody]
        /\ restarts[d] < world.restarts /\ restarts' = [restarts EXCEPT ![d] = @ + 1]
        /\ pin' = [pin EXCEPT ![d] = 0] /\ level' = [level EXCEPT ![d] = 0]
        /\ announce' = [announce EXCEPT ![d] = TRUE]
        /\ UNCHANGED <<world, asked, air, gatewayVars, node>>
    BY <1>3 DEF Restart
  <2>2. /\ entry' \in [Receiver -> [0..1 -> Packet]]
        /\ writeEntry' \in [Receiver -> 0..1] /\ readEntry' \in [Receiver -> 0..1]
        /\ events' \in [Receiver -> 0..2] /\ listening' \in [Receiver -> BOOLEAN]
        /\ hears' \in [Receiver -> Radio \cup {Nobody}]
    BY <1>1, <2>1, Kinds DEF TypeOK
  <2>3. /\ pin' \in [Device -> {0, 1}] /\ level' \in [Device -> Nat]
        /\ announce' \in [Device -> BOOLEAN]
        /\ restarts' \in [Device -> 0..world.restarts]
    <3>1. restarts[d] \in 0..world.restarts /\ world.restarts \in Nat
      BY ConstantWorld DEF TypeOK
    <3>2. restarts[d] + 1 \in 0..world.restarts BY <2>1, <3>1
    <3> QED BY <2>1, <3>2 DEF TypeOK
  <2>4. RingShape'
    <3>1. ASSUME NEW r \in Receiver PROVE RingShape!(r)'
      BY <1>1, <2>1 DEF RingShape, TypeOK
    <3> QED BY <3>1 DEF RingShape
  <2>5. TypeOK'
    BY <2>1, <2>2, <2>3 DEF TypeOK, gatewayVars, Packet, HeapSize, Retries, MaxRounds
  <2> QED BY <2>1, <2>4, <2>5 DEF OnAir, HeapAccounted, gatewayVars
<1> QED BY <1>2, <1>3

LEMMA NodeMovesKeep ==
  ASSUME IInv, NEW n \in Sensor,
         \/ NoLightSensor(n) \/ MeasureLight(n) \/ MeasureClimate(n)
         \/ SenseIdle(n) \/ SenseBusy(n) \/ CountBranch(n)
  PROVE  IInv'
<1> USE DEF IInv, Types
<1>1. /\ node' \in [Sensor -> NodeState]
      /\ UNCHANGED <<world, asked, airVars, ringVars, gatewayVars, deviceVars>>
  BY NodeMoves
<1>2. TypeOK'
  BY <1>1 DEF TypeOK, airVars, ringVars, gatewayVars, deviceVars, Packet, HeapSize,
     Retries, MaxRounds, NodeState, Stage
<1> QED BY <1>1, <1>2 DEF OnAir, RingShape, HeapAccounted, airVars, ringVars, gatewayVars
-------------------------------------------------------------------------------
LEMMA InitIInv == Init => IInv
<1> SUFFICES ASSUME Init PROVE IInv OBVIOUS
<1>0. Init BY DEF Init
<1>1. /\ world \in Worlds /\ HeapSize \in Nat \ {0} /\ Retries \in Nat \ {0}
      /\ MaxRounds \in Nat \ {0} /\ world.changes \in [Device -> Nat] /\ world.restarts \in Nat
  BY WorldAssumption DEF Init, Worlds, HeapSize, Retries, MaxRounds
<1>2. asked = [d \in Device |-> <<0>>] /\ <<0>> \in Seq({0, 1}) /\ Len(<<0>>) = 1
  BY DEF Init
<1>3. \A d \in Device : Len(asked[d]) \in 1..(world.changes[d] + 1)
  BY <1>1, <1>2
<1>4. <<>> \in Seq(CommandPacket) /\ <<>> \in Seq(Packet) /\ Len(<<>>) = 0
  BY EmptySeq
<1>5. Gateway \in Receiver /\ Receiver \subseteq Radio BY DEF Receiver, Radio
<1>6. DOMAIN air = {}
  <2>1. air = <<>> BY DEF Init
  <2>2. Len(air) = 0 /\ air \in Seq({}) BY <2>1, EmptySeq
  <2>3. DOMAIN air = 1..0 BY <2>2, LenProperties
  <2> QED BY <2>3
<1>7. node \in [Sensor -> NodeState]
  <2>1. Retries \in 0..Retries /\ 1 \in 0..MaxRounds /\ 0 \in 0..MaxRounds
    BY <1>1
  <2> QED BY <2>1 DEF Init, NodeState, Stage
<1>8. TypeOK
  <2>1. /\ hears \in [Receiver -> Radio \cup {Nobody}]
        /\ listening \in [Receiver -> BOOLEAN]
        /\ entry \in [Receiver -> [0..1 -> Packet]]
        /\ writeEntry \in [Receiver -> 0..1] /\ readEntry \in [Receiver -> 0..1]
        /\ events \in [Receiver -> 0..2]
    BY Kinds DEF Init
  <2>2. /\ world \in World /\ rfTxQueue \in Seq(Packet) /\ spiQueue \in Seq(Packet)
        /\ txTask \in Packet /\ heap \in 0..HeapSize /\ faulted \in BOOLEAN
        /\ sent \in BOOLEAN /\ wedged \in BOOLEAN
    <3>1. /\ world \in World /\ rfTxQueue = <<>> /\ spiQueue = <<>>
          /\ txTask = Empty /\ heap = 0 /\ faulted = FALSE
          /\ sent = FALSE /\ wedged = FALSE
      BY DEF Init
    <3>2. heap \in 0..HeapSize BY <1>1, <3>1
    <3> QED BY <1>4, <3>1, <3>2, Kinds
  <2>3. /\ pin \in [Device -> {0, 1}] /\ level \in [Device -> Nat]
        /\ announce \in [Device -> BOOLEAN] /\ restarts \in [Device -> 0..world.restarts]
    BY <1>1 DEF Init
  <2>4. \A d \in Device : asked[d] \in Seq({0, 1}) BY <1>2
  <2> QED BY <1>3, <1>6, <1>7, <2>1, <2>2, <2>3, <2>4 DEF TypeOK, NodeState, Stage
<1>9. RingShape BY DEF Init, RingShape
<1>10. HeapAccounted BY <1>4 DEF Init, HeapAccounted
<1> QED BY <1>2, <1>4, <1>6, <1>8, <1>9, <1>10 DEF Init, IInv, Types, OnAir

LEMMA StepIInv == IInv /\ [Next]_vars => IInv'
<1> SUFFICES ASSUME IInv, [Next]_vars PROVE IInv' OBVIOUS
<1>1. CASE UNCHANGED vars
  BY <1>1 DEF vars, airVars, ringVars, gatewayVars, deviceVars, IInv, Types, TypeOK,
     OnAir, RingShape, HeapAccounted, Packet, HeapSize, Retries, MaxRounds
<1>2. CASE GatewayStep
  BY <1>2, QueueStep, SendStep, GatewayCallbackStep, SentStep DEF GatewayStep
<1>3. ASSUME NEW d \in Device, Want(d) \/ QueueCommand(d) PROVE IInv'
  BY <1>3, WantStep, QueueStep
<1>4. ASSUME NEW d \in Device, DeviceStep(d) \/ Restart(d) PROVE IInv'
  BY <1>4, DeviceStepKeeps, SendStep, SentStep DEF DeviceStep
<1>5. ASSUME NEW n \in Sensor, NodeStep(n) \/ NoLightSensor(n) PROVE IInv'
  <2>1. CASE Send(n)
    <3>1. \E m \in Sensor : Send(m) BY <2>1
    <3> QED BY <3>1, SendStep
  <2>2. ASSUME NEW got \in SUBSET Receiver, Sent(n, got) PROVE IInv'
    BY <2>2, SentStep
  <2>3. CASE \/ NoLightSensor(n) \/ MeasureLight(n) \/ MeasureClimate(n)
             \/ SenseIdle(n) \/ SenseBusy(n) \/ CountBranch(n)
    BY <2>3, NodeMovesKeep
  <2> QED BY <1>5, <2>1, <2>2, <2>3 DEF NodeStep
<1>6. world.commanded \subseteq Device
  BY WorldAssumption DEF IInv, Types, TypeOK, Worlds
<1> QED BY <1>1, <1>2, <1>3, <1>4, <1>5, <1>6 DEF Next
-------------------------------------------------------------------------------
THEOREM IInvHolds == Spec => []IInv
BY InitIInv, StepIInv, PTL DEF Spec

THEOREM TypesHold == Spec => []TypeOK
<1>1. IInv => TypeOK BY DEF IInv, Types
<1> QED BY IInvHolds, <1>1, PTL

(* Ring, callback and heap stay in step.                                   *)
THEOREM RingsAndHeapHold == Spec => []BuffersInStep
<1>1. IInv => BuffersInStep
  <2> SUFFICES ASSUME IInv, NEW r \in Receiver PROVE RingInStep!(r)
    BY DEF BuffersInStep, RingInStep, IInv
  <2> DEFINE Taken == {i \in 0..1 : entry[r][i] # Empty}
  <2>1. readEntry[r] \in {0, 1} /\ RingShape!(r)
    BY DEF IInv, Types, TypeOK, RingShape
  <2>2. \/ events[r] = 0 /\ Taken = {}
        \/ events[r] = 1 /\ Taken = {readEntry[r]}
        \/ events[r] = 2 /\ Taken = {0, 1}
    BY <2>1
  <2>3. Cardinality({}) = 0 BY FS_EmptySet
  <2>4. Cardinality({readEntry[r]}) = 1 BY FS_Singleton
  <2>5. Cardinality({0, 1}) = 2
    <3>1. IsFiniteSet({0}) /\ Cardinality({0}) = 1 BY FS_Singleton
    <3>2. Cardinality({0} \cup {1}) = Cardinality({0}) + 1 BY <3>1, FS_AddElement
    <3>3. {0, 1} = {0} \cup {1} OBVIOUS
    <3> QED BY <3>1, <3>2, <3>3
  <2>6. events[r] = Cardinality(Taken)
    <3> HIDE DEF Taken
    <3> QED BY <2>2, <2>3, <2>4, <2>5
  <2>7. (readEntry[r] + events[r]) % 2 = writeEntry[r] BY <2>1
  <2>8. events[r] > 0 => entry[r][readEntry[r]] # Empty BY <2>1
  <2> QED BY <2>6, <2>7, <2>8
<1> QED BY IInvHolds, <1>1, PTL
-------------------------------------------------------------------------------
(* The way of a command.                                                   *)

Wanted(c) == c.kind = "command" =>
               c.num \in 1..Len(asked[c.dev]) /\ c.pin = asked[c.dev][c.num]

NotAfter(b, c) == b.kind = "command" /\ c.kind = "command" /\ b.dev = c.dev =>
                    b.num <= c.num

Passed(d, c) == c.kind = "command" /\ c.dev = d => level[d] <= c.num

InLine ==
  /\ \A i \in 1..Len(rfTxQueue) :
       /\ Wanted(rfTxQueue[i]) /\ NotAfter(txTask, rfTxQueue[i])
       /\ \A j \in i..Len(rfTxQueue) : NotAfter(rfTxQueue[i], rfTxQueue[j])
  /\ Wanted(txTask)
  /\ \A d \in Device :
       /\ level[d] <= Len(asked[d]) /\ Passed(d, txTask)
       /\ \A i \in 0..1 :
            /\ Wanted(entry[d][i]) /\ Passed(d, entry[d][i])
            /\ NotAfter(entry[d][i], txTask)
            /\ \A j \in 1..Len(rfTxQueue) : NotAfter(entry[d][i], rfTxQueue[j])
       /\ \A j \in 1..Len(rfTxQueue) : Passed(d, rfTxQueue[j])
       /\ NotAfter(entry[d][readEntry[d]], entry[d][1 - readEntry[d]])

LEMMA OrderTypes ==
  ASSUME IInv
  PROVE  /\ asked \in [Device -> Seq({0, 1})] /\ level \in [Device -> Nat]
         /\ rfTxQueue \in Seq(CommandPacket) /\ txTask \in Packet
         /\ Len(rfTxQueue) \in Nat
         /\ \A i \in 1..Len(rfTxQueue) : rfTxQueue[i] \in CommandPacket
         /\ \A d \in Device : /\ asked[d] \in Seq({0, 1}) /\ Len(asked[d]) \in Nat \ {0}
                              /\ entry[d] \in [0..1 -> Packet] /\ readEntry[d] \in {0, 1}
         /\ \A p \in Packet : p.kind = "command" => p \in CommandPacket
         /\ \A c \in CommandPacket : c.dev \in Device /\ c.num \in Nat
                                     /\ c.kind = "command"
         /\ Device \subseteq Receiver
<1>1. /\ TypeOK /\ asked \in [Device -> Seq({0, 1})] /\ rfTxQueue \in Seq(CommandPacket)
  BY DEF IInv, Types
<1>2. \A p \in Packet : p.kind = "command" => p \in CommandPacket
  BY DEF Packet, CommandPacket, Empty
<1>3. \A d \in Device : Len(asked[d]) \in Nat \ {0} BY <1>1, ConstantWorld DEF TypeOK
<1>4. Device \subseteq Receiver BY DEF Receiver
<1>5. entry \in [Receiver -> [0..1 -> Packet]] /\ readEntry \in [Receiver -> 0..1]
  BY <1>1 DEF TypeOK
<1>6. \A d \in Device : entry[d] \in [0..1 -> Packet] /\ readEntry[d] \in {0, 1}
  BY <1>4, <1>5
<1>7. Len(rfTxQueue) \in Nat /\ \A i \in 1..Len(rfTxQueue) : rfTxQueue[i] \in CommandPacket
  BY <1>1, LenProperties
<1> QED BY <1>1, <1>2, <1>3, <1>4, <1>6, <1>7 DEF TypeOK, CommandPacket

LEMMA NothingMoves ==
  ASSUME InLine, UNCHANGED <<asked, rfTxQueue, txTask, level>>,
         \A d \in Device : entry'[d] = entry[d] /\ readEntry'[d] = readEntry[d]
  PROVE  InLine'
<1>1. /\ \A i \in 1..Len(rfTxQueue') :
          /\ Wanted(rfTxQueue[i])' /\ NotAfter(txTask, rfTxQueue[i])'
          /\ \A j \in i..Len(rfTxQueue') : NotAfter(rfTxQueue[i], rfTxQueue[j])'
      /\ Wanted(txTask)'
  BY DEF InLine, Wanted, NotAfter
<1>2. ASSUME NEW d \in Device
      PROVE  /\ level'[d] <= Len(asked'[d]) /\ Passed(d, txTask)'
             /\ \A j \in 1..Len(rfTxQueue') : Passed(d, rfTxQueue[j])'
             /\ NotAfter(entry[d][readEntry[d]], entry[d][1 - readEntry[d]])'
             /\ \A i \in 0..1 :
                  /\ Wanted(entry[d][i])' /\ Passed(d, entry[d][i])'
                  /\ NotAfter(entry[d][i], txTask)'
                  /\ \A j \in 1..Len(rfTxQueue') : NotAfter(entry[d][i], rfTxQueue[j])'
  <2>1. entry'[d] = entry[d] /\ readEntry'[d] = readEntry[d] OBVIOUS
  <2>2. /\ level[d] <= Len(asked[d]) /\ Passed(d, txTask)
        /\ \A j \in 1..Len(rfTxQueue) : Passed(d, rfTxQueue[j])
        /\ NotAfter(entry[d][readEntry[d]], entry[d][1 - readEntry[d]])
    BY DEF InLine
  <2>3. \A i \in 0..1 :
          /\ Wanted(entry[d][i]) /\ Passed(d, entry[d][i])
          /\ NotAfter(entry[d][i], txTask)
          /\ \A j \in 1..Len(rfTxQueue) : NotAfter(entry[d][i], rfTxQueue[j])
    BY DEF InLine
  <2> QED BY <2>1, <2>2, <2>3 DEF Wanted, NotAfter, Passed
<1> QED BY <1>1, <1>2 DEF InLine

LEMMA WantInLine ==
  ASSUME IInv, InLine, NEW d \in Device, Want(d)
  PROVE  InLine'
<1> DEFINE new == 1 - asked[d][Len(asked[d])]
<1>1. /\ asked' = [asked EXCEPT ![d] = Append(asked[d], new)]
      /\ UNCHANGED <<rfTxQueue, txTask, level, entry, readEntry>>
  BY DEF Want, ringVars, gatewayVars, deviceVars
<1> HIDE DEF new
<1>2. \A e \in Device : /\ Len(asked'[e]) \in Nat /\ Len(asked[e]) <= Len(asked'[e])
                        /\ \A n \in 1..Len(asked[e]) : asked'[e][n] = asked[e][n]
  <2>1. asked[d] \in Seq({0, 1}) /\ asked[d] \in Seq({0, 1, new}) /\ new \in {0, 1, new}
    BY OrderTypes
  <2>2. /\ Len(Append(asked[d], new)) = Len(asked[d]) + 1
        /\ \A n \in 1..Len(asked[d]) : Append(asked[d], new)[n] = asked[d][n]
    BY <2>1, AppendProperties
  <2>3. asked \in [Device -> Seq({0, 1})] /\ \A e \in Device : Len(asked[e]) \in Nat
    BY OrderTypes
  <2> QED BY <1>1, <2>2, <2>3
<1>3. ASSUME NEW c \in Packet, Wanted(c) PROVE Wanted(c)'
  <2>1. c.kind = "command" => c.dev \in Device BY OrderTypes
  <2>2. \A e \in Device : Len(asked[e]) \in Nat BY OrderTypes
  <2> QED BY <1>2, <1>3, <2>1, <2>2 DEF Wanted
<1>4. /\ \A i \in 1..Len(rfTxQueue) : rfTxQueue[i] \in Packet
      /\ txTask \in Packet
      /\ \A e \in Device, i \in 0..1 : entry[e][i] \in Packet
      /\ level \in [Device -> Nat] /\ \A e \in Device : Len(asked[e]) \in Nat
  BY OrderTypes, Kinds
<1>5. \A i \in 1..Len(rfTxQueue') : Wanted(rfTxQueue[i])' BY <1>1, <1>3, <1>4 DEF InLine
<1>6. Wanted(txTask)' BY <1>1, <1>3, <1>4 DEF InLine
<1>7. \A e \in Device : \A i \in 0..1 : Wanted(entry[e][i])' BY <1>1, <1>3, <1>4 DEF InLine
<1>8. \A e \in Device : level'[e] <= Len(asked'[e]) BY <1>1, <1>2, <1>4 DEF InLine
<1> QED BY <1>1, <1>5, <1>6, <1>7, <1>8 DEF InLine, NotAfter, Passed

LEMMA QueueInLine ==
  ASSUME IInv, InLine, NEW d \in Device, QueueCommand(d)
  PROVE  InLine'
<1> DEFINE c == Command(d)
           n == Len(rfTxQueue)
<1>1. /\ rfTxQueue' = Append(rfTxQueue, c)
      /\ UNCHANGED <<asked, txTask, level, entry, readEntry>>
  BY DEF QueueCommand, airVars, ringVars, deviceVars
<1>2. c \in CommandPacket /\ c.dev = d /\ c.num = Len(asked[d]) /\ Wanted(c)
      /\ c.kind = "command"
  <2>1. asked[d] \in Seq({0, 1}) /\ Len(asked[d]) \in Nat \ {0} BY OrderTypes
  <2> QED BY <2>1 DEF Command, CommandPacket, Wanted
<1>3. ASSUME NEW b, Wanted(b) PROVE NotAfter(b, c)
  BY <1>2, <1>3, OrderTypes DEF Wanted, NotAfter
<1> HIDE DEF c
<1>4. /\ Len(rfTxQueue') = n + 1 /\ n \in Nat
      /\ \A i \in 1..n : rfTxQueue'[i] = rfTxQueue[i]
      /\ rfTxQueue'[n + 1] = c
  BY <1>1, <1>2, OrderTypes, AppendProperties
<1> HIDE DEF n
<1>5. ASSUME NEW i \in 1..Len(rfTxQueue')
      PROVE  /\ Wanted(rfTxQueue'[i]) /\ NotAfter(txTask, rfTxQueue'[i])
             /\ \A j \in i..Len(rfTxQueue') : NotAfter(rfTxQueue'[i], rfTxQueue'[j])
             /\ \A e \in Device : /\ Passed(e, rfTxQueue'[i])
                                  /\ \A k \in 0..1 : NotAfter(entry[e][k], rfTxQueue'[i])
  <2>1. CASE i = n + 1
    <3>1. rfTxQueue'[i] = c /\ \A j \in i..Len(rfTxQueue') : j = i BY <1>4, <2>1
    <3>2. \A e \in Device : Passed(e, c) BY <1>2 DEF InLine, Passed
    <3> QED BY <1>2, <1>3, <3>1, <3>2 DEF InLine
  <2>2. CASE i \in 1..n
    <3>1. rfTxQueue'[i] = rfTxQueue[i] BY <1>4, <2>2
    <3>2. Wanted(rfTxQueue[i]) BY <2>2 DEF InLine, n
    <3>3. ASSUME NEW j \in i..Len(rfTxQueue') PROVE NotAfter(rfTxQueue[i], rfTxQueue'[j])
      <4>1. CASE j = n + 1 BY <1>3, <1>4, <3>2, <4>1
      <4>2. CASE j \in i..n BY <1>4, <2>2, <4>2 DEF InLine, n
      <4> QED BY <1>4, <2>2, <4>1, <4>2
    <3> QED BY <2>2, <3>1, <3>2, <3>3 DEF InLine, n
  <2> QED BY <1>4, <2>1, <2>2
<1>6. ASSUME NEW i \in 1..Len(rfTxQueue')
      PROVE  /\ Wanted(rfTxQueue[i])' /\ NotAfter(txTask, rfTxQueue[i])'
             /\ \A j \in i..Len(rfTxQueue') : NotAfter(rfTxQueue[i], rfTxQueue[j])'
             /\ \A e \in Device : /\ Passed(e, rfTxQueue[i])'
                                  /\ \A k \in 0..1 : NotAfter(entry[e][k], rfTxQueue[i])'
  <2>1. /\ Wanted(rfTxQueue'[i]) /\ NotAfter(txTask, rfTxQueue'[i])
        /\ \A j \in i..Len(rfTxQueue') : NotAfter(rfTxQueue'[i], rfTxQueue'[j])
        /\ \A e \in Device : /\ Passed(e, rfTxQueue'[i])
                             /\ \A k \in 0..1 : NotAfter(entry[e][k], rfTxQueue'[i])
    BY <1>5
  <2>2. Wanted(rfTxQueue[i])' BY <1>1, <2>1 DEF Wanted
  <2>3. \A e \in Device : Passed(e, rfTxQueue[i])' BY <1>1, <2>1 DEF Passed
  <2>4. \A e \in Device, k \in 0..1 : NotAfter(entry[e][k], rfTxQueue[i])'
    BY <1>1, <2>1 DEF NotAfter
  <2> QED BY <1>1, <2>1, <2>2, <2>3, <2>4 DEF NotAfter
<1>7. /\ Wanted(txTask)'
      /\ \A e \in Device :
           /\ level'[e] <= Len(asked'[e]) /\ Passed(e, txTask)'
           /\ \A i \in 0..1 : /\ Wanted(entry[e][i])' /\ Passed(e, entry[e][i])'
                              /\ NotAfter(entry[e][i], txTask)'
           /\ NotAfter(entry[e][readEntry[e]], entry[e][1 - readEntry[e]])'
  BY <1>1 DEF InLine, Wanted, NotAfter, Passed
<1> QED BY <1>6, <1>7 DEF InLine

LEMMA TakeInLine ==
  ASSUME IInv, InLine, TakeCommand
  PROVE  InLine'
<1> DEFINE n == Len(rfTxQueue)
<1>1. /\ txTask' = Head(rfTxQueue) /\ rfTxQueue' = Tail(rfTxQueue) /\ rfTxQueue # <<>>
      /\ UNCHANGED <<asked, level, entry, readEntry>>
  BY DEF TakeCommand, ringVars, deviceVars
<1>2. /\ n \in Nat /\ n > 0 /\ Len(rfTxQueue') = n - 1 /\ txTask' = rfTxQueue[1]
      /\ \A i \in 1..(n - 1) : rfTxQueue'[i] = rfTxQueue[i + 1]
  BY <1>1, OrderTypes, HeadTailProperties, EmptySeq
<1>3. \A i \in 1..(n - 1) : i + 1 \in 1..n BY <1>2
<1>4. /\ \A i \in 1..n : /\ Wanted(rfTxQueue[i])
                         /\ \A j \in i..n : NotAfter(rfTxQueue[i], rfTxQueue[j])
                         /\ \A d \in Device :
                              /\ Passed(d, rfTxQueue[i])
                              /\ \A k \in 0..1 : NotAfter(entry[d][k], rfTxQueue[i])
  BY DEF InLine
<1> HIDE DEF n
<1>5. ASSUME NEW i \in 1..(n - 1)
      PROVE  /\ Wanted(rfTxQueue'[i]) /\ NotAfter(txTask', rfTxQueue'[i])
             /\ \A j \in i..(n - 1) : NotAfter(rfTxQueue'[i], rfTxQueue'[j])
             /\ \A d \in Device : /\ Passed(d, rfTxQueue'[i])
                                  /\ \A k \in 0..1 : NotAfter(entry[d][k], rfTxQueue'[i])
  <2>1. \A j \in i..(n - 1) : /\ j \in 1..(n - 1) /\ j + 1 \in (i + 1)..n
                              /\ rfTxQueue'[j] = rfTxQueue[j + 1]
    BY <1>2
  <2>2. 1 \in 1..n /\ i + 1 \in 1..n BY <1>2
  <2> QED BY <1>2, <1>4, <2>1, <2>2
<1>6. /\ Wanted(txTask')
      /\ \A d \in Device : /\ Passed(d, txTask')
                           /\ \A k \in 0..1 : NotAfter(entry[d][k], txTask')
  BY <1>2, <1>4
<1>7. ASSUME NEW i \in 1..Len(rfTxQueue')
      PROVE  /\ Wanted(rfTxQueue[i])' /\ NotAfter(txTask, rfTxQueue[i])'
             /\ \A j \in i..Len(rfTxQueue') : NotAfter(rfTxQueue[i], rfTxQueue[j])'
             /\ \A e \in Device : /\ Passed(e, rfTxQueue[i])'
                                  /\ \A k \in 0..1 : NotAfter(entry[e][k], rfTxQueue[i])'
  <2>1. /\ Wanted(rfTxQueue'[i]) /\ NotAfter(txTask', rfTxQueue'[i])
        /\ \A j \in i..Len(rfTxQueue') : NotAfter(rfTxQueue'[i], rfTxQueue'[j])
        /\ \A e \in Device : /\ Passed(e, rfTxQueue'[i])
                             /\ \A k \in 0..1 : NotAfter(entry[e][k], rfTxQueue'[i])
    BY <1>2, <1>5
  <2>2. Wanted(rfTxQueue[i])' BY <1>1, <2>1 DEF Wanted
  <2>3. \A e \in Device : Passed(e, rfTxQueue[i])' BY <1>1, <2>1 DEF Passed
  <2>4. \A e \in Device, k \in 0..1 : NotAfter(entry[e][k], rfTxQueue[i])'
    BY <1>1, <2>1 DEF NotAfter
  <2> QED BY <1>1, <2>1, <2>2, <2>3, <2>4 DEF NotAfter
<1>8. /\ Wanted(txTask)'
      /\ \A e \in Device :
           /\ level'[e] <= Len(asked'[e]) /\ Passed(e, txTask)'
           /\ \A i \in 0..1 : /\ Wanted(entry[e][i])' /\ Passed(e, entry[e][i])'
                              /\ NotAfter(entry[e][i], txTask)'
           /\ NotAfter(entry[e][readEntry[e]], entry[e][1 - readEntry[e]])'
  BY <1>1, <1>6 DEF InLine, Wanted, NotAfter, Passed
<1> QED BY <1>7, <1>8 DEF InLine

LEMMA ReturnInLine ==
  ASSUME InLine, Return
  PROVE  InLine'
<1>1. /\ txTask' = Empty /\ Empty.kind # "command"
      /\ UNCHANGED <<asked, rfTxQueue, level, entry, readEntry>>
  BY Kinds DEF Return, ringVars, deviceVars
<1>2. /\ \A i \in 1..Len(rfTxQueue') :
          /\ Wanted(rfTxQueue[i])' /\ NotAfter(txTask, rfTxQueue[i])'
          /\ \A j \in i..Len(rfTxQueue') : NotAfter(rfTxQueue[i], rfTxQueue[j])'
      /\ Wanted(txTask)'
  BY <1>1 DEF InLine, Wanted, NotAfter
<1>3. ASSUME NEW d \in Device
      PROVE  /\ level'[d] <= Len(asked'[d]) /\ Passed(d, txTask)'
             /\ \A j \in 1..Len(rfTxQueue') : Passed(d, rfTxQueue[j])'
             /\ NotAfter(entry[d][readEntry[d]], entry[d][1 - readEntry[d]])'
             /\ \A i \in 0..1 :
                  /\ Wanted(entry[d][i])' /\ Passed(d, entry[d][i])'
                  /\ NotAfter(entry[d][i], txTask)'
                  /\ \A j \in 1..Len(rfTxQueue') : NotAfter(entry[d][i], rfTxQueue[j])'
  BY <1>1 DEF InLine, Wanted, NotAfter, Passed
<1> QED BY <1>2, <1>3 DEF InLine

(* A packet ends: who took a command has the one of the transmit task.     *)
LEMMA SentInLine ==
  ASSUME IInv, InLine, NEW got \in SUBSET Receiver,
         \/ Transmitted(got)
         \/ \E d \in Device : Announced(d, got)
         \/ \E n \in Sensor : Sent(n, got)
  PROVE  InLine'
<1> DEFINE Ends(x) == /\ StopSending(x, got)
                      /\ UNCHANGED <<asked, rfTxQueue, txTask, level>>
<1>1. PICK x \in DOMAIN air : Ends(x)
  <2>1. CASE Transmitted(got) BY <2>1 DEF Transmitted, deviceVars
  <2>2. ASSUME NEW d \in Device, Announced(d, got)
        PROVE  \E x \in DOMAIN air : Ends(x)
    <3>1. d # Gateway BY RadioAssumption
    <3> QED BY <2>2, <3>1 DEF Announced, gatewayVars, deviceVars
  <2>3. ASSUME NEW n \in Sensor, Sent(n, got)
        PROVE  \E x \in DOMAIN air : Ends(x)
    <3>1. n # Gateway BY RadioAssumption
    <3> QED BY <2>3, <3>1 DEF Sent, Node, gatewayVars, deviceVars
  <2> QED BY <2>1, <2>2, <2>3
<1> DEFINE p == air[x]
<1>2. IF x = Gateway THEN p = txTask ELSE p.kind # "command"
  BY DEF IInv, OnAir
<1>3. readEntry' = readEntry /\ UNCHANGED <<asked, rfTxQueue, level>>
  BY <1>1 DEF StopSending
<1>4. Empty.kind # "command" BY Kinds
<1> HIDE DEF p
<1>5. /\ \A i \in 1..Len(rfTxQueue') :
          /\ Wanted(rfTxQueue[i])' /\ NotAfter(txTask, rfTxQueue[i])'
          /\ \A j \in i..Len(rfTxQueue') : NotAfter(rfTxQueue[i], rfTxQueue[j])'
      /\ Wanted(txTask)'
  BY <1>1, <1>4 DEF InLine, Wanted, NotAfter
<1>6. ASSUME NEW d \in Device
      PROVE  /\ level'[d] <= Len(asked'[d]) /\ Passed(d, txTask)'
             /\ \A j \in 1..Len(rfTxQueue') : Passed(d, rfTxQueue[j])'
             /\ NotAfter(entry[d][readEntry[d]], entry[d][1 - readEntry[d]])'
             /\ \A i \in 0..1 :
                  /\ Wanted(entry[d][i])' /\ Passed(d, entry[d][i])'
                  /\ NotAfter(entry[d][i], txTask)'
                  /\ \A j \in 1..Len(rfTxQueue') : NotAfter(entry[d][i], rfTxQueue[j])'
  <2>1. /\ level[d] <= Len(asked[d]) /\ Passed(d, txTask)
        /\ \A j \in 1..Len(rfTxQueue) : Passed(d, rfTxQueue[j]) /\ NotAfter(txTask, rfTxQueue[j])
        /\ NotAfter(entry[d][readEntry[d]], entry[d][1 - readEntry[d]])
        /\ Wanted(txTask)
    BY DEF InLine
  <2>2. \A i \in 0..1 :
          /\ Wanted(entry[d][i]) /\ Passed(d, entry[d][i])
          /\ NotAfter(entry[d][i], txTask)
          /\ \A j \in 1..Len(rfTxQueue) : NotAfter(entry[d][i], rfTxQueue[j])
    BY DEF InLine
  <2>3. /\ Wanted(p) /\ Passed(d, p)
        /\ \A i \in 0..1 : NotAfter(entry[d][i], p)
        /\ \A j \in 1..Len(rfTxQueue) : NotAfter(p, rfTxQueue[j])
        /\ NotAfter(p, txTask')
    <3>1. txTask.kind = "command" => txTask.num \in Nat BY OrderTypes
    <3> QED BY <1>1, <1>2, <2>1, <2>2, <3>1 DEF Wanted, Passed, NotAfter
  <2>4. \A i \in 0..1 : NotAfter(entry[d][i], txTask')
    BY <1>1, <2>2
  <2>5. d \in Receiver /\ entry[d] \in [0..1 -> Packet] /\ readEntry[d] \in {0, 1}
    BY OrderTypes
  <2>6. /\ writeEntry[d] \in {0, 1}
        /\ entry[d][writeEntry[d]] = Empty =>
             entry[d][readEntry[d]] = Empty \/ writeEntry[d] = 1 - readEntry[d]
    BY <2>5 DEF IInv, Types, TypeOK, RingShape
  <2>7. entry' = [r \in Receiver |-> IF r \in got /\ entry[r][writeEntry[r]] = Empty
                    THEN [entry[r] EXCEPT ![writeEntry[r]] = p] ELSE entry[r]]
    BY <1>1 DEF StopSending, p
  <2>8. CASE d \in got /\ entry[d][writeEntry[d]] = Empty
    <3>1. /\ entry'[d][writeEntry[d]] = p
          /\ entry'[d][1 - writeEntry[d]] = entry[d][1 - writeEntry[d]]
      BY <2>5, <2>6, <2>7, <2>8
    <3>2. NotAfter(entry'[d][readEntry[d]], entry'[d][1 - readEntry[d]])
      <4>1. CASE writeEntry[d] = 1 - readEntry[d]
        <5>1. readEntry[d] = 1 - writeEntry[d] BY <2>5, <2>6, <4>1
        <5>2. /\ entry'[d][readEntry[d]] = entry[d][readEntry[d]]
              /\ entry'[d][1 - readEntry[d]] = p
          BY <3>1, <4>1, <5>1
        <5> QED BY <2>3, <2>5, <5>2
      <4>2. CASE writeEntry[d] = readEntry[d]
        <5>1. entry[d][1 - readEntry[d]] = Empty
          BY <2>5, <2>8, <4>2 DEF IInv, RingShape
        <5>2. entry'[d][1 - readEntry[d]] = Empty BY <3>1, <4>2, <5>1
        <5> QED BY <1>4, <5>2 DEF NotAfter
      <4> QED BY <2>5, <2>6, <4>1, <4>2
    <3>3. \A i \in 0..1 : entry'[d][i] = p \/ entry'[d][i] = entry[d][i]
      BY <2>5, <2>6, <3>1
    <3>4. ASSUME NEW i \in 0..1
          PROVE  /\ Wanted(entry[d][i])' /\ Passed(d, entry[d][i])'
                 /\ NotAfter(entry[d][i], txTask)'
                 /\ \A j \in 1..Len(rfTxQueue') : NotAfter(entry[d][i], rfTxQueue[j])'
      <4>1. CASE entry'[d][i] = p
        BY <1>3, <2>3, <4>1 DEF Wanted, Passed, NotAfter
      <4>2. CASE entry'[d][i] = entry[d][i]
        BY <1>3, <2>2, <2>4, <4>2 DEF Wanted, Passed, NotAfter
      <4> QED BY <3>3, <4>1, <4>2
    <3>5. /\ level'[d] <= Len(asked'[d]) /\ Passed(d, txTask)'
          /\ \A j \in 1..Len(rfTxQueue') : Passed(d, rfTxQueue[j])'
      BY <1>1, <1>3, <1>4, <2>1 DEF Passed
    <3>6. NotAfter(entry[d][readEntry[d]], entry[d][1 - readEntry[d]])'
      BY <1>3, <3>2 DEF NotAfter
    <3> QED BY <3>4, <3>5, <3>6
  <2>9. CASE ~(d \in got /\ entry[d][writeEntry[d]] = Empty)
    <3>1. entry'[d] = entry[d] BY <2>5, <2>7, <2>9
    <3> QED BY <1>1, <1>3, <1>4, <2>1, <2>2, <2>4, <3>1 DEF Wanted, Passed, NotAfter
  <2> QED BY <2>8, <2>9
<1> QED BY <1>5, <1>6 DEF InLine

(* A device obeys what it reads, or begins anew.                           *)
LEMMA DeviceInLine ==
  ASSUME IInv, InLine, NEW d \in Device, DeviceCallback(d) \/ Restart(d)
  PROVE  InLine'
<1>1. /\ UNCHANGED <<asked, rfTxQueue, txTask>>
      /\ \A e \in Device \ {d} : /\ entry'[e] = entry[e] /\ readEntry'[e] = readEntry[e]
                                 /\ level'[e] = level[e]
  <2>1. CASE DeviceCallback(d)
    BY <2>1, OrderTypes DEF DeviceCallback, NextEntry, gatewayVars, IInv, Types, TypeOK
  <2>2. CASE Restart(d)
    BY <2>2, OrderTypes DEF Restart, gatewayVars, IInv, Types, TypeOK
  <2> QED BY <2>1, <2>2
<1>2. /\ \A i \in 1..Len(rfTxQueue') :
          /\ Wanted(rfTxQueue[i])' /\ NotAfter(txTask, rfTxQueue[i])'
          /\ \A j \in i..Len(rfTxQueue') : NotAfter(rfTxQueue[i], rfTxQueue[j])'
      /\ Wanted(txTask)'
  BY <1>1 DEF InLine, Wanted, NotAfter
<1> DEFINE Fine(e) ==
      /\ level[e] <= Len(asked[e]) /\ Passed(e, txTask)
      /\ \A j \in 1..Len(rfTxQueue) : Passed(e, rfTxQueue[j])
      /\ NotAfter(entry[e][readEntry[e]], entry[e][1 - readEntry[e]])
      /\ \A i \in 0..1 : /\ Wanted(entry[e][i]) /\ Passed(e, entry[e][i])
                         /\ NotAfter(entry[e][i], txTask)
                         /\ \A j \in 1..Len(rfTxQueue) : NotAfter(entry[e][i], rfTxQueue[j])
<1>3. \A e \in Device : Fine(e) BY DEF InLine
<1>4. ASSUME NEW e \in Device \ {d} PROVE Fine(e)'
  <2>1. /\ entry'[e] = entry[e] /\ readEntry'[e] = readEntry[e] /\ level'[e] = level[e]
        /\ asked' = asked /\ rfTxQueue' = rfTxQueue /\ txTask' = txTask
    BY <1>1
  <2>2. Fine(e) BY <1>3
  <2>3. /\ level'[e] <= Len(asked'[e]) /\ Passed(e, txTask)'
        /\ \A j \in 1..Len(rfTxQueue') : Passed(e, rfTxQueue[j])'
        /\ NotAfter(entry[e][readEntry[e]], entry[e][1 - readEntry[e]])'
    BY <2>1, <2>2 DEF Passed, NotAfter
  <2>4. ASSUME NEW i \in 0..1
        PROVE  /\ Wanted(entry[e][i])' /\ Passed(e, entry[e][i])'
               /\ NotAfter(entry[e][i], txTask)'
               /\ \A j \in 1..Len(rfTxQueue') : NotAfter(entry[e][i], rfTxQueue[j])'
    <3>1. /\ Wanted(entry[e][i]) /\ Passed(e, entry[e][i])
          /\ NotAfter(entry[e][i], txTask)
          /\ \A j \in 1..Len(rfTxQueue) : NotAfter(entry[e][i], rfTxQueue[j])
      BY <2>2
    <3> QED BY <2>1, <3>1 DEF Wanted, Passed, NotAfter
  <2> QED BY <2>3, <2>4
<1>5. Fine(d)'
  <2>0. /\ entry[d] \in [0..1 -> Packet] /\ readEntry[d] \in {0, 1} /\ d \in Receiver
        /\ entry \in [Receiver -> [0..1 -> Packet]] /\ readEntry \in [Receiver -> 0..1]
        /\ level \in [Device -> Nat] /\ Len(asked[d]) \in Nat
        /\ Empty.kind # "command"
    BY OrderTypes, Kinds DEF IInv, Types, TypeOK
  <2>1. CASE DeviceCallback(d)
    <3> DEFINE p == entry[d][readEntry[d]]
               q == entry[d][1 - readEntry[d]]
    <3>1. /\ entry'[d][readEntry[d]] = Empty /\ entry'[d][1 - readEntry[d]] = q
          /\ readEntry'[d] = 1 - readEntry[d]
          /\ \A i \in 0..1 : i = readEntry[d] \/ i = 1 - readEntry[d]
      BY <2>0, <2>1 DEF DeviceCallback, NextEntry
    <3>2. level'[d] = IF p.kind = "command" /\ p.dev = d THEN p.num ELSE level[d]
      BY <2>0, <2>1 DEF DeviceCallback
    <3>3. /\ Wanted(p) /\ NotAfter(p, q) /\ NotAfter(p, txTask)
          /\ \A j \in 1..Len(rfTxQueue) : NotAfter(p, rfTxQueue[j])
          /\ Wanted(q) /\ NotAfter(q, txTask)
          /\ \A j \in 1..Len(rfTxQueue) : NotAfter(q, rfTxQueue[j])
          /\ Passed(d, q) /\ Passed(d, txTask)
          /\ \A j \in 1..Len(rfTxQueue) : Passed(d, rfTxQueue[j])
          /\ level[d] <= Len(asked[d])
      BY <1>3, <3>1, <2>0
    <3> HIDE DEF p, q
    <3>4. level'[d] <= Len(asked'[d]) BY <1>1, <2>0, <3>2, <3>3 DEF Wanted
    <3>5. \A c \in {q, txTask} \cup {rfTxQueue[j] : j \in 1..Len(rfTxQueue)} :
            Passed(d, c)'
      <4>1. \A c \in {q, txTask} \cup {rfTxQueue[j] : j \in 1..Len(rfTxQueue)} :
              Passed(d, c) /\ NotAfter(p, c)
        BY <3>3
      <4> QED BY <3>2, <4>1 DEF Passed, NotAfter
    <3>6. \A i \in 0..1 : entry'[d][i] = Empty \/ entry'[d][i] = q BY <3>1
    <3>7. /\ Passed(d, txTask)'
          /\ \A j \in 1..Len(rfTxQueue') : Passed(d, rfTxQueue[j])'
      BY <1>1, <3>5 DEF Passed
    <3>8. NotAfter(entry[d][readEntry[d]], entry[d][1 - readEntry[d]])'
      <4>1. 1 - readEntry'[d] = readEntry[d] BY <2>0, <3>1
      <4> QED BY <2>0, <3>1, <4>1 DEF NotAfter
    <3>9. ASSUME NEW i \in 0..1
          PROVE  /\ Wanted(entry[d][i])' /\ Passed(d, entry[d][i])'
                 /\ NotAfter(entry[d][i], txTask)'
                 /\ \A j \in 1..Len(rfTxQueue') : NotAfter(entry[d][i], rfTxQueue[j])'
      <4>1. CASE entry'[d][i] = Empty
        BY <2>0, <4>1 DEF Wanted, Passed, NotAfter
      <4>2. CASE entry'[d][i] = q
        BY <1>1, <3>3, <3>5, <4>2 DEF Wanted, Passed, NotAfter
      <4> QED BY <3>6, <4>1, <4>2
    <3> QED BY <3>4, <3>7, <3>8, <3>9
  <2>2. CASE Restart(d)
    <3>1. /\ level'[d] = 0 /\ readEntry'[d] = 0
          /\ \A i \in 0..1 : entry'[d][i] = Empty
      BY <2>0, <2>2 DEF Restart
    <3>2. \A i \in 1..Len(rfTxQueue) : rfTxQueue[i].num \in Nat BY OrderTypes
    <3>3. txTask.kind = "command" => txTask.num \in Nat BY OrderTypes
    <3> QED BY <1>1, <2>0, <3>1, <3>2, <3>3 DEF Wanted, NotAfter, Passed
  <2> QED BY <2>1, <2>2
<1>6. \A e \in Device : Fine(e)' BY <1>4, <1>5
<1> QED BY <1>2, <1>6 DEF InLine

LEMMA InitInLine == Init => InLine
<1> SUFFICES ASSUME Init PROVE InLine OBVIOUS
<1>1. /\ rfTxQueue = <<>> /\ txTask = Empty /\ level = [d \in Device |-> 0]
      /\ entry = [r \in Receiver |-> [i \in 0..1 |-> Empty]]
      /\ readEntry = [r \in Receiver |-> 0] /\ asked = [d \in Device |-> <<0>>]
  BY DEF Init
<1>2. 1..Len(rfTxQueue) = {} BY <1>1
<1>3. Device \subseteq Receiver BY DEF Receiver
<1>4. \A d \in Device : /\ \A i \in 0..1 : entry[d][i] = Empty
                        /\ readEntry[d] = 0 /\ level[d] = 0 /\ Len(asked[d]) = 1
  BY <1>1, <1>3
<1>5. Empty.kind # "command" BY Kinds
<1>6. ASSUME NEW d \in Device, NEW i \in 0..1
      PROVE  /\ Wanted(entry[d][i]) /\ Passed(d, entry[d][i])
             /\ NotAfter(entry[d][i], txTask)
             /\ NotAfter(entry[d][readEntry[d]], entry[d][1 - readEntry[d]])
  BY <1>4, <1>5 DEF Wanted, NotAfter, Passed
<1>7. Wanted(txTask) /\ \A d \in Device : Passed(d, txTask)
  BY <1>1, <1>5 DEF Wanted, Passed
<1> QED BY <1>2, <1>4, <1>6, <1>7 DEF InLine

LEMMA StepInLine == IInv /\ InLine /\ [Next]_vars => InLine'
<1> SUFFICES ASSUME IInv, InLine, [Next]_vars PROVE InLine' OBVIOUS
<1>1. CASE UNCHANGED vars
  BY <1>1, NothingMoves DEF vars, ringVars, gatewayVars, deviceVars
<1>2. CASE GatewayStep
  <2>1. CASE TakeCommand BY <2>1, TakeInLine
  <2>2. CASE Transmit
    BY <2>2, NothingMoves DEF Transmit, ringVars, gatewayVars, deviceVars
  <2>3. CASE GatewayCallback
    <3>1. \A d \in Device : d \in Receiver /\ d # Gateway
      BY RadioAssumption DEF Receiver
    <3>2. \A d \in Device : entry'[d] = entry[d] /\ readEntry'[d] = readEntry[d]
      BY <2>3, <3>1 DEF GatewayCallback, NextEntry, IInv, Types, TypeOK
    <3> QED BY <2>3, <3>2, NothingMoves DEF GatewayCallback, deviceVars
  <2>4. CASE SendUp BY <2>4, NothingMoves DEF SendUp, ringVars, deviceVars
  <2>5. ASSUME NEW got \in SUBSET Receiver, Transmitted(got) PROVE InLine'
    BY <2>5, SentInLine
  <2>6. CASE Wedge BY <2>6, NothingMoves DEF Wedge, ringVars, deviceVars
  <2>7. CASE Return BY <2>7, ReturnInLine
  <2> QED BY <1>2, <2>1, <2>2, <2>3, <2>4, <2>5, <2>6, <2>7 DEF GatewayStep
<1>3. ASSUME NEW d \in Device, Want(d) \/ QueueCommand(d) PROVE InLine'
  BY <1>3, WantInLine, QueueInLine
<1>4. ASSUME NEW d \in Device, DeviceStep(d) \/ Restart(d) PROVE InLine'
  <2>1. CASE DeviceCallback(d) \/ Restart(d) BY <2>1, DeviceInLine
  <2>2. CASE Announce(d)
    BY <2>2, NothingMoves DEF Announce, ringVars, gatewayVars
  <2>3. ASSUME NEW got \in SUBSET Receiver, Announced(d, got) PROVE InLine'
    BY <2>3, SentInLine
  <2> QED BY <1>4, <2>1, <2>2, <2>3 DEF DeviceStep
<1>5. ASSUME NEW n \in Sensor, NodeStep(n) \/ NoLightSensor(n) PROVE InLine'
  <2>1. CASE Send(n) BY <2>1, NothingMoves DEF Send, ringVars, gatewayVars, deviceVars
  <2>2. ASSUME NEW got \in SUBSET Receiver, Sent(n, got) PROVE InLine'
    BY <2>2, SentInLine
  <2>3. CASE \/ NoLightSensor(n) \/ MeasureLight(n) \/ MeasureClimate(n)
             \/ SenseIdle(n) \/ SenseBusy(n) \/ CountBranch(n)
    BY <2>3, NothingMoves
    DEF NoLightSensor, MeasureLight, MeasureClimate, SenseIdle, SenseBusy, CountBranch,
        Node, ringVars, gatewayVars, deviceVars
  <2> QED BY <1>5, <2>1, <2>2, <2>3 DEF NodeStep
<1>6. world.commanded \subseteq Device
  BY WorldAssumption DEF IInv, Types, TypeOK, Worlds
<1> QED BY <1>1, <1>2, <1>3, <1>4, <1>5, <1>6 DEF Next

(* A pin changes only to the level that was asked of its device, and never *)
(* back to an older one.                                                   *)
THEOREM CommandsObeyedInOrder == Spec => PinsObeyInOrder
<1> DEFINE Obeys == \A d \in Device : restarts'[d] = restarts[d] =>
                      /\ level'[d] >= level[d]
                      /\ pin'[d] # pin[d] => pin'[d] = asked[d][level'[d]]
<1>1. IInv /\ InLine /\ [Next]_vars => [Obeys]_vars
  <2> SUFFICES ASSUME IInv, InLine, Next, NEW d \in Device, restarts'[d] = restarts[d]
               PROVE  /\ level'[d] >= level[d]
                      /\ pin'[d] # pin[d] => pin'[d] = asked[d][level'[d]]
    OBVIOUS
  <2>0. /\ level \in [Device -> Nat] /\ pin \in [Device -> {0, 1}]
        /\ restarts \in [Device -> 0..world.restarts]
    BY DEF IInv, Types, TypeOK
  <2>1. CASE \E e \in Device : DeviceCallback(e)
    <3>1. PICK e \in Device : DeviceCallback(e) BY <2>1
    <3>2. CASE e = d
      <4> DEFINE p == entry[d][readEntry[d]]
      <4>1. Wanted(p) /\ Passed(d, p)
        BY OrderTypes DEF InLine
      <4>2. IF p.kind = "command" /\ p.dev = d
              THEN pin'[d] = p.pin /\ level'[d] = p.num
              ELSE pin'[d] = pin[d] /\ level'[d] = level[d]
        BY <2>0, <3>1, <3>2 DEF DeviceCallback
      <4> HIDE DEF p
      <4>3. Len(asked[d]) \in Nat BY OrderTypes
      <4> QED BY <2>0, <4>1, <4>2, <4>3 DEF Wanted, Passed
    <3>3. CASE e # d
      <4>1. pin'[d] = pin[d] /\ level'[d] = level[d]
        BY <2>0, <3>1, <3>3 DEF DeviceCallback
      <4> QED BY <2>0, <4>1
    <3> QED BY <3>2, <3>3
  <2>2. CASE \E e \in Device : Restart(e)
    <3>1. PICK e \in Device : Restart(e) BY <2>2
    <3>2. e # d
      <4>1. restarts'[e] = restarts[e] + 1 /\ restarts[e] \in Nat
        BY <2>0, <3>1, ConstantWorld DEF Restart, IInv, Types
      <4> QED BY <4>1
    <3>3. pin'[d] = pin[d] /\ level'[d] = level[d] BY <2>0, <3>1, <3>2 DEF Restart
    <3> QED BY <2>0, <3>3
  <2>3. ASSUME ~ \E e \in Device : DeviceCallback(e) \/ Restart(e)
        PROVE  UNCHANGED <<pin, level>>
    BY <2>3 DEF Next, GatewayStep, DeviceStep, NodeStep, TakeCommand, Transmit,
       GatewayCallback, SendUp, Transmitted, Wedge, Return, Want, QueueCommand,
       Announce, Announced,
       NoLightSensor, MeasureLight, MeasureClimate, SenseIdle, SenseBusy, CountBranch,
       Send, Sent, Node, deviceVars
  <2> QED BY <2>0, <2>1, <2>2, <2>3
<1> QED BY InitIInv, StepIInv, InitInLine, StepInLine, <1>1, PTL
        DEF Spec, PinsObeyInOrder
-------------------------------------------------------------------------------
(* The way of a reading.  Whatever is in the ring of the gateway or in its *)
(* spiQueue is later than nothing the node will still send: its round is   *)
(* over.                                                                   *)
Uplink ==
  /\ \A n \in Sensor :
       /\ node[n].light <= node[n].round /\ node[n].climate <= node[n].round
       /\ n \in DOMAIN air => node[n].at = "send" /\ air[n] = Reading(n)
       /\ \A j \in 1..Len(spiQueue) : Later(spiQueue[j], Reading(n))
       /\ \A i \in 0..1 : Later(entry[Gateway][i], Reading(n))
  /\ \A x \in DOMAIN air \ Sensor : air[x].kind # "reading"
  /\ Later(entry[Gateway][readEntry[Gateway]], entry[Gateway][1 - readEntry[Gateway]])
  /\ UplinkInOrder

LEMMA UplinkTypes ==
  ASSUME IInv
  PROVE  /\ spiQueue \in Seq(Packet) /\ Len(spiQueue) \in Nat
         /\ \A j \in 1..Len(spiQueue) : spiQueue[j] \in Packet
         /\ Gateway \in Receiver /\ entry[Gateway] \in [0..1 -> Packet]
         /\ readEntry[Gateway] \in {0, 1} /\ writeEntry[Gateway] \in {0, 1}
         /\ node \in [Sensor -> NodeState] /\ MaxRounds \in Nat \ {0}
         /\ \A p \in Packet : p.kind = "reading" =>
              /\ p.from \in Sensor
              /\ p.round \in 0..MaxRounds /\ p.light \in 0..MaxRounds
              /\ p.climate \in 0..MaxRounds
<1>1. TypeOK BY DEF IInv, Types
<1>2. spiQueue \in Seq(Packet) BY <1>1 DEF TypeOK
<1>3. Len(spiQueue) \in Nat /\ \A j \in 1..Len(spiQueue) : spiQueue[j] \in Packet
  BY <1>2, LenProperties
<1>4. Gateway \in Receiver BY DEF Receiver
<1>5. /\ entry[Gateway] \in [0..1 -> Packet]
      /\ readEntry[Gateway] \in {0, 1} /\ writeEntry[Gateway] \in {0, 1}
  BY <1>1, <1>4 DEF TypeOK
<1>6. node \in [Sensor -> NodeState] BY <1>1 DEF TypeOK, NodeState, Stage
<1>7. MaxRounds \in Nat \ {0} BY <1>1, ConstantWorld
<1>8. \A p \in Packet : p.kind = "reading" =>
        /\ p.from \in Sensor
        /\ p.round \in 0..MaxRounds /\ p.light \in 0..MaxRounds
        /\ p.climate \in 0..MaxRounds
  BY DEF Packet, Empty
<1> QED BY <1>2, <1>3, <1>4, <1>5, <1>6, <1>7, <1>8

(* A node only goes forward, and forgets no measurement.                   *)
Grows(n) ==
  /\ node'[n].light >= node[n].light /\ node'[n].light <= node'[n].round
  /\ node'[n].climate >= node[n].climate /\ node'[n].climate <= node'[n].round
  /\ \/ node'[n].round = node[n].round
     \/ node'[n].round > node[n].round
     \/ node'[n].round = MaxRounds

LEMMA StaysBehind ==
  ASSUME IInv, world' = world, NEW n \in Sensor, Grows(n), node'[n] \in NodeState,
         NEW p \in Packet, Later(p, Reading(n))
  PROVE  Later(p, Reading(n)')
<1>1. /\ node[n] \in NodeState /\ MaxRounds' = MaxRounds /\ MaxRounds \in Nat
      /\ p.kind = "reading" => /\ p.round \in 0..MaxRounds /\ p.light \in 0..MaxRounds
                               /\ p.climate \in 0..MaxRounds
  BY UplinkTypes DEF MaxRounds
<1>2. /\ Reading(n)' = [kind |-> "reading", from |-> n, round |-> node'[n].round,
                        light |-> node'[n].light, climate |-> node'[n].climate]
      /\ Reading(n) = [kind |-> "reading", from |-> n, round |-> node[n].round,
                       light |-> node[n].light, climate |-> node[n].climate]
  BY DEF Reading
<1> QED BY <1>1, <1>2 DEF Later, Grows, NodeState

(* Steps that neither the gateway's ring nor its queue nor a node notices. *)
LEMMA NoUplink ==
  ASSUME IInv, Uplink, UNCHANGED <<world, spiQueue, node>>,
         entry'[Gateway] = entry[Gateway], readEntry'[Gateway] = readEntry[Gateway],
         \A x \in DOMAIN air' :
            \/ x \in DOMAIN air /\ air'[x] = air[x]
            \/ x \in Sensor /\ node[x].at = "send" /\ air'[x] = Reading(x)
            \/ x \notin Sensor /\ air'[x].kind # "reading"
  PROVE  Uplink'
<1>1. MaxRounds' = MaxRounds BY DEF MaxRounds
<1>2. \A n \in Sensor : Reading(n)' = Reading(n) BY DEF Reading
<1>3. UplinkInOrder' BY <1>1 DEF Uplink, UplinkInOrder, Later
<1>4. ASSUME NEW n \in Sensor
      PROVE  /\ node'[n].light <= node'[n].round /\ node'[n].climate <= node'[n].round
             /\ n \in DOMAIN air' => node'[n].at = "send" /\ air'[n] = Reading(n)'
             /\ \A j \in 1..Len(spiQueue') : Later(spiQueue[j], Reading(n))'
             /\ \A i \in 0..1 : Later(entry[Gateway][i], Reading(n))'
  <2>1. n \in DOMAIN air' => node'[n].at = "send" /\ air'[n] = Reading(n)'
    BY <1>2 DEF Uplink
  <2>2. /\ \A j \in 1..Len(spiQueue) : Later(spiQueue[j], Reading(n))
        /\ \A i \in 0..1 : Later(entry[Gateway][i], Reading(n))
        /\ node[n].light <= node[n].round /\ node[n].climate <= node[n].round
    BY DEF Uplink
  <2> QED BY <1>1, <1>2, <2>1, <2>2 DEF Later
<1>5. \A x \in DOMAIN air' \ Sensor : air'[x].kind # "reading" BY DEF Uplink
<1>6. Later(entry[Gateway][readEntry[Gateway]], entry[Gateway][1 - readEntry[Gateway]])'
  BY <1>1 DEF Uplink, Later
<1> QED BY <1>3, <1>4, <1>5, <1>6 DEF Uplink

(* A step of a node between two packets.                                   *)
LEMMA NodeUplink ==
  ASSUME IInv, Uplink, NEW n \in Sensor,
         \/ NoLightSensor(n) \/ MeasureLight(n) \/ MeasureClimate(n)
         \/ SenseIdle(n) \/ SenseBusy(n) \/ CountBranch(n)
  PROVE  Uplink'
<1> DEFINE Over(old, new) == [f \in DOMAIN old |-> IF f \in DOMAIN new THEN new[f] ELSE old[f]]
<1>1. /\ node' \in [Sensor -> NodeState]
      /\ UNCHANGED <<world, asked, airVars, ringVars, gatewayVars, deviceVars>>
  BY NodeMoves DEF IInv, Types
<1>2. /\ node \in [Sensor -> NodeState] /\ MaxRounds \in Nat \ {0} /\ MaxRounds' = MaxRounds
      /\ node[n] \in NodeState /\ node[n].light <= node[n].round
      /\ node[n].climate <= node[n].round
  BY <1>1, UplinkTypes DEF MaxRounds, Uplink
<1>3. Grows(n) /\ node[n].at # "send" /\ \A m \in Sensor \ {n} : node'[m] = node[m]
  <2>1. CASE NoLightSensor(n)
    BY <1>2, <2>1 DEF NoLightSensor, Node, Grows, NodeState
  <2>2. CASE MeasureLight(n)
    <3>1. PICK l \in {node[n].light, node[n].round} :
            Node(n, [at |-> "climate", light |-> l])
      BY <2>2 DEF MeasureLight
    <3>2. /\ node'[n].light = l /\ node'[n].round = node[n].round
          /\ node'[n].climate = node[n].climate
          /\ \A m \in Sensor \ {n} : node'[m] = node[m]
      BY <1>2, <3>1 DEF Node, NodeState
    <3> QED BY <1>2, <2>2, <3>2 DEF MeasureLight, Grows, NodeState
  <2>3. CASE MeasureClimate(n)
    <3>1. PICK c \in {node[n].climate, node[n].round} :
            Node(n, [at |-> "sense", climate |-> c])
      BY <2>3 DEF MeasureClimate
    <3>2. /\ node'[n].climate = c /\ node'[n].round = node[n].round
          /\ node'[n].light = node[n].light
          /\ \A m \in Sensor \ {n} : node'[m] = node[m]
      BY <1>2, <3>1 DEF Node, NodeState
    <3> QED BY <1>2, <2>3, <3>2 DEF MeasureClimate, Grows, NodeState
  <2>4. CASE SenseIdle(n) BY <1>2, <2>4 DEF SenseIdle, Node, Grows, NodeState
  <2>5. CASE SenseBusy(n) BY <1>2, <2>5 DEF SenseBusy, Node, Grows, NodeState
  <2>6. CASE CountBranch(n)
    <3>1. CASE node[n].left = 1
      <4>1. Node(n, [at |-> "light", left |-> Retries, round |-> Round(n)])
        BY <2>6, <3>1 DEF CountBranch, Fresh
      <4>2. /\ node'[n].climate = node[n].climate /\ node'[n].round = Round(n)
            /\ node'[n].light = node[n].light
            /\ \A m \in Sensor \ {n} : node'[m] = node[m]
        BY <1>2, <4>1 DEF Node, NodeState
      <4> QED BY <1>2, <2>6, <4>2 DEF CountBranch, Grows, Round, NodeState
    <3>2. CASE node[n].left # 1
      <4>1. PICK l : Node(n, [at |-> "sense", left |-> l]) BY <2>6, <3>2 DEF CountBranch
      <4>2. /\ node'[n].climate = node[n].climate /\ node'[n].round = node[n].round
            /\ node'[n].light = node[n].light
            /\ \A m \in Sensor \ {n} : node'[m] = node[m]
        BY <1>2, <4>1 DEF Node, NodeState
      <4> QED BY <1>2, <2>6, <4>2 DEF CountBranch, Grows, NodeState
    <3> QED BY <3>1, <3>2
  <2> QED BY <2>1, <2>2, <2>3, <2>4, <2>5, <2>6
<1>4. /\ spiQueue' = spiQueue /\ entry' = entry /\ readEntry' = readEntry /\ air' = air
      /\ world' = world
  BY <1>1 DEF airVars, ringVars, gatewayVars
<1>5. ASSUME NEW m \in Sensor
      PROVE  /\ node'[m].light <= node'[m].round /\ node'[m].climate <= node'[m].round
             /\ m \in DOMAIN air' => node'[m].at = "send" /\ air'[m] = Reading(m)'
             /\ \A p \in Packet : Later(p, Reading(m)) => Later(p, Reading(m)')
  <2>1. CASE m = n
    <3>1. n \notin DOMAIN air BY <1>3 DEF Uplink
    <3>2. node'[n] \in NodeState BY <1>1
    <3> QED BY <1>3, <1>4, <2>1, <3>1, <3>2, StaysBehind DEF Grows
  <2>2. CASE m # n
    <3>1. node'[m] = node[m] BY <1>3, <2>2
    <3>2. Reading(m)' = Reading(m) BY <3>1 DEF Reading
    <3> QED BY <1>4, <3>1, <3>2 DEF Uplink
  <2> QED BY <2>1, <2>2
<1>6. /\ \A j \in 1..Len(spiQueue) : spiQueue[j] \in Packet
      /\ \A i \in 0..1 : entry[Gateway][i] \in Packet
  BY UplinkTypes
<1>7. ASSUME NEW m \in Sensor
      PROVE  /\ \A j \in 1..Len(spiQueue') : Later(spiQueue[j], Reading(m))'
             /\ \A i \in 0..1 : Later(entry[Gateway][i], Reading(m))'
  <2>1. /\ \A j \in 1..Len(spiQueue) : Later(spiQueue[j], Reading(m)')
        /\ \A i \in 0..1 : Later(entry[Gateway][i], Reading(m)')
    BY <1>5, <1>6 DEF Uplink
  <2> QED BY <1>2, <1>4, <2>1 DEF Later
<1>8. UplinkInOrder' BY <1>2, <1>4 DEF Uplink, UplinkInOrder, Later
<1>9. /\ \A x \in DOMAIN air' \ Sensor : air'[x].kind # "reading"
      /\ Later(entry[Gateway][readEntry[Gateway]], entry[Gateway][1 - readEntry[Gateway]])'
  BY <1>2, <1>4 DEF Uplink, Later
<1> QED BY <1>5, <1>7, <1>8, <1>9 DEF Uplink

LEMMA SendUpUplink ==
  ASSUME IInv, Uplink, SendUp
  PROVE  Uplink'
<1> DEFINE n == Len(spiQueue)
<1>1. /\ spiQueue # <<>> /\ spiQueue' = Tail(spiQueue)
      /\ UNCHANGED <<world, node, air, entry, readEntry>>
  BY DEF SendUp, airVars, ringVars
<1>2. /\ n \in Nat /\ n > 0 /\ Len(spiQueue') = n - 1
      /\ \A j \in 1..(n - 1) : j + 1 \in 1..n /\ spiQueue'[j] = spiQueue[j + 1]
  BY <1>1, UplinkTypes, HeadTailProperties, EmptySeq
<1>3. MaxRounds' = MaxRounds /\ \A s \in Sensor : Reading(s)' = Reading(s)
  BY <1>1 DEF MaxRounds, Reading
<1>4. /\ \A j \in 1..n : /\ \A i \in 1..(j - 1) : Later(spiQueue[i], spiQueue[j])
                         /\ \A i \in 0..1 : Later(spiQueue[j], entry[Gateway][i])
                         /\ \A s \in Sensor : Later(spiQueue[j], Reading(s))
  BY DEF Uplink, UplinkInOrder
<1> HIDE DEF n
<1>5. ASSUME NEW j \in 1..(n - 1)
      PROVE  /\ \A i \in 1..(j - 1) : Later(spiQueue'[i], spiQueue'[j])
             /\ \A i \in 0..1 : Later(spiQueue'[j], entry[Gateway][i])
             /\ \A s \in Sensor : Later(spiQueue'[j], Reading(s))
  <2>1. \A i \in 1..(j - 1) : i \in 1..(n - 1) /\ i + 1 \in 1..((j + 1) - 1) BY <1>2
  <2> QED BY <1>2, <1>4, <2>1
<1>6. UplinkInOrder' BY <1>1, <1>2, <1>3, <1>5 DEF UplinkInOrder, Later
<1>7. \A s \in Sensor : \A j \in 1..Len(spiQueue') : Later(spiQueue[j], Reading(s))'
  BY <1>2, <1>3, <1>5 DEF Later
<1> QED BY <1>1, <1>3, <1>6, <1>7 DEF Uplink, Later

(* The callback moves the older of the two entries to the end of spiQueue. *)
LEMMA CallbackUplink ==
  ASSUME IInv, Uplink, GatewayCallback
  PROVE  Uplink'
<1> DEFINE n == Len(spiQueue)
           p == entry[Gateway][readEntry[Gateway]]
           q == entry[Gateway][1 - readEntry[Gateway]]
<1>1. UNCHANGED <<world, node, air>> BY DEF GatewayCallback, airVars
<1>2. MaxRounds' = MaxRounds /\ \A s \in Sensor : Reading(s)' = Reading(s)
  BY <1>1 DEF MaxRounds, Reading
<1>3. /\ entry'[Gateway][readEntry[Gateway]] = Empty
      /\ entry'[Gateway][1 - readEntry[Gateway]] = q
      /\ readEntry'[Gateway] = 1 - readEntry[Gateway]
      /\ \A i \in 0..1 : i = readEntry[Gateway] \/ i = 1 - readEntry[Gateway]
      /\ readEntry[Gateway] \in 0..1 /\ 1 - readEntry[Gateway] \in 0..1
  BY UplinkTypes DEF GatewayCallback, NextEntry, IInv, Types, TypeOK
<1>4. /\ n \in Nat /\ p \in Packet
      /\ \/ spiQueue' = spiQueue
         \/ /\ Len(spiQueue') = n + 1 /\ spiQueue'[n + 1] = p
            /\ \A j \in 1..n : spiQueue'[j] = spiQueue[j]
  <2>1. spiQueue \in Seq(Packet) /\ p \in Packet BY <1>3, UplinkTypes
  <2>2. spiQueue' = spiQueue \/ spiQueue' = Append(spiQueue, p) BY DEF GatewayCallback
  <2> HIDE DEF p
  <2> QED BY <2>1, <2>2, AppendProperties, LenProperties
<1>5. /\ Later(p, q)
      /\ \A j \in 1..n : /\ \A i \in 1..(j - 1) : Later(spiQueue[i], spiQueue[j])
                         /\ Later(spiQueue[j], p) /\ Later(spiQueue[j], q)
                         /\ \A s \in Sensor : Later(spiQueue[j], Reading(s))
      /\ \A s \in Sensor : Later(p, Reading(s)) /\ Later(q, Reading(s))
  BY <1>3 DEF Uplink, UplinkInOrder
<1> HIDE DEF n, p, q
<1>6. \A i \in 0..1 : entry'[Gateway][i] = Empty \/ entry'[Gateway][i] = q BY <1>3
<1>7. Empty.kind # "reading" BY Kinds
<1>8. ASSUME NEW j \in 1..Len(spiQueue')
      PROVE  /\ \A i \in 1..(j - 1) : Later(spiQueue'[i], spiQueue'[j])
             /\ Later(spiQueue'[j], q)
             /\ \A s \in Sensor : Later(spiQueue'[j], Reading(s))
  <2>1. CASE spiQueue' = spiQueue BY <1>5, <2>1 DEF n
  <2>2. CASE /\ Len(spiQueue') = n + 1 /\ spiQueue'[n + 1] = p
             /\ \A i \in 1..n : spiQueue'[i] = spiQueue[i]
    <3>1. CASE j = n + 1
      <4>1. \A i \in 1..(j - 1) : i \in 1..n BY <1>4, <3>1
      <4> QED BY <1>5, <2>2, <3>1, <4>1
    <3>2. CASE j \in 1..n
      <4>1. \A i \in 1..(j - 1) : i \in 1..n BY <1>4, <3>2
      <4> QED BY <1>5, <2>2, <3>2, <4>1
    <3> QED BY <1>4, <2>2, <3>1, <3>2
  <2> QED BY <1>4, <2>1, <2>2
<1>9. \A j \in 1..Len(spiQueue'), i \in 0..1 : Later(spiQueue'[j], entry'[Gateway][i])
  BY <1>6, <1>7, <1>8 DEF Later
<1>10. UplinkInOrder' BY <1>2, <1>8, <1>9 DEF UplinkInOrder, Later
<1>11. ASSUME NEW s \in Sensor
       PROVE  /\ \A j \in 1..Len(spiQueue') : Later(spiQueue[j], Reading(s))'
              /\ \A i \in 0..1 : Later(entry[Gateway][i], Reading(s))'
  BY <1>2, <1>5, <1>6, <1>7, <1>8 DEF Later
<1>12. Later(entry[Gateway][readEntry[Gateway]], entry[Gateway][1 - readEntry[Gateway]])'
  <2>1. entry'[Gateway][1 - readEntry'[Gateway]] = Empty BY <1>3, UplinkTypes
  <2> QED BY <1>7, <2>1 DEF Later
<1> QED BY <1>1, <1>2, <1>10, <1>11, <1>12 DEF Uplink

(* A packet ends.  A reading that the gateway takes is later than all it   *)
(* has, and the node begins a new round.                                   *)
LEMMA SentUplink ==
  ASSUME IInv, Uplink, NEW got \in SUBSET Receiver,
         \/ Transmitted(got)
         \/ \E d \in Device : Announced(d, got)
         \/ \E n \in Sensor : Sent(n, got)
  PROVE  Uplink'
<1> DEFINE Done(n) == Node(n, [at |-> "light", left |-> Retries, round |-> Round(n)])
           Ends(x) == /\ StopSending(x, got)
                      /\ UNCHANGED <<world, spiQueue>>
                      /\ IF x \in Sensor THEN Done(x) ELSE node' = node
<1>1. PICK x \in DOMAIN air : Ends(x)
  <2>1. CASE Transmitted(got)
    <3>1. Gateway \notin Sensor BY RadioAssumption
    <3> QED BY <2>1, <3>1 DEF Transmitted
  <2>2. ASSUME NEW d \in Device, Announced(d, got) PROVE \E x \in DOMAIN air : Ends(x)
    <3>1. d \notin Sensor BY RadioAssumption
    <3> QED BY <2>2, <3>1 DEF Announced, gatewayVars
  <2>3. ASSUME NEW n \in Sensor, Sent(n, got) PROVE \E x \in DOMAIN air : Ends(x)
    BY <2>3 DEF Sent, Fresh, Node, gatewayVars
  <2> QED BY <2>1, <2>2, <2>3
<1> DEFINE p == air[x]
           w == writeEntry[Gateway]
           r == readEntry[Gateway]
<1>2. /\ DOMAIN air' = DOMAIN air \ {x} /\ \A y \in DOMAIN air' : air'[y] = air[y]
      /\ readEntry' = readEntry /\ RingShape'
  BY <1>1, Stops DEF IInv
<1>3. /\ p \in Packet
      /\ x \notin Sensor => p.kind # "reading"
      /\ x \in Sensor => p = Reading(x)
      /\ Empty.kind # "reading"
  BY Kinds DEF IInv, Types, TypeOK, Uplink
<1>4. MaxRounds' = MaxRounds /\ MaxRounds \in Nat \ {0} BY <1>1, UplinkTypes DEF MaxRounds
<1>5. /\ node \in [Sensor -> NodeState]
      /\ \A n \in Sensor : node[n].light <= node[n].round /\ node[n].climate <= node[n].round
  BY UplinkTypes DEF Uplink
<1>6. \A n \in Sensor \ {x} : node'[n] = node[n] BY <1>1, <1>5 DEF Node
<1>7. ASSUME x \in Sensor
      PROVE  /\ Grows(x) /\ node'[x] \in NodeState
             /\ node'[x].round > node[x].round \/ node'[x].round = MaxRounds
  <2>1. node[x] \in NodeState /\ Round(x) \in 0..MaxRounds /\ Retries \in 0..Retries
    BY <1>5, <1>7, NodeTypes, ConstantWorld DEF IInv, Types
  <2>2. /\ node'[x].round = Round(x) /\ node'[x].light = node[x].light
        /\ node'[x].climate = node[x].climate
    BY <1>1, <1>5, <1>7, <2>1 DEF Node, NodeState
  <2>3. node' \in [Sensor -> NodeState]
    <3>1. Done(x) BY <1>1, <1>7
    <3> QED BY <1>7, <2>1, <3>1, NodeKeepsType DEF IInv, Types, Stage
  <2> QED BY <1>4, <1>5, <1>7, <2>1, <2>2, <2>3 DEF Grows, Round, NodeState
<1>8. ASSUME NEW n \in Sensor, NEW a \in Packet, Later(a, Reading(n))
      PROVE  Later(a, Reading(n)')
  <2>1. CASE n = x
    <3>1. world' = world BY <1>1
    <3> QED BY <1>7, <1>8, <2>1, <3>1, StaysBehind
  <2>2. CASE n # x
    <3>1. Reading(n)' = Reading(n) BY <1>6, <2>2 DEF Reading
    <3> QED BY <1>8, <3>1
  <2> QED BY <2>1, <2>2
<1>9. ASSUME NEW n \in Sensor PROVE Later(p, Reading(n)')
  <2>1. CASE x = n
    <3>1. /\ Reading(n)' = [kind |-> "reading", from |-> n, round |-> node'[n].round,
                            light |-> node'[n].light, climate |-> node'[n].climate]
          /\ Reading(n) = [kind |-> "reading", from |-> n, round |-> node[n].round,
                           light |-> node[n].light, climate |-> node[n].climate]
      BY DEF Reading
    <3> QED BY <1>3, <1>4, <1>5, <1>7, <2>1, <3>1 DEF Later, Grows, NodeState
  <2>2. CASE x # n
    <3>1. p.kind = "reading" => p.from = x BY <1>3 DEF Reading
    <3>2. Reading(n)'.from = n BY DEF Reading
    <3> HIDE DEF p
    <3> QED BY <2>2, <3>1, <3>2 DEF Later
  <2> QED BY <2>1, <2>2
<1>10. /\ \A j \in 1..Len(spiQueue) : spiQueue[j] \in Packet /\ Later(spiQueue[j], p)
       /\ \A i \in 0..1 : entry[Gateway][i] \in Packet /\ Later(entry[Gateway][i], p)
  BY <1>3, UplinkTypes DEF Uplink, Later
<1> HIDE DEF p, w, r
<1>11. \/ entry'[Gateway] = entry[Gateway]
       \/ /\ entry[Gateway][w] = Empty /\ entry'[Gateway][w] = p
          /\ entry'[Gateway][1 - w] = entry[Gateway][1 - w]
  <2>1. entry' = [g \in Receiver |-> IF g \in got /\ entry[g][writeEntry[g]] = Empty
                    THEN [entry[g] EXCEPT ![writeEntry[g]] = p] ELSE entry[g]]
    BY <1>1 DEF StopSending, p
  <2> QED BY <2>1, UplinkTypes DEF w
<1>12. r \in {0, 1} /\ w \in {0, 1} /\ \A i \in 0..1 : i = w \/ i = 1 - w
  BY UplinkTypes DEF w, r
<1>13. \A i \in 0..1 : entry'[Gateway][i] = entry[Gateway][i] \/ entry'[Gateway][i] = p
  BY <1>11, <1>12
<1>14. UplinkInOrder'
  <2>1. spiQueue' = spiQueue BY <1>1
  <2>2. ASSUME NEW j \in 1..Len(spiQueue)
        PROVE  /\ \A i \in 1..(j - 1) : Later(spiQueue[i], spiQueue[j])
               /\ \A i \in 0..1 : Later(spiQueue[j], entry'[Gateway][i])
    BY <1>10, <1>13 DEF Uplink, UplinkInOrder
  <2> QED BY <1>4, <2>1, <2>2 DEF UplinkInOrder, Later
<1>15. ASSUME NEW n \in Sensor
       PROVE  /\ node'[n].light <= node'[n].round /\ node'[n].climate <= node'[n].round
              /\ n \in DOMAIN air' => node'[n].at = "send" /\ air'[n] = Reading(n)'
              /\ \A j \in 1..Len(spiQueue') : Later(spiQueue[j], Reading(n))'
              /\ \A i \in 0..1 : Later(entry[Gateway][i], Reading(n))'
  <2>1. node'[n].light <= node'[n].round /\ node'[n].climate <= node'[n].round
    BY <1>5, <1>6, <1>7 DEF Grows
  <2>2. n \in DOMAIN air' => node'[n].at = "send" /\ air'[n] = Reading(n)'
    BY <1>2, <1>6 DEF Uplink, Reading
  <2>3. /\ \A j \in 1..Len(spiQueue) : Later(spiQueue[j], Reading(n)')
        /\ \A i \in 0..1 : Later(entry'[Gateway][i], Reading(n)')
    BY <1>8, <1>9, <1>10, <1>13 DEF Uplink
  <2>4. spiQueue' = spiQueue BY <1>1
  <2> QED BY <1>4, <2>1, <2>2, <2>3, <2>4 DEF Later
<1>16. Later(entry'[Gateway][r], entry'[Gateway][1 - r])
  <2>1. Later(entry[Gateway][r], entry[Gateway][1 - r]) BY DEF Uplink, r
  <2>2. CASE entry'[Gateway] = entry[Gateway] BY <2>1, <2>2
  <2>3. CASE /\ entry[Gateway][w] = Empty /\ entry'[Gateway][w] = p
             /\ entry'[Gateway][1 - w] = entry[Gateway][1 - w]
    <3>1. CASE w = 1 - r
      <4>1. r = 1 - w BY <1>12, <3>1
      <4>2. entry'[Gateway][r] = entry[Gateway][r] /\ entry'[Gateway][1 - r] = p
        BY <2>3, <3>1, <4>1
      <4>3. r \in 0..1 BY <1>12
      <4> QED BY <1>10, <4>2, <4>3
    <3>2. CASE w = r
      <4>1. entry[Gateway][1 - r] = Empty
        BY <1>12, <2>3, <3>2, UplinkTypes DEF IInv, RingShape, w, r
      <4>2. entry'[Gateway][1 - r] = Empty BY <2>3, <3>2, <4>1
      <4> QED BY <1>3, <4>2 DEF Later
    <3> QED BY <1>12, <3>1, <3>2
  <2> QED BY <1>11, <2>2, <2>3
<1>17. Later(entry[Gateway][readEntry[Gateway]], entry[Gateway][1 - readEntry[Gateway]])'
  BY <1>2, <1>4, <1>16 DEF Later, r
<1>18. \A y \in DOMAIN air' \ Sensor : air'[y].kind # "reading" BY <1>2 DEF Uplink
<1> QED BY <1>14, <1>15, <1>17, <1>18 DEF Uplink

LEMMA InitUplink == Init => Uplink
<1> SUFFICES ASSUME Init PROVE Uplink OBVIOUS
<1>1. /\ spiQueue = <<>> /\ air = <<>>
      /\ entry = [r \in Receiver |-> [i \in 0..1 |-> Empty]]
      /\ readEntry = [r \in Receiver |-> 0]
      /\ node = [n \in Sensor |-> [at |-> "light", left |-> Retries, round |-> 1,
                                   light |-> 0, climate |-> 0]]
  BY DEF Init
<1>2. Gateway \in Receiver BY DEF Receiver
<1>3. Empty.kind # "reading" BY Kinds
<1>4. DOMAIN air = {}
  <2>1. Len(air) = 0 /\ air \in Seq({}) BY <1>1, EmptySeq
  <2>2. DOMAIN air = 1..0 BY <2>1, LenProperties
  <2> QED BY <2>2
<1>5. 1..Len(spiQueue) = {} BY <1>1
<1>6. \A i \in 0..1 : entry[Gateway][i] = Empty BY <1>1, <1>2
<1>7. Later(entry[Gateway][readEntry[Gateway]], entry[Gateway][1 - readEntry[Gateway]])
  <2>1. readEntry[Gateway] = 0 BY <1>1, <1>2
  <2> QED BY <1>3, <1>6, <2>1 DEF Later
<1>8. \A n \in Sensor : node[n].light <= node[n].round /\ node[n].climate <= node[n].round
  BY <1>1
<1> QED BY <1>3, <1>4, <1>5, <1>6, <1>7, <1>8 DEF Uplink, UplinkInOrder, Later

LEMMA StepUplink == IInv /\ Uplink /\ [Next]_vars => Uplink'
<1> SUFFICES ASSUME IInv, Uplink, [Next]_vars PROVE Uplink' OBVIOUS
<1> DEFINE Goes(x) == \/ x \in DOMAIN air /\ air'[x] = air[x]
                      \/ x \in Sensor /\ node[x].at = "send" /\ air'[x] = Reading(x)
                      \/ x \notin Sensor /\ air'[x].kind # "reading"
<1>0. /\ Gateway \notin Sensor /\ \A d \in Device : d \notin Sensor /\ d # Gateway
  BY RadioAssumption
<1>1. CASE UNCHANGED vars
  BY <1>1, NoUplink DEF vars, airVars, ringVars, gatewayVars
<1>2. CASE GatewayStep
  <2>1. CASE TakeCommand BY <2>1, NoUplink DEF TakeCommand, ringVars
  <2>2. CASE Transmit
    <3>1. txTask.kind # "reading" BY Kinds DEF IInv, Types
    <3>2. Gateway \in Radio /\ txTask \in Packet /\ TypeOK
      BY DEF IInv, Types, TypeOK, Radio
    <3>3. /\ StartSending(Gateway, txTask)
          /\ UNCHANGED <<world, spiQueue, node, entry, readEntry>>
      BY <2>2 DEF Transmit, ringVars, gatewayVars
    <3>4. /\ DOMAIN air' = DOMAIN air \cup {Gateway} /\ air'[Gateway] = txTask
          /\ \A y \in DOMAIN air \ {Gateway} : air'[y] = air[y]
      BY <3>2, <3>3, Starts
    <3>5. \A x \in DOMAIN air' : Goes(x) BY <1>0, <3>1, <3>4
    <3> QED BY <3>3, <3>5, NoUplink
  <2>3. CASE GatewayCallback BY <2>3, CallbackUplink
  <2>4. CASE SendUp BY <2>4, SendUpUplink
  <2>5. ASSUME NEW got \in SUBSET Receiver, Transmitted(got) PROVE Uplink'
    BY <2>5, SentUplink
  <2>6. CASE Wedge \/ Return
    BY <2>6, NoUplink DEF Wedge, Return, airVars, ringVars
  <2> QED BY <1>2, <2>1, <2>2, <2>3, <2>4, <2>5, <2>6 DEF GatewayStep
<1>3. ASSUME NEW d \in Device, Want(d) \/ QueueCommand(d) PROVE Uplink'
  BY <1>3, NoUplink DEF Want, QueueCommand, airVars, ringVars, gatewayVars
<1>4. ASSUME NEW d \in Device, DeviceStep(d) \/ Restart(d) PROVE Uplink'
  <2>1. CASE DeviceCallback(d) \/ Restart(d)
    <3>1. /\ UNCHANGED <<world, spiQueue, node, air>>
          /\ entry'[Gateway] = entry[Gateway] /\ readEntry'[Gateway] = readEntry[Gateway]
      BY <1>0, <2>1, UplinkTypes
      DEF DeviceCallback, Restart, NextEntry, airVars, gatewayVars, IInv, Types, TypeOK
    <3> QED BY <3>1, NoUplink
  <2>2. CASE Announce(d)
    <3>1. /\ Announcement(d) \in Packet /\ Announcement(d).kind # "reading" /\ d \in Radio
      BY DEF Announcement, Packet, Radio
    <3>2. /\ StartSending(d, Announcement(d)) /\ TypeOK
          /\ UNCHANGED <<world, spiQueue, node, entry, readEntry>>
      BY <2>2 DEF Announce, ringVars, gatewayVars, IInv, Types
    <3>3. /\ DOMAIN air' = DOMAIN air \cup {d} /\ air'[d] = Announcement(d)
          /\ \A y \in DOMAIN air \ {d} : air'[y] = air[y]
      BY <3>1, <3>2, Starts
    <3>4. \A x \in DOMAIN air' : Goes(x) BY <1>0, <3>1, <3>3
    <3> QED BY <3>2, <3>4, NoUplink
  <2>3. ASSUME NEW got \in SUBSET Receiver, Announced(d, got) PROVE Uplink'
    BY <2>3, SentUplink
  <2> QED BY <1>4, <2>1, <2>2, <2>3 DEF DeviceStep
<1>5. ASSUME NEW n \in Sensor, NodeStep(n) \/ NoLightSensor(n) PROVE Uplink'
  <2>1. CASE Send(n)
    <3>1. n \in Radio /\ TypeOK BY DEF Radio, IInv, Types
    <3>2. /\ StartSending(n, Reading(n)) /\ Reading(n) \in Packet /\ node[n].at = "send"
          /\ UNCHANGED <<world, spiQueue, node, entry, readEntry>>
      BY <2>1, <3>1, NodeTypes DEF Send, ringVars, gatewayVars
    <3>3. /\ DOMAIN air' = DOMAIN air \cup {n} /\ air'[n] = Reading(n)
          /\ \A y \in DOMAIN air \ {n} : air'[y] = air[y]
      BY <3>1, <3>2, Starts
    <3>4. \A x \in DOMAIN air' : Goes(x) BY <3>2, <3>3
    <3> QED BY <3>2, <3>4, NoUplink
  <2>2. ASSUME NEW got \in SUBSET Receiver, Sent(n, got) PROVE Uplink'
    BY <2>2, SentUplink
  <2>3. CASE \/ NoLightSensor(n) \/ MeasureLight(n) \/ MeasureClimate(n)
             \/ SenseIdle(n) \/ SenseBusy(n) \/ CountBranch(n)
    BY <2>3, NodeUplink
  <2> QED BY <1>5, <2>1, <2>2, <2>3 DEF NodeStep
<1>6. world.commanded \subseteq Device
  BY WorldAssumption DEF IInv, Types, TypeOK, Worlds
<1> QED BY <1>1, <1>2, <1>3, <1>4, <1>5, <1>6 DEF Next

(* What the gateway has of a node is in the order of the node's rounds.    *)
THEOREM ReadingsGoUpInOrder == Spec => []UplinkInOrder
<1>1. Uplink => UplinkInOrder BY DEF Uplink
<1> QED BY InitIInv, StepIInv, InitUplink, StepUplink, <1>1, PTL DEF Spec
===============================================================================
