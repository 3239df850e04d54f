---------------------------- MODULE CommandChannel ----------------------------
(***************************************************************************)
(* What the path from the regulator (CC3235SF) to the gateway's radio      *)
(* transmit queue (CC1310) promises, with the two queues, the shared       *)
(* buffer, the ready line and the SPI bus all left out.                    *)
(*                                                                         *)
(* It is a channel that may lose and duplicate commands, and may even mix  *)
(* the address of one command with the level of a later one, or of the one *)
(* just before it, but that never goes back in time: once the level of     *)
(* command j has been accepted, nothing of a command before j is accepted  *)
(* any more.                                                               *)
(***************************************************************************)
EXTENDS Integers, Sequences

CONSTANTS Device,     \* the end devices a command can address
          NoDevice    \* an address that no end device has

Command == [dev : Device, code : 0..2]
Frame   == [dev : Device \cup {NoDevice}, pin : 0..2]

VARIABLES sent,   \* every command handed to the channel, in order
          out,    \* frames accepted by the gateway and not yet transmitted
          last    \* the newest command whose level was accepted, 0 if none

vars == <<sent, out, last>>

(* The output level a command asks for: only code 1 switches a device on.  *)
Level(code) == IF code = 1 THEN 1 ELSE 0

Init == sent = <<>> /\ out = <<>> /\ last = 0

Issue == /\ \E c \in Command : sent' = Append(sent, c)
         /\ UNCHANGED <<out, last>>

(* The address comes from command i, the level from command j.             *)
Accept == \E i, j \in 1..Len(sent) :
             /\ last <= i /\ last <= j /\ i <= j + 1
             /\ out' = Append(out, [dev |-> sent[i].dev,
                                    pin |-> Level(sent[j].code)])
             /\ last' = j
             /\ UNCHANGED sent

(* A frame that no end device listens to.                                  *)
AcceptStray == /\ \E p \in {0, 1} :
                    out' = Append(out, [dev |-> NoDevice, pin |-> p])
               /\ UNCHANGED <<sent, last>>

Take == /\ out # <<>>
        /\ out' = Tail(out)
        /\ UNCHANGED <<sent, last>>

Next == Issue \/ Accept \/ AcceptStray \/ Take

Spec == Init /\ [][Next]_vars
===============================================================================
