------------------------------ MODULE Identity ------------------------------
(***************************************************************************)
(* The way of a node's unique id through every form it takes: bytes in the *)
(* radio packet, a number on the controller, text in JSON, a row, for an   *)
(* end device a JSON number and a double, and bytes in the command again.  *)
(*                                                                         *)
(* An id has Width bytes of Base values; a double holds Mantissa bits.  In *)
(* the program these are 8, 256 and 53.                                    *)
(***************************************************************************)
EXTENDS Naturals, Sequences

CONSTANTS Base, Width, Mantissa,
          Uid     \* the ids that have been given to nodes, as numbers

ASSUME WidthAssumption ==
  Base \in Nat \ {0, 1} /\ Width \in Nat \ {0, 1} /\ Mantissa \in Nat

VARIABLES
  kind,    \* packet[0]: 0 an end device, 1 a sensor node
  uid,     \* the id in the factory configuration
  form,    \* which form it has now
  value    \* the packet, number or command in that form

idVars == <<kind, uid, form, value>>

Byte == 0..(Base - 1)

(* getUniqueId and the regulator: the least significant byte first.        *)
Shifted(n) ==
  LET rest[i \in 0..Width] == IF i = 0 THEN n ELSE rest[i - 1] \div Base
  IN rest

Bytes(n) == [i \in 1..Width |-> Shifted(n)[i - 1] % Base]

(* An id has Width bytes and no more bits than a double keeps.  The two    *)
(* most significant bytes are the manufacturer's, and they differ.         *)
ASSUME UidAssumption ==
  \A n \in Uid : /\ n \in Nat /\ Shifted(n)[Width] = 0 /\ n < 2 ^ Mantissa
                 /\ \A m \in Uid : Bytes(m)[Width] # Bytes(n)[Width - 1]

(* convertIntoPhysicalValues: shifts the last byte in first.               *)
Number(b) ==
  LET value_[i \in 1..(Width + 1)] ==
        IF i = Width + 1 THEN 0 ELSE value_[i + 1] * Base + b[i]
  IN value_[1]

(* The double nearest to n; of two equally near ones the even one.         *)
Double(n) ==
  IF n < 2 ^ Mantissa THEN n
  ELSE LET e == CHOOSE k \in 1..n : /\ n < 2 ^ (Mantissa + k)
                                    /\ n >= 2 ^ (Mantissa + k - 1)
           ulp == 2 ^ e  low == n \div ulp  rest == n % ulp
       IN IF 2 * rest > ulp \/ (2 * rest = ulp /\ low % 2 = 1)
            THEN (low + 1) * ulp ELSE low * ulp

NoId == kind = 0 /\ uid = 0 /\ form = "factory" /\ value = <<>>

IdInit ==
  /\ kind \in {0, 1} /\ uid \in Uid
  /\ form = "factory" /\ value = <<>>
------------------------------------------------------------------------------
To(f, v) == form' = f /\ value' = v /\ UNCHANGED <<kind, uid>>

(* packet[0] is the kind, the id follows.                                  *)
SendPacket ==
  /\ form = "factory"
  /\ To("packet", <<kind>> \o Bytes(uid))

(* valueID, which snprintf writes with %llu.                               *)
Convert ==
  /\ form = "packet"
  /\ To("number", Number(SubSeq(value, 2, Width + 1)))

(* BigInt(id_sensor_node.toString()) and the key of the row.               *)
Register ==
  /\ form = "number"
  /\ To("row", value)

(* sensorNodeID goes out as text, which strtoull reads.                    *)
AnswerSensor ==
  /\ form = "row" /\ kind = 1
  /\ To("table", value)

(* Mutant: valueint instead of valuedouble.                                *)
AnswerDeviceInt ==
  /\ form = "row" /\ kind = 0
  /\ LET limit == Base ^ (Width \div 2) \div 2 - 1 IN
       To("table", IF value > limit THEN limit ELSE value)

(* Number(ed.id); cJSON parses a double, which is cast to uint64_t.        *)
AnswerDevice ==
  /\ form = "row" /\ kind = 0
  /\ To("table", Double(value))

(* The regulator's frame: the address and the level.                       *)
Regulate ==
  /\ form = "table" /\ kind = 0
  /\ \E l \in {0, 1} : To("command", Bytes(value) \o <<l>>)

IdNext == SendPacket \/ Convert \/ Register \/ AnswerSensor \/ AnswerDevice
          \/ Regulate

IdSpec == IdInit /\ [][IdNext]_idVars

(* callback of an end device: the ids that take what is on the air for     *)
(* theirs.                                                                 *)
Addressed(packet) == {u \in Uid : SubSeq(packet, 1, Width) = Bytes(u)}
------------------------------------------------------------------------------
IdTypeOK ==
  /\ kind \in {0, 1} /\ uid \in Uid \cup {0}
  /\ form \in {"factory", "packet", "number", "row", "table", "command"}
  /\ form \in {"number", "row", "table"} => value \in Nat
  /\ form \in {"packet", "command"} =>
       /\ Len(value) = Width + 1
       /\ \A i \in 1..(Width + 1) : value[i] \in Byte

(* A command computed from what the server answered reaches the end device *)
(* whose announcement registered it, and no other one; the id of a sensor  *)
(* comes back from the server as it was sent; and what nodes send to the   *)
(* gateway, which is on the same channel as the commands and is compared   *)
(* with the ids too, is no end device's address.                           *)
ComesHome ==
  /\ form = "command" => Addressed(value) = {uid}
  /\ form = "table" /\ kind = 1 => value = uid
  /\ form = "packet" => Addressed(value) = {}
==============================================================================
