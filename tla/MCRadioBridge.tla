---------------------------- MODULE MCRadioBridge ----------------------------
(* Four greenhouses, each small in a way of its own.                       *)
EXTENDS RadioBridge

CONSTANTS s1, d1, d2

(* Everybody hears everybody, and nobody himself.                          *)
OneRoom == [r \in Radio |-> Radio \ {r}]

(* Nobody hears the end devices.                                           *)
Downlink == [r \in Radio |-> IF r \in Device THEN {Gateway} ELSE {}]

Still == [d \in Device |-> 0]

(* One node whose readings pile up, a device that overhears the commands   *)
(* for another one, a device that is switched twice and restarted, and a   *)
(* node that finds the channel busy.                                       *)
FourWorlds ==
  { [on |-> {s1}, commanded |-> {}, inRange |-> OneRoom, heap |-> 2,
     retries |-> 1, changes |-> Still, rounds |-> 2, restarts |-> 0],
    [on |-> {d2}, commanded |-> {d1, d2}, inRange |-> Downlink, heap |-> 1,
     retries |-> 1, changes |-> [Still EXCEPT ![d1] = 1], rounds |-> 1,
     restarts |-> 0],
    [on |-> {d1}, commanded |-> {d1}, inRange |-> OneRoom, heap |-> 2,
     retries |-> 1, changes |-> [Still EXCEPT ![d1] = 2], rounds |-> 1,
     restarts |-> 1],
    [on |-> {s1}, commanded |-> {d1}, inRange |-> OneRoom, heap |-> 1,
     retries |-> 2, changes |-> Still, rounds |-> 1, restarts |-> 0] }
==============================================================================
