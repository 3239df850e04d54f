----------------------------- MODULE MCRegulator -----------------------------
(* Answers that make the table grow, shrink and change: one that does not  *)
(* fit into it, one zone only with devices moved and dropped, and none.    *)
EXTENDS Regulator

(* Both halves of an id tell its device.                                   *)
EndDev(id, up, down) == [low |-> id, high |-> id, up |-> up, down |-> down]

Zone(id, t, h, l, temps, hums, lights) ==
  [zoneID |-> id,
   reading |-> [k \in KindName |-> CASE k = "temp" -> t [] k = "hum" -> h
                                     [] OTHER -> l],
   devs |-> [k \in KindName |-> CASE k = "temp" -> temps [] k = "hum" -> hums
                                  [] OTHER -> lights]]

Hot  == Zone(1, 9, 5, 2, <<EndDev(1, 8, 3), EndDev(2, 9, 4)>>, <<>>,
             <<EndDev(3, 7, 4)>>)
Cold == Zone(1, 2, 5, 8, <<EndDev(2, 8, 3)>>, <<EndDev(1, 6, 4)>>,
             <<EndDev(3, 7, 4), EndDev(4, 0, 0), EndDev(5, 7, 4)>>)
Side == Zone(2, 5, 1, 5, <<EndDev(5, 8, 3)>>, <<EndDev(6, 6, 4)>>, <<>>)

MCAnswers == {<<Hot, Side, Cold>>, <<Cold>>, <<>>}
===============================================================================
