---------------------------- MODULE MCZoneAlarms ----------------------------
(* ZoneAlarms with one metric that is raised at the first reading out of   *)
(* range and one that is raised after a second.                            *)
EXTENDS ZoneAlarms, TLC

TwoMetrics == <<"temp", "hum">>
TwoDelays == [m \in {"temp", "hum"} |-> IF m = "temp" THEN 0 ELSE 1]
===============================================================================
