--------------------------- MODULE MCSensorHealth ---------------------------
(* SensorHealth on small instances.                                        *)
EXTENDS SensorHealth
===============================================================================
