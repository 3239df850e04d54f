------------------------------ MODULE MCSpiLink ------------------------------
(* SpiLink on small instances: the queue capacities of 10 are scaled down  *)
(* so that both queues fill up within the bounds.                          *)
EXTENDS SpiLink

(* On, the lamp's off, on: neighbours always ask for different levels.     *)
OnOffOn == <<{1}, {2}, {1}>>
===============================================================================
