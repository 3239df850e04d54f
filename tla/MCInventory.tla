----------------------------- MODULE MCInventory -----------------------------
EXTENDS LegacyRouter, TLC

CONSTANTS g1, s1, d1, r1, r2

Symmetry == Permutations(User) \cup Permutations(Request)

(* Both routers, one request at a time (whichever of the two it is, for    *)
(* the symmetry); and requests of two clients at the same time, in a       *)
(* database with foreign keys.                                             *)
TwoWorlds ==
  { [clients |-> {r}, greenhouses |-> {g1}, items |-> {s1, d1},
     legacy |-> TRUE, keys |-> FALSE] : r \in {r1, r2} }
    \cup
  { [clients |-> {r1, r2}, greenhouses |-> {g1}, items |-> {s1},
     legacy |-> FALSE, keys |-> TRUE] }
==============================================================================
