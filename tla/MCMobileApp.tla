----------------------------- MODULE MCMobileApp -----------------------------
(***************************************************************************)
(* Constants for TLC.  A world is a few gestures, calls and faults; each   *)
(* is chosen so that two things that can disturb each other happen in it.  *)
(***************************************************************************)
EXTENDS MobileApp

CONSTANTS u1, u2, p1, g1, n1, n2, s1, d1

Logins(A, P, n, o, e, f, r) ==
  [accounts |-> A, granted |-> P,
   budget |-> [logins |-> n, opens |-> o, edits |-> e, faults |-> f, restarts |-> r]]

SomeSessions ==
  {Logins({u1}, {p1}, 2, 0, 0, 1, 0), Logins({u1}, {}, 2, 0, 0, 1, 0),
   Logins({u1}, {p1}, 2, 0, 0, 0, 1), Logins({u1, u2}, {}, 2, 1, 1, 0, 0),
   Logins({u1}, {p1}, 1, 1, 1, 1, 0), Logins({u1}, {}, 1, 1, 1, 0, 1),
   Logins({}, {}, 2, 0, 0, 0, 0)}

Todo(f) == [k \in Kinds |-> IF k \in DOMAIN f THEN f[k] ELSE 0]
World(T, z, edit, f) == [tiles |-> T, zones |-> z, edit |-> edit, budget |-> Todo(f)]

SomeMaps ==
  {World({s1}, 1, TRUE, [drags |-> 1, moves |-> 1, faults |-> 1]),
   World({s1}, 1, FALSE, [drags |-> 1, moves |-> 1, toggles |-> 2]),
   World({d1}, 1, TRUE, [drags |-> 1, moves |-> 1, closes |-> 1]),
   World({s1, d1}, 1, TRUE, [drags |-> 1, unassigns |-> 1]),
   World({}, 0, TRUE, [draws |-> 2, toggles |-> 1]),
   World({}, 2, TRUE, [deletes |-> 1, faults |-> 1]),
   World({}, 1, TRUE, [dialogs |-> 3]),
   World({d1}, 1, TRUE, [dialogs |-> 2, faults |-> 1])}
=============================================================================
