------------------------------- MODULE Custody -------------------------------
(***************************************************************************)
(* What owning something means in this system: a thing is free or belongs  *)
(* to one user, a user takes it only while it is free, and it changes      *)
(* hands only after it has been given back.                                *)
(***************************************************************************)
CONSTANTS Thing, User, Free

VARIABLE holder

TypeOK == holder \in [Thing -> User \cup {Free}]

Init == holder = [t \in Thing |-> Free]

Take(t, u) == /\ holder[t] = Free
              /\ holder' = [holder EXCEPT ![t] = u]

GiveBack(t) == /\ holder[t] # Free
               /\ holder' = [holder EXCEPT ![t] = Free]

Next == \E t \in Thing : GiveBack(t) \/ \E u \in User : Take(t, u)

Spec == Init /\ [][Next]_holder
==============================================================================
