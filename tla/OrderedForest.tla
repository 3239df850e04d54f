---------------------------- MODULE OrderedForest ----------------------------
(***************************************************************************)
(* What lib/cJSON.c promises of its items: they form ordered trees.  An    *)
(* item has one place in one list or none, a list keeps its order when     *)
(* another of its items is added or taken out, and only an item that       *)
(* stands in no list is thrown away, together with what is below it.       *)
(***************************************************************************)
EXTENDS Naturals, FiniteSets, SequencesExt

CONSTANT Item

VARIABLES alive, kids
vars == <<alive, kids>>

Tree(x) ==
  LET k == kids
      Down[n \in Nat] ==
        IF n = 0 THEN {x} ELSE Down[n - 1] \cup UNION {ToSet(k[y]) : y \in Down[n - 1]}
  IN Down[Cardinality(Item)]

Roots == LET k == kids IN alive \ UNION {ToSet(k[p]) : p \in alive}

Init == alive = {} /\ kids = [x \in Item |-> <<>>]

(* New items, and trees of new items.                                      *)
Grow ==
  /\ alive \subseteq alive' /\ alive' # alive
  /\ LET new == alive' \ alive
         k == kids'
     IN /\ \A x \in alive : k[x] = kids[x]
        /\ \A x \in new :
             /\ ToSet(k[x]) \subseteq new \ {x} /\ IsInjective(k[x])
             /\ \A y \in new \ {x} : ToSet(k[x]) \cap ToSet(k[y]) = {}

(* A new item in a list that was there.                                    *)
Sprout ==
  \E x \in alive' \ alive, p \in alive :
    /\ alive' = alive \cup {x}
    /\ LET k == kids
       IN \E i \in 1..Len(k[p]) + 1 :
            kids' = [k EXCEPT ![p] = InsertAt(@, i, x), ![x] = <<>>]

Place ==
  /\ alive' = alive
  /\ LET k == kids
         l == kids'
     IN \E p \in alive :
          /\ Len(l[p]) = Len(k[p]) + 1
          /\ \E i \in DOMAIN l[p] :
               /\ l[p][i] \in Roots /\ p \notin Tree(l[p][i])
               /\ l = [k EXCEPT ![p] = InsertAt(@, i, l[p][i])]

TakeOut ==
  /\ alive' = alive
  /\ LET k == kids
         l == kids'
     IN \E p \in alive : \E i \in DOMAIN k[p] :
          l = [k EXCEPT ![p] = RemoveAt(@, i)]

Without(k, S) == [x \in Item |-> IF x \in S THEN <<>> ELSE k[x]]

Discard ==
  /\ alive' # alive /\ alive' \subseteq alive
  /\ \E x \in Roots : /\ alive' = alive \ Tree(x)
                      /\ kids' = Without(kids, Tree(x))

(* A member is thrown away, and its place closed or given to another.      *)
DiscardMember ==
  /\ alive' # alive /\ alive' \subseteq alive
  /\ LET k == kids
         l == kids'
     IN \E p \in alive' : \E i \in DOMAIN k[p] :
          LET gone == Tree(k[p][i])
          IN /\ alive' = alive \ gone
             /\ \/ l = Without([k EXCEPT ![p] = RemoveAt(@, i)], gone)
                \/ \E x \in Roots :
                     /\ p \notin Tree(x)
                     /\ l = Without([k EXCEPT ![p] = ReplaceAt(@, i, x)], gone)

Next == Grow \/ Sprout \/ Place \/ TakeOut \/ Discard \/ DiscardMember

Spec == Init /\ [][Next]_vars
==============================================================================
