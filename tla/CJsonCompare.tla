----------------------------- MODULE CJsonCompare -----------------------------
(***************************************************************************)
(* The items of CJsonTree as values: cJSON_Compare and the equality it is  *)
(* to decide, and the lists of pointers as the lists of OrderedForest.     *)
(***************************************************************************)
EXTENDS CJsonTree

RECURSIVE Chain(_, _)
Chain(h, x) == IF x \notin DOMAIN h THEN <<>> ELSE <<x>> \o Chain(h, h[x].next)

MemberList(h, p) == Chain(h, h[p].child)

(* A mutant: what only the second object has goes unnoticed.               *)
RECURSIVE ComparesOneWay(_, _, _, _)
ComparesOneWay(h, a, b, sensitive) ==
  LET ma == MemberList(h, a)
      mb == MemberList(h, b)
  IN /\ h[a].kind = h[b].kind
     /\ \/ h[a].kind = "value" /\ h[a].val = h[b].val
        \/ /\ h[a].kind = "array" /\ Len(ma) = Len(mb)
           /\ \A i \in DOMAIN ma : ComparesOneWay(h, ma[i], mb[i], sensitive)
        \/ /\ h[a].kind = "object"
           /\ \A x \in ToSet(ma) :
                LET y == GetObjectItem(h, b, h[x].name, sensitive)
                IN y # None /\ ComparesOneWay(h, x, y, sensitive)

RECURSIVE Compare(_, _, _, _)
Compare(h, a, b, sensitive) ==
  LET ma == MemberList(h, a)
      mb == MemberList(h, b)
      Covers(p, q) == \A x \in Members(h, p) :
        LET y == GetObjectItem(h, q, h[x].name, sensitive)
        IN y # None /\ Compare(h, x, y, sensitive)
  IN /\ h[a].kind = h[b].kind
     /\ \/ a = b
        \/ h[a].kind = "value" /\ h[a].val = h[b].val
        \/ /\ h[a].kind = "array" /\ Len(ma) = Len(mb)
           /\ \A i \in DOMAIN ma : Compare(h, ma[i], mb[i], sensitive)
        \/ h[a].kind = "object" /\ Covers(a, b) /\ Covers(b, a)
-------------------------------------------------------------------------------
(* Reference definitions: an object's keys are distinct; the same value.   *)
AsKey(case, n) == IF case THEN n ELSE Lower[n]

RECURSIVE HasKeys(_, _)
HasKeys(x, case) ==
  LET m == MemberList(heap, x)
  IN /\ heap[x].kind = "object" =>
          /\ \A i \in DOMAIN m : heap[m[i]].name # None
          /\ \A i, j \in DOMAIN m :
               AsKey(case, heap[m[i]].name) = AsKey(case, heap[m[j]].name) => i = j
     /\ \A y \in ToSet(m) : HasKeys(y, case)

RECURSIVE Same(_, _, _)
Same(x, y, case) ==
  LET mx == MemberList(heap, x)
      my == MemberList(heap, y)
      Keys(m) == {AsKey(case, heap[m[i]].name) : i \in DOMAIN m}
  IN /\ heap[x].kind = heap[y].kind
     /\ heap[x].kind = "value" => heap[x].val = heap[y].val
     /\ heap[x].kind = "array" =>
          Len(mx) = Len(my) /\ \A i \in DOMAIN mx : Same(mx[i], my[i], case)
     /\ heap[x].kind = "object" =>
          /\ Keys(mx) = Keys(my)
          /\ \A i \in DOMAIN mx, j \in DOMAIN my :
               AsKey(case, heap[mx[i]].name) = AsKey(case, heap[my[j]].name) => Same(mx[i], my[j], case)

(* Of two trees whose objects have no key twice.                           *)
ComparesAsEqual ==
  \A x, y \in held, case \in BOOLEAN :
    HasKeys(x, case) /\ HasKeys(y, case)
    => (Compare(heap, x, y, case) <=> Same(x, y, case))

(* The items with their pointers are ordered trees: each operation is one  *)
(* step of OrderedForest on the lists the containers own.                  *)
Forest == INSTANCE OrderedForest WITH
  alive <- Live,
  kids <- [x \in Item |-> IF x \notin Live \/ heap[x].ref THEN <<>>
                          ELSE MemberList(heap, x)]

IsForest == Forest!Spec
==============================================================================
