------------------------------ MODULE CJsonTree ------------------------------
(***************************************************************************)
(* The items of lib/cJSON.c.  An item is a cell with three pointers: next  *)
(* and prev chain the members of one container, prev of the first member   *)
(* is the last one, and child of the container is the first.  A reference  *)
(* is a copy of an item that shares its list and does not own it.          *)
(* Callers keep the contract of the library: they add only items that      *)
(* stand in no list, never below themselves, and while a list is shared    *)
(* they do not change it.                                                  *)
(***************************************************************************)
EXTENDS Naturals, FiniteSets, SequencesExt

CONSTANTS
  Item,        \* the cells malloc can return
  None,        \* NULL
  Name,        \* keys of members
  Lower,       \* what tolower makes of a key
  Value,       \* of the items that are not containers
  Program      \* the programs that use the library, see Programs

ASSUME ItemAssumption == IsFiniteSet(Item)
ASSUME NoneAssumption == None \notin Item \cup Name \cup Value
ASSUME LowerAssumption == Lower \in [Name -> Name]

Kinds == {"value", "array", "object"}

(* The keys and values a program uses, and whether it only builds trees.   *)
Programs == [names : SUBSET Name, values : SUBSET Value, onlyBuilds : BOOLEAN]
ASSUME ProgramAssumption == Program \subseteq Programs

VARIABLES
  program,     \* it does not change
  heap,        \* the cells in use
  held         \* the items a caller holds, each the root of a tree
vars == <<program, heap, held>>

Live == DOMAIN heap
Cell == [kind : Kinds, val : Value \cup {None}, name : Name \cup {None},
         next : Item \cup {None}, prev : Item \cup {None},
         child : Item \cup {None}, ref : BOOLEAN]
NewCell(k, v) == [kind |-> k, val |-> v, name |-> None, next |-> None,
                  prev |-> None, child |-> None, ref |-> FALSE]

Restricted(h, S) == [x \in S |-> h[x]]
Extended(h, g) == [x \in DOMAIN h \cup DOMAIN g |-> IF x \in DOMAIN g THEN g[x] ELSE h[x]]
------------------------------------------------------------------------------
(* Reading.                                                                *)

(* x and what it leads to, to telling what an item leads on to: nothing is *)
(* further away than there are items.                                      *)
Reach(to, x) ==
  LET N == Cardinality(Item)
      reached[n \in 0..N] ==
        IF n = 0 THEN {x}
        ELSE LET S == reached[n - 1] IN S \cup UNION {to[z] : z \in S}
  IN reached[N]

(* What one comes to from x, x included, by pointers of the kind To.       *)
From(h, x, To(_, _)) ==
  IF x \notin DOMAIN h THEN {}
  ELSE Reach([z \in DOMAIN h |-> To(h, z) \cap DOMAIN h], x)

Next1(h, z) == {h[z].next}
Owns(h, z) == {h[z].next} \cup (IF h[z].ref THEN {} ELSE {h[z].child})
Shows(h, z) == {h[z].next, h[z].child}

Onward(h, x) == From(h, x, Next1)
Members(h, p) == Onward(h, h[p].child)

(* get_array_item, from 1 here.                                            *)
GetArrayItem(h, p, i) ==
  LET m == Members(h, p)
      here == {y \in m : Cardinality({z \in m : y \in Onward(h, z)}) = i}
  IN IF here = {} THEN None ELSE CHOOSE y \in here : TRUE

(* With the case the loop stops at the first member without a key; without *)
(* it such a member is passed by.                                          *)
GetObjectItem(h, p, n, sensitive) ==
  LET Stops(x) == IF sensitive THEN h[x].name \in {n, None}
                  ELSE h[x].name # None /\ Lower[h[x].name] = Lower[n]
      hits == {x \in Members(h, p) : Stops(x)}
      first == CHOOSE x \in hits : hits \subseteq Onward(h, x)
  IN IF n = None \/ hits = {} \/ h[first].name = None THEN None ELSE first

(* What a walk down from x meets, the shared lists of references included. *)
Sees(h, x) == {x} \cup From(h, h[x].child, Shows)

(* A mutant: deleting a reference frees the list it shares.                *)
FreedThroughReferences(h, x) == From(h, x, Shows)

(* What cJSON_Delete frees: x, what follows it, and what they own.         *)
Freed(h, x) == From(h, x, Owns)

Deleted(h, x) == Restricted(h, DOMAIN h \ Freed(h, x))
------------------------------------------------------------------------------
(* Changing the pointers.                                                  *)

(* A mutant: the first member keeps pointing at the former last one.       *)
AppendsBehindOldLast(h, p, x) ==
  IF h[p].child = None
  THEN [h EXCEPT ![p].child = x, ![x].prev = x, ![x].next = None]
  ELSE LET last == h[h[p].child].prev
       IN [[h EXCEPT ![last].next = x] EXCEPT ![x].prev = last]

Append1(h, p, x) ==
  IF h[p].child = None
  THEN [h EXCEPT ![p].child = x, ![x].prev = x, ![x].next = None]
  ELSE LET first == h[p].child
           last == h[first].prev
       IN IF last = None THEN h
          ELSE [[[h EXCEPT ![last].next = x]
                    EXCEPT ![x].prev = last]
                    EXCEPT ![first].prev = x]

Insert1(h, p, i, x) ==
  LET y == GetArrayItem(h, p, i)
      linked == [[h EXCEPT ![x].next = y, ![x].prev = h[y].prev]
                    EXCEPT ![y].prev = x]
  IN IF y = None THEN Append1(h, p, x)
     ELSE IF y = h[p].child THEN [linked EXCEPT ![p].child = x]
     ELSE [linked EXCEPT ![h[y].prev].next = x]

(* cJSON_DetachItemViaPointer, assignment by assignment.                   *)
Unlink(h, p, x) ==
  LET first == h[p].child
      a == IF x # first THEN [h EXCEPT ![h[x].prev].next = h[x].next] ELSE h
      b == IF h[x].next # None THEN [a EXCEPT ![h[x].next].prev = h[x].prev] ELSE a
      c == IF x = first THEN [b EXCEPT ![p].child = h[x].next]
           ELSE IF h[x].next = None THEN [b EXCEPT ![first].prev = h[x].prev]
           ELSE b
  IN [c EXCEPT ![x].prev = None, ![x].next = None]

(* The pointers of cJSON_ReplaceItemViaPointer.                            *)
Swapped(h, p, x, y) ==
  LET first == h[p].child
      a == [h EXCEPT ![y].next = h[x].next, ![y].prev = h[x].prev]
      b == IF a[y].next # None THEN [a EXCEPT ![a[y].next].prev = y] ELSE a
      c == IF first = x
           THEN [b EXCEPT ![y].prev = IF b[first].prev = first THEN y ELSE @,
                          ![p].child = y]
           ELSE LET d == [b EXCEPT ![b[y].prev].next = y]
                IN IF d[y].next = None THEN [d EXCEPT ![first].prev = y] ELSE d
  IN [c EXCEPT ![x].next = None, ![x].prev = None]

(* What prev of the member y is: the last one, if y is the first.          *)
IsBefore(h, p, z, y) ==
  /\ z \in Members(h, p)
  /\ IF y = h[p].child THEN h[z].next = None ELSE h[z].next = y

(* cJSON_Duplicate: a copy of the item at the end of each path down the    *)
(* tree, a path having the items it passes.  The list of a reference is    *)
(* copied, and the copy is no reference.                                   *)
Paths(h, x) ==
  {p \in UNION {[1..n -> DOMAIN h] : n \in 1..Cardinality(DOMAIN h)} :
     p[1] = x /\ \A i \in 2..Len(p) : p[i] \in Members(h, p[i - 1])}

(* The new item at the end of p, if the copy has one.                      *)
CopyAt(paths, new, p) == IF p \in paths THEN new[p] ELSE None

CopyCell(h, paths, new, p) ==
  LET y == Last(p)
      up == Front(p)
      Beside(z) == IF up = <<>> THEN None ELSE CopyAt(paths, new, Append(up, z))
  IN [h[y] EXCEPT
        !.ref = FALSE,
        !.child = CopyAt(paths, new, Append(p, h[y].child)),
        !.next = Beside(h[y].next),
        !.prev = Beside(CHOOSE z \in DOMAIN h : IsBefore(h, Last(up), z, y))]

Copy(h, paths, new) ==
  LET Path(c) == CHOOSE p \in paths : new[p] = c
  IN [c \in {new[p] : p \in paths} |-> CopyCell(h, paths, new, Path(c))]
------------------------------------------------------------------------------
(* What callers may do: the lists they may change, the items they may add  *)
(* to one, and what they may throw away.                                   *)

Reached == UNION {Freed(heap, x) : x \in held}

Changeable ==
  LET reached == Reached
      shared == {heap[r].child : r \in {q \in reached : heap[q].ref}}
  IN {p \in reached : /\ heap[p].kind # "value" /\ ~heap[p].ref
                      /\ heap[p].child \notin shared \ {None}}

Addable(p) == {x \in held : p \notin Sees(heap, x)}

(* x stands in no list of h.                                               *)
MayFree(h, x) ==
  LET gone == Freed(h, x)
  IN \A r \in Reached \ gone : h[r].ref => h[r].child \notin gone
------------------------------------------------------------------------------
Init == program \in Program /\ heap = <<>> /\ held = {}

CreateValue(x, v) ==
  /\ heap' = Extended(heap, [y \in {x} |-> NewCell("value", v)])
  /\ held' = held \cup {x}

CreateContainer(x, k) ==
  /\ heap' = Extended(heap, [y \in {x} |-> NewCell(k, None)])
  /\ held' = held \cup {x}

(* cJSON_CreateIntArray and its likes chain the members themselves: the    *)
(* last of the new cells is the array.                                     *)
ArrayCell(vals, new, i) ==
  LET n == Len(vals)
  IN IF i = n + 1 THEN [NewCell("array", None) EXCEPT !.child = new[1]]
     ELSE [NewCell("value", vals[i]) EXCEPT
             !.next = IF i < n THEN new[i + 1] ELSE None,
             !.prev = IF i = 1 THEN new[n] ELSE new[i - 1]]

CreateArrayOf(vals, new) ==
  /\ Len(new) = Len(vals) + 1 /\ IsInjective(new)
  /\ LET Index(y) == CHOOSE i \in DOMAIN new : new[i] = y
     IN heap' = Extended(heap, [y \in ToSet(new) |-> ArrayCell(vals, new, Index(y))])
  /\ held' = held \cup {Last(new)}

(* cJSON_AddItemToArray does not ask what the container is.                *)
AddItemToArray(p, x) ==
  /\ heap' = Append1(heap, p, x)
  /\ held' = held \ {x}

AddItemToObject(p, n, x) ==
  /\ heap[p].kind = "object"
  /\ heap' = Append1([heap EXCEPT ![x].name = n], p, x)
  /\ held' = held \ {x}

(* The eight cJSON_AddNullToObject ... cJSON_AddArrayToObject: a new item   *)
(* in its place at once.  Without memory for its key it is deleted again.  *)
AddNewToObject(p, n, x, k, v) ==
  /\ heap[p].kind = "object" /\ (k = "value") = (v # None)
  /\ heap' = Append1(Extended(heap, [y \in {x} |->
                       [NewCell(k, v) EXCEPT !.name = n]]), p, x)
  /\ held' = held

(* create_reference, then the addition.  When there is no memory for the   *)
(* key the addition fails, and nobody has a pointer to the reference.      *)
AddReference(p, n, y, x, enough) ==
  LET r == [heap[y] EXCEPT !.name = None, !.next = None, !.prev = None,
                           !.ref = TRUE]
      h == Extended(heap, [z \in {x} |-> r])
  IN /\ p \notin Sees(heap, y)
     /\ n # None => heap[p].kind = "object"
     /\ enough \/ n # None
     /\ heap' = IF enough THEN Append1([h EXCEPT ![x].name = n], p, x) ELSE h
     /\ held' = held

(* cJSON_CreateObjectReference and cJSON_CreateArrayReference.             *)
CreateReference(y, x) ==
  /\ heap[y].kind # "value"
  /\ heap' = Extended(heap, [z \in {x} |->
               [NewCell(heap[y].kind, None) EXCEPT !.ref = TRUE,
                                                   !.child = heap[y].child]])
  /\ held' = held \cup {x}

(* By pointer, by index or by key: the member is x.                        *)
Detach(p, x) ==
  /\ heap' = Unlink(heap, p, x)
  /\ held' = held \cup {x}

DetachItemFromObject(p, n, sensitive) ==
  LET x == GetObjectItem(heap, p, n, sensitive)
  IN /\ heap[p].kind = "object" /\ x # None
     /\ heap' = Unlink(heap, p, x)
     /\ held' = held \cup {x}

DeleteItem(p, x) ==
  LET h == Unlink(heap, p, x)
  IN /\ MayFree(h, x)
     /\ heap' = Deleted(h, x)
     /\ held' = held

Delete(x) ==
  /\ MayFree(heap, x)
  /\ heap' = Deleted(heap, x)
  /\ held' = held \ {x}

InsertItemInArray(p, i, x) ==
  /\ heap' = Insert1(heap, p, i, x)
  /\ held' = held \ {x}

(* The member x is deleted.                                                *)
Replace(h, p, x, y) ==
  LET swapped == Swapped(h, p, x, y)
  IN /\ MayFree(swapped, x)
     /\ heap' = Deleted(swapped, x)
     /\ held' = held \ {y}

(* The replacement takes the key first, and keeps it when the object has   *)
(* no such member; without memory for the key it has none.                 *)
ReplaceItemInObject(p, n, y, sensitive, enough) ==
  LET x == GetObjectItem(heap, p, n, sensitive)
      h == [heap EXCEPT ![y].name = IF enough THEN n ELSE None]
  IN /\ heap[p].kind = "object"
     /\ \/ enough /\ x # None /\ Replace(h, p, x, y)
        \/ ~(enough /\ x # None) /\ heap' = h /\ held' = held

(* Without recursion the copy of a container is an empty one.              *)
Copied(x, recurse) == IF recurse THEN Paths(heap, x) ELSE {<<x>>}

Duplicate(x, recurse, new) ==
  LET paths == Copied(x, recurse)
  IN /\ IsInjective(new)
     /\ heap' = Extended(heap, Copy(heap, paths, new))
     /\ held' = held \cup {new[<<x>>]}

Copies(x, recurse) ==
  LET paths == Copied(x, recurse)
      free == Item \ Live
  IN IF free = {} \/ Cardinality(paths) > Cardinality(free) THEN {}
     ELSE [paths -> free]

Build ==
  \/ \E x \in Item \ Live :
       \/ \E v \in program.values : CreateValue(x, v)
       \/ \E k \in Kinds \ {"value"} : CreateContainer(x, k)
  \/ \E p \in Changeable, x \in held :
       /\ x \in Addable(p)
       /\ \/ AddItemToArray(p, x)
          \/ \E n \in program.names : AddItemToObject(p, n, x)

Change ==
  \/ \E v, w \in program.values, x, y, z \in Item \ Live :
       CreateArrayOf(<<v, w>>, <<x, y, z>>)
  \/ \E p \in Changeable :
       \/ \E x \in Addable(p) :
            \/ \E i \in 1..(Cardinality(Members(heap, p)) + 1) : InsertItemInArray(p, i, x)
            \/ \E y \in Members(heap, p) : Replace(heap, p, y, x)
            \/ \E n \in program.names, s, enough \in BOOLEAN :
                 ReplaceItemInObject(p, n, x, s, enough)
       \/ \E x \in Members(heap, p) : Detach(p, x) \/ DeleteItem(p, x)
       \/ \E n \in program.names, s \in BOOLEAN : DetachItemFromObject(p, n, s)
       \/ \E n \in program.names, x \in Item \ Live, k \in Kinds,
            v \in program.values \cup {None} : AddNewToObject(p, n, x, k, v)
       \/ \E y \in Reached, x \in Item \ Live, n \in program.names \cup {None},
            enough \in BOOLEAN : AddReference(p, n, y, x, enough)
  \/ \E y \in Reached, x \in Item \ Live : CreateReference(y, x)
  \/ \E x \in held : Delete(x)
  \/ \E x \in Reached, recurse \in BOOLEAN :
       \E new \in Copies(x, recurse) : Duplicate(x, recurse, new)

Next == /\ Build \/ (~program.onlyBuilds /\ Change)
        /\ UNCHANGED program

Spec == Init /\ [][Next]_vars
------------------------------------------------------------------------------
(* Properties.                                                             *)

TypeOK ==
  /\ program \in Program
  /\ Live \subseteq Item /\ heap \in [Live -> Cell]
  /\ held \subseteq Live

(* The pointers of every list agree: prev undoes next, and prev of the     *)
(* first member is the last one, where the next addition goes.             *)
ListsAreLinked ==
  \A p \in Reached : \A y \in Members(heap, p) : IsBefore(heap, p, heap[y].prev, y)

(* An item that is not freed is in the tree of an item a caller holds,     *)
(* except a reference whose key found no memory: cJSON_AddItemReference-   *)
(* ToObject loses it.                                                      *)
OnlyReferencesLeak == \A x \in Live \ Reached : heap[x].ref

(* Pointers of items a caller can come to are to items that are not freed. *)
NothingDangles ==
  \A x \in Reached :
    {heap[x].next, heap[x].prev, heap[x].child} \subseteq Live \cup {None}

(* After any sequence of calls, failing ones among them, what a caller can *)
(* follow from an item it holds is properly linked and has not been freed, *)
(* and nothing else is left but the references that a failed call loses.   *)
HeapIsSound == ListsAreLinked /\ OnlyReferencesLeak /\ NothingDangles
==============================================================================
