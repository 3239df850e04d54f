------------------------------ MODULE CJsonProofs ------------------------------
(***************************************************************************)
(* Theorems about the JSON of the controller: its items, for any number of *)
(* cells, keys and values and any program; the escapes in its texts, for   *)
(* any digits; and the ids that travel as its numbers, for any number and  *)
(* size of bytes.                                                          *)
(*                                                                         *)
(* Items.  HeapIsSound speaks of what callers can come to, by any number   *)
(* of pointers, and no step sees that far.  The invariant is local: there  *)
(* is a function owner that gives every item the container whose list it   *)
(* is in, or None, such that a pointer leads from an item to one of the    *)
(* same owner or from an owner to what it owns, next and prev undo each    *)
(* other, prev of the first has no next, every item with an owner is led   *)
(* to by one, and no items lead to one another in a circle (Trees); and    *)
(* what a reference that is not lost shows begins a list that is owned     *)
(* (References).  That there is no circle is what makes it inductive: it   *)
(* says that a list and a tree are left only at their ends.  A step then   *)
(* has to keep it only around the pointers it changes.                     *)
(*                                                                         *)
(* A copy is a heap of its own until the caller has it: the path that a    *)
(* new item stands for gives its owner, and that paths get shorter on the  *)
(* way up excludes circles.                                                *)
(*                                                                         *)
(* Ids and escapes.  What a loop over the bytes computes is shown by the   *)
(* least number of steps at which it would be wrong.                       *)
(***************************************************************************)
EXTENDS CJsonTree, CJsonUtf16, Identity, SequenceTheorems, FiniteSetTheorems,
        WellFoundedInduction, TLAPS

(* Of numbers there is a least: < is well-founded.                         *)
LEMMA LeastNumber ==
  ASSUME NEW T \in SUBSET Nat, T # {}
  PROVE  \E x \in T : \A y \in T : x <= y
<1> DEFINE R == {p \in Nat \X Nat : p[1] < p[2]}
<1>1. IsWellFoundedOn(R, Nat)
  <2>1. R = OpToRel(<, Nat) BY DEF OpToRel
  <2> QED BY <2>1, NatLessThanWellFounded
<1> HIDE DEF R
<1>2. PICK x \in T : \A y \in T : ~(<<y, x>> \in R) BY <1>1, WFMin
<1>3. ASSUME NEW y \in T PROVE x <= y
  <2>1. ~(y < x) BY <1>2 DEF R
  <2> QED BY <2>1
<1> QED BY <1>3
(* A property of the numbers up to N that holds of 0 and goes on holds of  *)
(* all of them.                                                            *)
LEMMA UpTo ==
  ASSUME NEW N \in Nat, NEW S \in SUBSET (0..N), 0 \in S,
         \A k \in 0..(N - 1) : k \in S => k + 1 \in S
  PROVE  S = 0..N
<1> DEFINE Missed == (0..N) \ S
<1> SUFFICES ASSUME Missed # {} PROVE FALSE OBVIOUS
<1>1. Missed \in SUBSET Nat OBVIOUS
<1>2. PICK k \in Missed : \A j \in Missed : k <= j BY <1>1, LeastNumber
<1>3. k \in 1..N /\ k \notin S OBVIOUS
<1>4. k - 1 \in 0..(N - 1) /\ (k - 1) + 1 = k /\ k - 1 \in 0..N /\ ~(k <= k - 1) BY <1>3
<1>5. k - 1 \in S BY <1>2, <1>4
<1> QED BY <1>3, <1>4, <1>5

------------------------------------------------------------------------------
(* Items: what is come to.                                                 *)

(* to tells of each item which others it leads on to.                      *)
LeadsOn(to) == \A z \in DOMAIN to : to[z] \subseteq DOMAIN to
Closed(to, S) == \A z \in S : to[z] \subseteq S

(* f are the sets that Reach goes through.                                 *)
Walks(f, to, x, high) ==
  /\ f = [n \in 0..high |-> f[n]] /\ f[0] = {x}
  /\ \A n \in 1..high : f[n] = f[n - 1] \cup UNION {to[z] : z \in f[n - 1]}

(* The steps of a walk are defined for each number of them.                *)
LEMMA ReachWalks ==
  ASSUME NEW to, NEW x
  PROVE  \E f : Walks(f, to, x, Cardinality(Item)) /\ Reach(to, x) = f[Cardinality(Item)]
<1> DEFINE N == Cardinality(Item)
           S == {k \in 0..N : \E f : Walks(f, to, x, k)}
           Body(f) == [n \in 0..N |->
                         IF n = 0 THEN {x}
                         ELSE f[n - 1] \cup UNION {to[z] : z \in f[n - 1]}]
           f0 == CHOOSE f : f = Body(f)
<1>0. N \in Nat BY ItemAssumption, FS_CardinalityType
<1>7. Reach(to, x) = f0[N] BY DEF Reach
<1> HIDE DEF N
<1>1. 0 \in S
  <2> DEFINE f == [n \in 0..0 |-> {x}]
  <2>1. Walks(f, to, x, 0) BY DEF Walks
  <2> HIDE DEF f
  <2> QED BY <2>1, <1>0
<1>2. ASSUME NEW k \in 0..(N - 1), k \in S PROVE k + 1 \in S
  <2>1. PICK f : Walks(f, to, x, k) BY <1>2
  <2> DEFINE g == [n \in 0..(k + 1) |->
                     IF n = k + 1 THEN f[k] \cup UNION {to[z] : z \in f[k]} ELSE f[n]]
  <2>2. k \in Nat /\ k + 1 \in 0..N BY <1>0
  <2>3. g = [n \in 0..(k + 1) |-> g[n]] OBVIOUS
  <2>4. g[0] = {x}
    <3>1. 0 \in 0..(k + 1) /\ 0 # k + 1 BY <2>2
    <3> QED BY <3>1, <2>1 DEF Walks
  <2>5. ASSUME NEW n \in 1..(k + 1)
        PROVE  g[n] = g[n - 1] \cup UNION {to[z] : z \in g[n - 1]}
    <3>1. n - 1 \in 0..(k + 1) /\ n - 1 # k + 1 /\ n \in 0..(k + 1) BY <2>2
    <3>2. g[n - 1] = f[n - 1] BY <3>1
    <3>3. CASE n = k + 1
      <4>1. n - 1 = k BY <2>2, <3>3
      <4>2. g[n] = f[k] \cup UNION {to[z] : z \in f[k]} BY <3>1, <3>3
      <4> HIDE DEF g
      <4> QED BY <4>1, <4>2, <3>2
    <3>4. CASE n # k + 1
      <4>1. n \in 1..k BY <2>2, <3>4
      <4>2. g[n] = f[n] BY <3>1, <3>4
      <4>3. f[n] = f[n - 1] \cup UNION {to[z] : z \in f[n - 1]} BY <4>1, <2>1 DEF Walks
      <4> HIDE DEF g
      <4> QED BY <4>2, <4>3, <3>2
    <3> QED BY <3>3, <3>4
  <2>6. Walks(g, to, x, k + 1)
    <3> HIDE DEF g
    <3> QED BY <2>3, <2>4, <2>5 DEF Walks
  <2> QED BY <2>2, <2>6
<1>3. S = 0..N
  <2> HIDE DEF S
  <2>1. S \in SUBSET (0..N) BY DEF S
  <2> QED BY <2>1, <1>0, <1>1, <1>2, UpTo
<1>4. PICK f : Walks(f, to, x, N)
  <2>1. N \in 0..N BY <1>0
  <2>2. N \in S BY <2>1, <1>3
  <2> QED BY <2>2
<1>5. f = Body(f)
  <2>1. \A n \in 0..N : n # 0 => n \in 1..N BY <1>0
  <2>2. \A n \in 0..N : f[n] = IF n = 0 THEN {x}
                               ELSE f[n - 1] \cup UNION {to[z] : z \in f[n - 1]}
    BY <2>1, <1>4 DEF Walks
  <2> QED BY <2>2, <1>4 DEF Walks
<1>6. f0 = Body(f0) BY <1>5
<1> HIDE DEF f0
<1>8. Walks(f0, to, x, N)
  <2>1. 0 \in 0..N /\ \A n \in 1..N : n \in 0..N /\ n # 0 BY <1>0
  <2>2. \A n \in 0..N : f0[n] = IF n = 0 THEN {x}
                                ELSE f0[n - 1] \cup UNION {to[z] : z \in f0[n - 1]}
    BY <1>6
  <2>3. f0 = [n \in 0..N |-> f0[n]] BY <1>6
  <2> QED BY <2>1, <2>2, <2>3 DEF Walks
<1> QED BY <1>7, <1>8 DEF N

(* What is come to has x and is in every closed set with x; and it is one,  *)
(* because a set that is not closed grows, and there are only so many       *)
(* items.                                                                   *)
LEMMA ReachIs ==
  ASSUME NEW to, LeadsOn(to), NEW x \in DOMAIN to
  PROVE  /\ x \in Reach(to, x) /\ Reach(to, x) \subseteq DOMAIN to
         /\ \A S \in SUBSET DOMAIN to : x \in S /\ Closed(to, S) => Reach(to, x) \subseteq S
         /\ DOMAIN to \subseteq Item => Closed(to, Reach(to, x))
<1> DEFINE N == Cardinality(Item)
<1>0. N \in Nat BY ItemAssumption, FS_CardinalityType
<1>1. PICK f : Walks(f, to, x, N) /\ Reach(to, x) = f[N] BY ReachWalks
<1>2. ASSUME NEW k \in 0..(N - 1)
      PROVE  k + 1 \in 0..N /\ f[k + 1] = f[k] \cup UNION {to[z] : z \in f[k]}
  <2>1. k + 1 \in 1..N /\ k + 1 \in 0..N /\ (k + 1) - 1 = k BY <1>0
  <2> QED BY <2>1, <1>1 DEF Walks
<1>3. f[0] = {x} /\ 0 \in 0..N /\ N \in 0..N BY <1>0, <1>1 DEF Walks
<1> HIDE DEF N
<1>4. ASSUME NEW S \in SUBSET DOMAIN to, x \in S, Closed(to, S)
      PROVE  \A k \in 0..N : f[k] \subseteq S
  <2> DEFINE T == {k \in 0..N : f[k] \subseteq S}
  <2>1. 0 \in T BY <1>3, <1>4
  <2>2. ASSUME NEW k \in 0..(N - 1), k \in T PROVE k + 1 \in T
    BY <2>2, <1>2, <1>4 DEF Closed
  <2>3. T = 0..N
    <3> HIDE DEF T
    <3>1. T \in SUBSET (0..N) BY DEF T
    <3> QED BY <3>1, <1>0, <2>1, <2>2, UpTo
  <2> QED BY <2>3
<1>5. \A k \in 0..N : f[k] \subseteq DOMAIN to BY <1>4 DEF LeadsOn, Closed
<1>6. x \in f[N]
  <2> DEFINE T == {k \in 0..N : x \in f[k]}
  <2>1. 0 \in T BY <1>3
  <2>2. ASSUME NEW k \in 0..(N - 1), k \in T PROVE k + 1 \in T BY <2>2, <1>2
  <2>3. T = 0..N
    <3> HIDE DEF T
    <3>1. T \in SUBSET (0..N) BY DEF T
    <3> QED BY <3>1, <1>0, <2>1, <2>2, UpTo
  <2> QED BY <2>3, <1>3
<1>7. ASSUME DOMAIN to \subseteq Item PROVE Closed(to, f[N])
  <2>1. ASSUME NEW k \in 0..N
        PROVE  /\ IsFiniteSet(f[k]) /\ Cardinality(f[k]) \in Nat /\ Cardinality(f[k]) <= N
    BY <1>5, <1>7, ItemAssumption, FS_Subset, FS_CardinalityType DEF N
  <2> DEFINE T == {k \in 0..N : Closed(to, f[k]) \/ Cardinality(f[k]) > k}
  <2>2. 0 \in T
    <3>1. Cardinality({x}) = 1 BY FS_Singleton
    <3> QED BY <3>1, <1>3
  <2>3. ASSUME NEW k \in 0..(N - 1), k \in T PROVE k + 1 \in T
    <3>1. k \in 0..N /\ k \in Nat BY <1>0
    <3>2. f[k] \subseteq f[k + 1] /\ k + 1 \in 0..N BY <1>2
    <3>3. CASE f[k + 1] = f[k]
      <4>1. Closed(to, f[k + 1])
        <5>1. \A z \in f[k] : to[z] \subseteq f[k] BY <1>2, <3>3
        <5> QED BY <5>1, <3>3 DEF Closed
      <4> QED BY <4>1, <3>2
    <3>4. CASE f[k + 1] # f[k]
      <4>1. ~Closed(to, f[k])
        <5>1. UNION {to[z] : z \in f[k]} \subseteq f[k] => f[k + 1] = f[k] BY <1>2
        <5> QED BY <5>1, <3>4 DEF Closed
      <4>2. Cardinality(f[k]) > k BY <4>1, <2>3
      <4>3. Cardinality(f[k]) <= Cardinality(f[k + 1]) /\ Cardinality(f[k]) # Cardinality(f[k + 1])
        BY <3>2, <3>4, <2>1, FS_Subset
      <4>4. Cardinality(f[k + 1]) > k + 1 BY <4>2, <4>3, <3>1, <3>2, <2>1
      <4> QED BY <4>4, <3>2
    <3> QED BY <3>3, <3>4
  <2>4. T = 0..N
    <3> HIDE DEF T
    <3>1. T \in SUBSET (0..N) BY DEF T
    <3> QED BY <3>1, <1>0, <2>2, <2>3, UpTo
  <2>5. Closed(to, f[N]) \/ Cardinality(f[N]) > N BY <2>4, <1>3
  <2> QED BY <2>5, <2>1, <1>0, <1>3
<1> QED BY <1>1, <1>3, <1>4, <1>5, <1>6, <1>7

(* What a kind of pointers leads on to.                                    *)
Stays(h, S, Leading(_, _)) == \A z \in S : Leading(h, z) \cap DOMAIN h \subseteq S

(* What follows an item: the smallest set with it that next stays in.      *)
LEMMA OnwardIs ==
  ASSUME NEW h, NEW x \in DOMAIN h
  PROVE  /\ x \in Onward(h, x) /\ Onward(h, x) \subseteq DOMAIN h
         /\ DOMAIN h \subseteq Item => Stays(h, Onward(h, x), Next1)
         /\ \A S \in SUBSET DOMAIN h : x \in S /\ Stays(h, S, Next1) => Onward(h, x) \subseteq S
<1> DEFINE to == [z \in DOMAIN h |-> Next1(h, z) \cap DOMAIN h]
<1>1. Onward(h, x) = Reach(to, x) BY DEF Onward, From
<1>2. DOMAIN to = DOMAIN h /\ LeadsOn(to) BY DEF LeadsOn
<1>3. \A S \in SUBSET DOMAIN h : Closed(to, S) <=> Stays(h, S, Next1) BY DEF Closed, Stays
<1> HIDE DEF to
<1> QED BY <1>1, <1>2, <1>3, ReachIs

(* What cJSON_Delete frees: the same for next and the lists that are owned.*)
LEMMA FreedIs ==
  ASSUME NEW h, NEW x \in DOMAIN h
  PROVE  /\ x \in Freed(h, x) /\ Freed(h, x) \subseteq DOMAIN h
         /\ DOMAIN h \subseteq Item => Stays(h, Freed(h, x), Owns)
         /\ \A S \in SUBSET DOMAIN h : x \in S /\ Stays(h, S, Owns) => Freed(h, x) \subseteq S
<1> DEFINE to == [z \in DOMAIN h |-> Owns(h, z) \cap DOMAIN h]
<1>1. Freed(h, x) = Reach(to, x) BY DEF Freed, From
<1>2. DOMAIN to = DOMAIN h /\ LeadsOn(to) BY DEF LeadsOn
<1>3. \A S \in SUBSET DOMAIN h : Closed(to, S) <=> Stays(h, S, Owns) BY DEF Closed, Stays
<1> HIDE DEF to
<1> QED BY <1>1, <1>2, <1>3, ReachIs

(* What a walk meets stays in next and child.                              *)
LEMMA ShownIs ==
  ASSUME NEW h, NEW x \in DOMAIN h
  PROVE  /\ x \in From(h, x, Shows) /\ From(h, x, Shows) \subseteq DOMAIN h
         /\ DOMAIN h \subseteq Item => Stays(h, From(h, x, Shows), Shows)
<1> DEFINE to == [z \in DOMAIN h |-> Shows(h, z) \cap DOMAIN h]
<1>1. From(h, x, Shows) = Reach(to, x) BY DEF From
<1>2. DOMAIN to = DOMAIN h /\ LeadsOn(to) BY DEF LeadsOn
<1>3. \A S \in SUBSET DOMAIN h : Closed(to, S) <=> Stays(h, S, Shows) BY DEF Closed, Stays
<1> HIDE DEF to
<1> QED BY <1>1, <1>2, <1>3, ReachIs

(* From no item of the heap nothing is come to, and only items of it.      *)
LEMMA FromIsOfHeap ==
  ASSUME NEW h, NEW x
  PROVE  /\ x \notin DOMAIN h => Onward(h, x) = {} /\ Freed(h, x) = {} /\ From(h, x, Shows) = {}
         /\ Onward(h, x) \subseteq DOMAIN h /\ Freed(h, x) \subseteq DOMAIN h
         /\ From(h, x, Shows) \subseteq DOMAIN h
<1>1. x \notin DOMAIN h => Onward(h, x) = {} /\ Freed(h, x) = {} /\ From(h, x, Shows) = {}
  BY DEF Onward, Freed, From
<1> QED BY <1>1, OnwardIs, FreedIs, ShownIs
-------------------------------------------------------------------------------
(* z leads to y in a tree: y comes after z or is the first that z owns.    *)
Leads(h, z, y) == h[z].next = y \/ (~h[z].ref /\ h[z].child = y)

(* The list that r shows begins with the first that some container owns.   *)
Shared(h, r) ==
  h[r].child # None =>
    /\ h[r].child \in DOMAIN h
    /\ \E q \in DOMAIN h : ~h[q].ref /\ h[q].child = h[r].child

(* The trees: owner is, of every item, the container whose list it is in,  *)
(* and None of the items in no list.                                       *)
Typed(h, hd, owner) ==
  /\ DOMAIN h \subseteq Item /\ h \in [DOMAIN h -> Cell]
  /\ hd \subseteq DOMAIN h /\ owner \in [DOMAIN h -> DOMAIN h \cup {None}]

(* An item in no list is held or a reference that was lost.                *)
RootsApart(h, hd, owner) ==
  /\ \A x \in hd : owner[x] = None
  /\ \A x \in DOMAIN h : owner[x] = None => /\ x \in hd \/ h[x].ref
                                            /\ h[x].next = None /\ h[x].prev = None

NextLinks(h, owner) ==
  \A z \in DOMAIN h : h[z].next # None =>
    /\ h[z].next \in DOMAIN h
    /\ owner[h[z].next] = owner[z] /\ owner[z] # None
    /\ h[h[z].next].prev = z

ChildLinks(h, owner) ==
  \A z \in DOMAIN h : ~h[z].ref /\ h[z].child # None =>
    /\ h[z].child \in DOMAIN h
    /\ owner[h[z].child] = z
    /\ h[h[z].child].prev \in DOMAIN h
    /\ owner[h[h[z].child].prev] = z
    /\ h[h[h[z].child].prev].next = None

(* What is in a list is reached through it.                                *)
Placed(h, owner) ==
  \A y \in DOMAIN h : owner[y] # None =>
    /\ ~h[owner[y]].ref
    /\ \E z \in DOMAIN h : Leads(h, z, y)

(* No item is led to by itself: there is no set of items of which each is  *)
(* led to by one of them.                                                  *)
NoCycle(h) ==
  \A S \in SUBSET DOMAIN h : (\A y \in S : \E z \in S : Leads(h, z, y)) => S = {}

Trees(h, hd, owner) ==
  /\ Typed(h, hd, owner) /\ RootsApart(h, hd, owner) /\ NextLinks(h, owner)
  /\ ChildLinks(h, owner) /\ Placed(h, owner) /\ NoCycle(h)

(* The references that are not lost.                                       *)
References(h, hd, owner) ==
  \A r \in DOMAIN h : h[r].ref /\ (r \in hd \/ owner[r] # None) => Shared(h, r)

Sound(h, hd, owner) == Trees(h, hd, owner) /\ References(h, hd, owner)

HeapOK == \E owner : Sound(heap, held, owner)
IInv == program \in Program /\ HeapOK
-------------------------------------------------------------------------------
(* The pointers of an item are to items or NULL, and NULL is no item.      *)
LEMMA CellType ==
  ASSUME NEW h, NEW hd, NEW owner, Typed(h, hd, owner), NEW x \in DOMAIN h
  PROVE  /\ h[x] \in Cell /\ h[x].next \in Item \cup {None} /\ h[x].prev \in Item \cup {None}
         /\ h[x].child \in Item \cup {None} /\ h[x].ref \in BOOLEAN
         /\ x \in Item /\ x # None
BY NoneAssumption DEF Typed, Cell

(* What leads to an item is its owner or in the same list.                 *)
LEMMA LeadsInList ==
  ASSUME NEW h, NEW hd, NEW owner, Trees(h, hd, owner),
         NEW z \in DOMAIN h, NEW y \in DOMAIN h, Leads(h, z, y)
  PROVE  owner[y] # None /\ (owner[y] = z \/ owner[y] = owner[z])
<1>1. y # None /\ z # None BY CellType DEF Trees
<1> QED BY <1>1 DEF Trees, Leads, NextLinks, ChildLinks

(* Everything in the list of p is come to from p.                          *)
LEMMA ListInClosed ==
  ASSUME NEW h, NEW hd, NEW owner, Trees(h, hd, owner), NEW p \in DOMAIN h,
         NEW S \in SUBSET DOMAIN h, p \in S, Stays(h, S, Owns)
  PROVE  \A y \in DOMAIN h : owner[y] = p => y \in S
<1> DEFINE B == {y \in DOMAIN h : owner[y] = p /\ y \notin S}
<1>1. ASSUME NEW y \in B PROVE \E z \in B : Leads(h, z, y)
  <2>1. p # None BY CellType DEF Trees
  <2>2. PICK z \in DOMAIN h : Leads(h, z, y) BY <2>1 DEF Trees, Placed
  <2>3. y \in Owns(h, z) BY <2>2 DEF Leads, Owns
  <2>4. z \notin S BY <2>3 DEF Stays
  <2>5. owner[z] = p BY <2>2, <2>4, LeadsInList
  <2> QED BY <2>2, <2>4, <2>5
<1>2. B = {} BY <1>1 DEF Trees, NoCycle
<1> QED BY <1>2

(* The members of a container are the items it is the owner of.            *)
LEMMA MembersAre ==
  ASSUME NEW h, NEW hd, NEW owner, Trees(h, hd, owner), NEW p \in DOMAIN h, ~h[p].ref
  PROVE  Members(h, p) = {y \in DOMAIN h : owner[y] = p}
<1> DEFINE c == h[p].child  L == {y \in DOMAIN h : owner[y] = p}
<1>0. p # None BY CellType DEF Trees
<1>1. CASE c = None
  <2>1. c \notin DOMAIN h BY <1>1, CellType DEF Trees
  <2>2. Members(h, p) = {} BY <2>1, FromIsOfHeap DEF Members
  <2>3. ASSUME NEW y \in L PROVE \E z \in L : Leads(h, z, y)
    <3>1. PICK z \in DOMAIN h : Leads(h, z, y) BY <1>0 DEF Trees, Placed
    <3>2. z # p \/ owner[y] = owner[z]
      <4>1. CASE h[z].next = y BY <4>1, CellType DEF Trees, NextLinks
      <4>2. CASE h[z].next # y
        <5>1. h[z].child = y /\ y # None BY <3>1, <4>2, CellType DEF Leads, Trees
        <5> QED BY <5>1, <1>1
      <4> QED BY <4>1, <4>2
    <3>3. owner[z] = p BY <3>1, <3>2, LeadsInList
    <3> QED BY <3>1, <3>3
  <2>4. L = {} BY <2>3 DEF Trees, NoCycle
  <2> QED BY <2>2, <2>4
<1>2. CASE c # None
  <2>1. c \in DOMAIN h /\ owner[c] = p BY <1>2 DEF Trees, ChildLinks
  <2>2. Stays(h, L, Next1)
    <3>1. ASSUME NEW z \in L, h[z].next \in DOMAIN h PROVE h[z].next \in L
      <4>1. h[z].next # None BY <3>1, CellType DEF Trees
      <4> QED BY <3>1, <4>1 DEF Trees, NextLinks
    <3> QED BY <3>1 DEF Stays, Next1
  <2>3. Members(h, p) \subseteq L BY <2>1, <2>2, OnwardIs DEF Members
  <2> DEFINE B == L \ Members(h, p)
  <2>4. ASSUME NEW y \in B PROVE \E z \in B : Leads(h, z, y)
    <3>1. PICK z \in DOMAIN h : Leads(h, z, y) BY <1>0 DEF Trees, Placed
    <3>2. y # c BY <2>1, OnwardIs DEF Members
    <3>3. h[z].next = y
      <4>1. CASE h[z].next # y
        <5>1. ~h[z].ref /\ h[z].child = y /\ y # None BY <3>1, <4>1, CellType DEF Leads, Trees
        <5>2. owner[y] = z BY <5>1 DEF Trees, ChildLinks
        <5> QED BY <5>1, <5>2, <3>2
      <4> QED BY <4>1
    <3>4. owner[z] = p
      <4>1. h[z].next # None BY <3>3, CellType DEF Trees
      <4> QED BY <3>3, <4>1 DEF Trees, NextLinks
    <3>5. z \notin Members(h, p)
      <4>1. DOMAIN h \subseteq Item BY DEF Trees, Typed
      <4> QED BY <2>1, <3>3, <4>1, OnwardIs DEF Members, Stays, Next1
    <3> QED BY <3>1, <3>4, <3>5
  <2>5. B = {} BY <2>4 DEF Trees, NoCycle
  <2> QED BY <2>3, <2>5
<1> QED BY <1>1, <1>2
-------------------------------------------------------------------------------
Kept(h, hd, owner) == {y \in DOMAIN h : y \in hd \/ owner[y] # None}

(* Callers come to the items they hold and to those in a list, no others.  *)
LEMMA ReachedAre ==
  ASSUME NEW owner, Trees(heap, held, owner)
  PROVE  Reached = Kept(heap, held, owner)
<1> DEFINE K == Kept(heap, held, owner)
<1>1. ASSUME NEW x \in held PROVE Freed(heap, x) \subseteq K
  <2>1. x \in DOMAIN heap BY DEF Trees, Typed
  <2>2. ASSUME NEW z \in K, NEW y \in DOMAIN heap, y \in Owns(heap, z) PROVE y \in K
    <3>1. Leads(heap, z, y) BY <2>2 DEF Owns, Leads
    <3> QED BY <3>1, <2>2, LeadsInList DEF Kept
  <2>3. Stays(heap, K, Owns) BY <2>2 DEF Stays
  <2>4. x \in K /\ K \in SUBSET DOMAIN heap BY <2>1 DEF Kept
  <2> HIDE DEF K
  <2> QED BY <2>1, <2>3, <2>4, FreedIs
<1>2. Reached \subseteq K BY <1>1 DEF Reached
<1> DEFINE B == K \ Reached
<1>3. ASSUME NEW y \in B PROVE \E z \in B : Leads(heap, z, y)
  <2>1. y \in DOMAIN heap /\ y \notin held
    <3>1. y \in held => y \in Freed(heap, y) BY FreedIs DEF Trees, Typed
    <3> QED BY <3>1 DEF Kept, Reached
  <2>2. PICK z \in DOMAIN heap : Leads(heap, z, y) BY <2>1 DEF Kept, Trees, Placed
  <2>3. z \notin Reached
    <3>1. ASSUME NEW x \in held, z \in Freed(heap, x) PROVE y \in Reached
      <4>1. y \in Owns(heap, z) BY <2>2 DEF Leads, Owns
      <4>2. x \in DOMAIN heap /\ DOMAIN heap \subseteq Item BY DEF Trees, Typed
      <4>3. y \in Freed(heap, x) BY <4>1, <4>2, <3>1, <2>1, FreedIs DEF Stays
      <4> QED BY <4>3 DEF Reached
    <3> QED BY <3>1 DEF Reached
  <2>4. z \in K
    <3>1. CASE heap[z].next = y
      <4>1. y # None BY <2>1, CellType DEF Trees
      <4> QED BY <3>1, <4>1 DEF Trees, NextLinks, Kept
    <3>2. CASE heap[z].next # y
      <4>1. ~heap[z].ref BY <3>2, <2>2 DEF Leads
      <4> QED BY <4>1 DEF Trees, RootsApart, Kept
    <3> QED BY <3>1, <3>2
  <2> QED BY <2>2, <2>3, <2>4
<1>4. B = {}
  <2>1. B \in SUBSET DOMAIN heap BY DEF Kept
  <2> HIDE DEF B
  <2> QED BY <2>1, <1>3 DEF Trees, NoCycle
<1> QED BY <1>2, <1>4

(* The list that p shows is the one of a container that owns it.           *)
LEMMA ListIsOwned ==
  ASSUME NEW h, NEW hd, NEW owner, Sound(h, hd, owner),
         NEW p \in Kept(h, hd, owner), h[p].child # None
  PROVE  \E q \in DOMAIN h : /\ ~h[q].ref /\ h[q].child = h[p].child
                             /\ Members(h, p) = {y \in DOMAIN h : owner[y] = q}
<1>1. p \in DOMAIN h BY DEF Kept
<1>2. PICK q \in DOMAIN h : ~h[q].ref /\ h[q].child = h[p].child
  <2>1. CASE h[p].ref BY <2>1, <1>1 DEF Sound, References, Shared, Kept
  <2>2. CASE ~h[p].ref BY <2>2, <1>1
  <2> QED BY <2>1, <2>2
<1>3. Members(h, p) = Members(h, q) BY <1>2 DEF Members
<1> QED BY <1>2, <1>3, MembersAre DEF Sound

(* In every list that is come to, prev undoes next.                        *)
LEMMA SoundLists ==
  ASSUME NEW h, NEW hd, NEW owner, Sound(h, hd, owner),
         NEW p \in Kept(h, hd, owner), NEW y \in Members(h, p)
  PROVE  IsBefore(h, p, h[y].prev, y) /\ y \in DOMAIN h
<1> USE DEF Sound
<1>1. h[p].child # None
  <2>1. h[p].child \in DOMAIN h BY FromIsOfHeap DEF Members
  <2> QED BY <2>1, CellType DEF Trees
<1>2. PICK q \in DOMAIN h : /\ ~h[q].ref /\ h[q].child = h[p].child
                            /\ Members(h, p) = {z \in DOMAIN h : owner[z] = q}
  BY <1>1, ListIsOwned
<1>3. y \in DOMAIN h /\ owner[y] = q /\ q # None BY <1>2, CellType DEF Trees
<1>4. CASE y = h[p].child
  <2>1. /\ h[y].prev \in DOMAIN h /\ owner[h[y].prev] = q /\ h[h[y].prev].next = None
    BY <1>1, <1>2, <1>4 DEF Trees, ChildLinks
  <2> QED BY <2>1, <1>2, <1>3, <1>4 DEF IsBefore
<1>5. CASE y # h[p].child
  <2>1. PICK z \in DOMAIN h : Leads(h, z, y) BY <1>3 DEF Trees, Placed
  <2>2. h[z].next = y
    <3>1. CASE ~h[z].ref /\ h[z].child = y
      <4>1. h[z].child # None BY <3>1, <1>3, CellType DEF Trees
      <4>2. z = q BY <3>1, <4>1, <1>3 DEF Trees, ChildLinks
      <4> QED BY <3>1, <4>2, <1>2, <1>5
    <3> QED BY <3>1, <2>1 DEF Leads
  <2>3. h[z].next # None BY <2>2, <1>3, CellType DEF Trees
  <2>4. owner[z] = q /\ h[y].prev = z BY <2>2, <2>3, <1>3 DEF Trees, NextLinks
  <2> QED BY <2>2, <2>4, <1>2, <1>3, <1>5 DEF IsBefore
<1> QED BY <1>4, <1>5

(* The invariant says what HeapIsSound says.                               *)
LEMMA SoundHeap ==
  ASSUME NEW owner, Sound(heap, held, owner)
  PROVE  HeapIsSound
<1> USE DEF Sound
<1>0. Reached = Kept(heap, held, owner) BY ReachedAre
<1>1. ListsAreLinked BY <1>0, SoundLists DEF ListsAreLinked
<1>2. OnlyReferencesLeak
  <2>1. \A x \in Live \ Reached : owner[x] = None /\ x \notin held BY <1>0 DEF Kept, Live
  <2> QED BY <2>1 DEF OnlyReferencesLeak, Live, Trees, RootsApart
<1>3. NothingDangles
  <2> SUFFICES ASSUME NEW x \in Kept(heap, held, owner)
               PROVE  {heap[x].next, heap[x].prev, heap[x].child} \subseteq DOMAIN heap \cup {None}
    BY <1>0 DEF NothingDangles, Live
  <2>0. x \in DOMAIN heap BY DEF Kept
  <2>1. heap[x].next \in DOMAIN heap \cup {None} BY <2>0 DEF Trees, NextLinks
  <2>2. heap[x].child \in DOMAIN heap \cup {None}
    <3>1. CASE heap[x].ref BY <3>1, <2>0 DEF References, Shared, Kept
    <3>2. CASE ~heap[x].ref BY <3>2, <2>0 DEF Trees, ChildLinks
    <3> QED BY <3>1, <3>2
  <2>3. heap[x].prev \in DOMAIN heap \cup {None}
    <3>1. CASE owner[x] = None BY <3>1, <2>0 DEF Trees, RootsApart
    <3>2. CASE owner[x] # None
      <4>1. PICK z \in DOMAIN heap : Leads(heap, z, x) BY <2>0, <3>2 DEF Trees, Placed
      <4>2. x # None BY <2>0, CellType DEF Trees
      <4>3. CASE heap[z].next = x BY <4>2, <4>3 DEF Trees, NextLinks
      <4>4. CASE ~heap[z].ref /\ heap[z].child = x BY <4>2, <4>4 DEF Trees, ChildLinks
      <4> QED BY <4>1, <4>3, <4>4 DEF Leads
    <3> QED BY <3>1, <3>2
  <2> QED BY <2>1, <2>2, <2>3
<1> QED BY <1>1, <1>2, <1>3 DEF HeapIsSound
-------------------------------------------------------------------------------
(* New items beside those there are.                                       *)
LEMMA ExtendedIs ==
  ASSUME NEW h, NEW g, DOMAIN h \cap DOMAIN g = {}
  PROVE  /\ DOMAIN Extended(h, g) = DOMAIN h \cup DOMAIN g
         /\ \A x \in DOMAIN h : Extended(h, g)[x] = h[x]
         /\ \A x \in DOMAIN g : Extended(h, g)[x] = g[x]
BY DEF Extended

(* Of two heaps, one of which a caller sees as it was before.              *)
LEMMA OneSide ==
  ASSUME NEW h, NEW hd, NEW owner, Trees(h, hd, owner),
         NEW u, DOMAIN h \subseteq DOMAIN u, None \notin DOMAIN u, \A x \in DOMAIN h : u[x] = h[x],
         NEW z \in DOMAIN h, NEW y \in DOMAIN u, Leads(u, z, y)
  PROVE  y \in DOMAIN h /\ Leads(h, z, y)
<1>1. Leads(h, z, y) BY DEF Leads
<1>2. y # None OBVIOUS
<1> QED BY <1>1, <1>2 DEF Leads, Trees, NextLinks, ChildLinks

(* Trees that share no cell are trees when taken together.                 *)
LEMMA TreesTogether ==
  ASSUME NEW h, NEW hd, NEW owner, Trees(h, hd, owner),
         NEW g, NEW gd, NEW owning, Trees(g, gd, owning), DOMAIN h \cap DOMAIN g = {}
  PROVE  Trees(Extended(h, g), hd \cup gd, Extended(owner, owning))
<1> DEFINE u == Extended(h, g)  o == Extended(owner, owning)  all == hd \cup gd
<1>0. DOMAIN owner = DOMAIN h /\ DOMAIN owning = DOMAIN g BY DEF Trees, Typed
<1>1. /\ DOMAIN u = DOMAIN h \cup DOMAIN g /\ \A x \in DOMAIN h : u[x] = h[x]
      /\ \A x \in DOMAIN g : u[x] = g[x]
  BY ZenonT(40), ExtendedIs
<1>2. /\ DOMAIN o = DOMAIN u /\ \A x \in DOMAIN h : o[x] = owner[x]
      /\ \A x \in DOMAIN g : o[x] = owning[x]
  <2>0. DOMAIN owner \cap DOMAIN owning = {} BY <1>0
  <2>1. /\ DOMAIN o = DOMAIN owner \cup DOMAIN owning
        /\ \A x \in DOMAIN owner : o[x] = owner[x]
        /\ \A x \in DOMAIN owning : o[x] = owning[x]
    BY ONLY ZenonT(40), <2>0, ExtendedIs
  <2> HIDE DEF u, o
  <2> QED BY <2>1, <1>0, <1>1
<1>3. Typed(u, all, o)
  <2>1. DOMAIN u \subseteq Item /\ all \subseteq DOMAIN u BY <1>1 DEF Trees, Typed
  <2>2. u \in [DOMAIN u -> Cell] BY <1>1 DEF Extended, Trees, Typed
  <2>3. o \in [DOMAIN u -> DOMAIN u \cup {None}] BY <1>0, <1>1, <1>2 DEF Extended, Trees, Typed
  <2> QED BY <2>1, <2>2, <2>3 DEF Typed
<1> HIDE DEF u, o
<1>4. RootsApart(u, all, o)
  <2>1. \A x \in all : o[x] = None BY <1>1, <1>2 DEF Trees, RootsApart, Typed
  <2>2. \A x \in DOMAIN u : o[x] = None =>
          (x \in all \/ u[x].ref) /\ u[x].next = None /\ u[x].prev = None
    BY <1>1, <1>2 DEF Trees, RootsApart
  <2> QED BY <2>1, <2>2 DEF RootsApart
<1>5. NextLinks(u, o) BY <1>1, <1>2 DEF Trees, NextLinks
<1>6. ChildLinks(u, o) BY <1>1, <1>2 DEF Trees, ChildLinks
<1>7. Placed(u, o)
  <2> SUFFICES ASSUME NEW y \in DOMAIN u, o[y] # None
               PROVE  ~u[o[y]].ref /\ \E z \in DOMAIN u : Leads(u, z, y)
    BY DEF Placed
  <2>1. CASE y \in DOMAIN h
    <3>1. owner[y] # None /\ owner[y] \in DOMAIN h BY <2>1, <1>2 DEF Trees, Typed
    <3>2. PICK z \in DOMAIN h : Leads(h, z, y) BY <2>1, <3>1 DEF Trees, Placed
    <3>3. ~h[owner[y]].ref BY <2>1, <3>1 DEF Trees, Placed
    <3> QED BY <2>1, <3>1, <3>2, <3>3, <1>1, <1>2 DEF Leads
  <2>2. CASE y \in DOMAIN g
    <3>1. owning[y] # None /\ owning[y] \in DOMAIN g BY <2>2, <1>2 DEF Trees, Typed
    <3>2. PICK z \in DOMAIN g : Leads(g, z, y) BY <2>2, <3>1 DEF Trees, Placed
    <3>3. ~g[owning[y]].ref BY <2>2, <3>1 DEF Trees, Placed
    <3> QED BY <2>2, <3>1, <3>2, <3>3, <1>1, <1>2 DEF Leads
  <2> QED BY <2>1, <2>2, <1>1
<1>8. NoCycle(u)
  <2> SUFFICES ASSUME NEW S \in SUBSET DOMAIN u, \A y \in S : \E z \in S : Leads(u, z, y)
               PROVE  S = {}
    BY DEF NoCycle
  <2>0. None \notin DOMAIN u BY <1>3, NoneAssumption DEF Typed
  <2>1. \A z \in DOMAIN h, y \in DOMAIN u : Leads(u, z, y) => y \in DOMAIN h /\ Leads(h, z, y)
    BY <2>0, <1>1, OneSide
  <2>2. \A z \in DOMAIN g, y \in DOMAIN u : Leads(u, z, y) => y \in DOMAIN g /\ Leads(g, z, y)
    BY <2>0, <1>1, OneSide
  <2>3. S \cap DOMAIN h = {}
    <3>1. ASSUME NEW y \in S \cap DOMAIN h PROVE \E z \in S \cap DOMAIN h : Leads(h, z, y)
      BY <1>1, <2>1, <2>2
    <3> QED BY <3>1 DEF Trees, NoCycle
  <2>4. S \cap DOMAIN g = {}
    <3>1. ASSUME NEW y \in S \cap DOMAIN g PROVE \E z \in S \cap DOMAIN g : Leads(g, z, y)
      BY <1>1, <2>1, <2>2
    <3> QED BY <3>1 DEF Trees, NoCycle
  <2> QED BY <2>3, <2>4, <1>1
<1> QED BY <1>3, <1>4, <1>5, <1>6, <1>7, <1>8 DEF Trees, u, o

(* So are their references, if the new items have none.                    *)
LEMMA SoundTogether ==
  ASSUME NEW h, NEW hd, NEW owner, Sound(h, hd, owner),
         NEW g, NEW gd, NEW owning, Trees(g, gd, owning), DOMAIN h \cap DOMAIN g = {},
         \A r \in DOMAIN g : g[r].ref /\ (r \in gd \/ owning[r] # None) => Shared(Extended(h, g), r)
  PROVE  Sound(Extended(h, g), hd \cup gd, Extended(owner, owning))
<1> DEFINE u == Extended(h, g)  o == Extended(owner, owning)  all == hd \cup gd
<1>0. DOMAIN owner = DOMAIN h /\ DOMAIN owning = DOMAIN g BY DEF Sound, Trees, Typed
<1>1. /\ DOMAIN u = DOMAIN h \cup DOMAIN g /\ \A x \in DOMAIN h : u[x] = h[x]
      /\ \A x \in DOMAIN g : u[x] = g[x]
  BY ExtendedIs
<1>2. /\ DOMAIN o = DOMAIN u /\ \A x \in DOMAIN h : o[x] = owner[x]
      /\ \A x \in DOMAIN g : o[x] = owning[x]
  <2>0. DOMAIN owner \cap DOMAIN owning = {} BY <1>0
  <2>1. /\ DOMAIN o = DOMAIN owner \cup DOMAIN owning
        /\ \A x \in DOMAIN owner : o[x] = owner[x]
        /\ \A x \in DOMAIN owning : o[x] = owning[x]
    BY ONLY <2>0, ExtendedIs
  <2> HIDE DEF u, o
  <2> QED BY <2>1, <1>0, <1>1
<1>3. Trees(u, all, o) BY TreesTogether DEF Sound
<1>4. hd \subseteq DOMAIN h /\ gd \subseteq DOMAIN g BY DEF Sound, Trees, Typed
<1> HIDE DEF u, o
<1>5. ASSUME NEW r \in DOMAIN u, u[r].ref, r \in all \/ o[r] # None PROVE Shared(u, r)
  <2>1. CASE r \in DOMAIN h
    <3>1. h[r].ref /\ (r \in hd \/ owner[r] # None) BY <2>1, <1>1, <1>2, <1>4, <1>5
    <3>2. Shared(h, r) BY <2>1, <3>1 DEF Sound, References
    <3> QED BY <2>1, <3>2, <1>1 DEF Shared
  <2>2. CASE r \in DOMAIN g BY <2>2, <1>1, <1>2, <1>4, <1>5 DEF u
  <2> QED BY <2>1, <2>2, <1>1
<1>6. References(u, all, o) BY <1>5 DEF References
<1> QED BY <1>3, <1>6 DEF Sound, u, o

(* A new item without pointers to its neighbours is a tree.                *)
LEMMA OneCell ==
  ASSUME NEW x \in Item, NEW c \in Cell, c.next = None, c.prev = None,
         c.ref \/ c.child = None, NEW gd \in SUBSET {x}, x \in gd \/ c.ref
  PROVE  Trees([y \in {x} |-> c], gd, [y \in {x} |-> None])
<1> DEFINE g == [y \in {x} |-> c]  o == [y \in {x} |-> None]
<1>0. x # None BY NoneAssumption
<1>1. Typed(g, gd, o) BY DEF Typed
<1>2. RootsApart(g, gd, o) BY DEF RootsApart
<1>3. NextLinks(g, o) /\ ChildLinks(g, o) /\ Placed(g, o) BY DEF NextLinks, ChildLinks, Placed
<1>4. NoCycle(g) BY <1>0 DEF NoCycle, Leads
<1> QED BY <1>1, <1>2, <1>3, <1>4 DEF Trees

(* One new item, in no list.                                               *)
With(h, x, c) == Extended(h, [y \in {x} |-> c])

(* An item that was just made, or lost at once if it is a reference.       *)
LEMMA NewItem ==
  ASSUME NEW h, NEW hd, NEW owner, Sound(h, hd, owner), NEW x \in Item \ DOMAIN h,
         NEW c \in Cell, c.next = None, c.prev = None, ~c.ref => c.child = None,
         NEW gd \in SUBSET {x}, x \in gd \/ c.ref,
         x \in gd /\ c.child # None =>
           c.child \in DOMAIN h /\ \E q \in DOMAIN h : ~h[q].ref /\ h[q].child = c.child
  PROVE  Sound(With(h, x, c), hd \cup gd, Extended(owner, [y \in {x} |-> None]))
<1> DEFINE g == [y \in {x} |-> c]  u == Extended(h, g)
<1>1. DOMAIN g = {x} /\ DOMAIN h \cap DOMAIN g = {} /\ g[x] = c OBVIOUS
<1>2. With(h, x, c) = u BY DEF With
<1>3. Trees(g, gd, [y \in {x} |-> None]) BY OneCell DEF Cell
<1>4. ASSUME x \in gd PROVE Shared(u, x)
  <2>1. /\ DOMAIN u = DOMAIN h \cup DOMAIN g /\ \A y \in DOMAIN h : u[y] = h[y]
        /\ \A y \in DOMAIN g : u[y] = g[y]
    BY ZenonT(40), <1>1, ExtendedIs
  <2> HIDE DEF u, g
  <2> QED BY <1>1, <1>4, <2>1 DEF Shared
<1>5. \A r \in DOMAIN g : g[r].ref /\ (r \in gd \/ [y \in {x} |-> None][r] # None) => Shared(u, r)
  BY <1>4
<1> HIDE DEF g
<1> QED BY <1>1, <1>2, <1>3, <1>5, SoundTogether DEF u
-------------------------------------------------------------------------------
(* The same, when the caller has a pointer to it.                          *)
LEMMA NewHeldItem ==
  ASSUME NEW h, NEW hd, NEW owner, Sound(h, hd, owner), NEW x \in Item \ DOMAIN h,
         NEW c \in Cell, c.next = None, c.prev = None, ~c.ref => c.child = None,
         c.child # None =>
           c.child \in DOMAIN h /\ \E q \in DOMAIN h : ~h[q].ref /\ h[q].child = c.child
  PROVE  Sound(With(h, x, c), hd \cup {x}, Extended(owner, [y \in {x} |-> None]))
<1> DEFINE gd == {x}
<1>1. gd \in SUBSET {x} /\ x \in gd OBVIOUS
<1> HIDE DEF gd
<1>2. Sound(With(h, x, c), hd \cup gd, Extended(owner, [y \in {x} |-> None])) BY <1>1, NewItem
<1> QED BY <1>2 DEF gd

(* Each item that is freed, but the first one, is led to by another.       *)
LEMMA FreedIsLedTo ==
  ASSUME NEW h, DOMAIN h \subseteq Item, NEW x \in DOMAIN h, NEW y \in Freed(h, x), y # x
  PROVE  \E z \in Freed(h, x) : Leads(h, z, y)
<1> SUFFICES ASSUME \A z \in Freed(h, x) : ~Leads(h, z, y) PROVE FALSE OBVIOUS
<1> DEFINE F == Freed(h, x)
<1>1. ASSUME NEW z \in F \ {y}, NEW w \in Owns(h, z) \cap DOMAIN h PROVE w \in F \ {y}
  <2>1. w \in F BY <1>1, FreedIs DEF Stays
  <2>2. w # y BY <1>1 DEF Owns, Leads
  <2> QED BY <2>1, <2>2
<1>2. Stays(h, F \ {y}, Owns) BY <1>1 DEF Stays
<1>3. x \in F \ {y} /\ F \ {y} \in SUBSET DOMAIN h BY FreedIs
<1>4. F \subseteq F \ {y}
  <2> HIDE DEF F
  <2> QED BY <1>2, <1>3, FreedIs DEF F
<1> QED BY <1>4

(* The owner of what is freed with an item in no list is freed too.        *)
LEMMA OwnerIsFreed ==
  ASSUME NEW h, NEW hd, NEW owner, Trees(h, hd, owner), NEW x \in DOMAIN h, owner[x] = None,
         NEW y \in Freed(h, x), owner[y] # None
  PROVE  owner[y] \in Freed(h, x)
<1> DEFINE F == Freed(h, x)  p == owner[y]  B == {b \in F : owner[b] = p}
<1> SUFFICES ASSUME p \notin F PROVE FALSE OBVIOUS
<1>0. F \subseteq DOMAIN h /\ DOMAIN h \subseteq Item BY FreedIs DEF Trees, Typed
<1>1. ASSUME NEW b \in B PROVE \E z \in B : Leads(h, z, b)
  <2>1. PICK z \in F : Leads(h, z, b) BY <1>0, <1>1, FreedIsLedTo
  <2>2. owner[b] = z \/ owner[b] = owner[z] BY <1>0, <2>1, LeadsInList
  <2> QED BY <2>1, <2>2
<1>2. B = {}
  <2>1. B \in SUBSET DOMAIN h BY <1>0
  <2> HIDE DEF B
  <2> QED BY <1>1, <2>1 DEF Trees, NoCycle
<1> QED BY <1>2

(* cJSON_Delete of an item in no list whose lists no reference left shares.*)
LEMMA DeletedSound ==
  ASSUME NEW h, NEW hd, NEW owner, Sound(h, hd, owner), NEW x \in hd,
         \A r \in Kept(h, hd, owner) \ Freed(h, x) : h[r].ref => h[r].child \notin Freed(h, x)
  PROVE  Sound(Deleted(h, x), hd \ {x}, [y \in DOMAIN h \ Freed(h, x) |-> owner[y]])
<1> DEFINE F == Freed(h, x)  D == DOMAIN h \ F  g == Deleted(h, x)
           o == [y \in D |-> owner[y]]  gd == hd \ {x}
<1>1. x \in DOMAIN h /\ owner[x] = None /\ DOMAIN h \subseteq Item
  BY DEF Sound, Trees, Typed, RootsApart
<1>2. F \subseteq DOMAIN h /\ x \in F BY <1>1, FreedIs
<1>3. \A z \in D, y \in D : Leads(h, z, y) <=> Leads(g, z, y)
  BY DEF Leads, Deleted, Restricted
<1>4. DOMAIN g = D /\ \A y \in D : g[y] = h[y] BY DEF Deleted, Restricted
<1>5. DOMAIN o = D /\ \A y \in D : o[y] = owner[y] OBVIOUS
<1>6. ASSUME NEW y \in DOMAIN h, owner[y] # None PROVE owner[y] \in F <=> y \in F
  <2>1. owner[y] \in DOMAIN h BY <1>6 DEF Sound, Trees, Typed
  <2>2. owner[y] \in F => y \in F BY <1>1, <1>2, <2>1, ListInClosed, FreedIs DEF Sound
  <2>3. y \in F => owner[y] \in F BY <1>1, <1>6, OwnerIsFreed DEF Sound
  <2> QED BY <2>2, <2>3
<1>7. ASSUME NEW z \in DOMAIN h, NEW y \in D, Leads(h, z, y) PROVE z \in D
  <2>1. y \in Owns(h, z) BY <1>7 DEF Leads, Owns
  <2> QED BY <2>1, <1>1, FreedIs DEF Stays
<1>8. Typed(g, gd, o)
  <2>1. ASSUME NEW y \in gd PROVE y \in D
    <3>1. y \in DOMAIN h /\ owner[y] = None BY DEF Sound, Trees, Typed, RootsApart
    <3>2. ASSUME y \in F PROVE FALSE
      <4>1. PICK z \in F : Leads(h, z, y) BY <1>1, <3>2, FreedIsLedTo
      <4> QED BY <4>1, <3>1, <1>2, LeadsInList DEF Sound
    <3> QED BY <3>1, <3>2
  <2>2. g \in [D -> Cell] BY DEF Deleted, Restricted, Sound, Trees, Typed
  <2>3. o \in [D -> D \cup {None}] BY <1>6 DEF Sound, Trees, Typed
  <2> HIDE DEF g, o, gd
  <2> QED BY <2>1, <2>2, <2>3, <1>4 DEF Typed, Sound, Trees
<1> HIDE DEF g, o, D, F
<1>9. RootsApart(g, gd, o)
  <2>1. gd \subseteq D BY <1>4, <1>8 DEF Typed
  <2> QED BY <2>1, <1>2, <1>4, <1>5 DEF RootsApart, Sound, Trees, D
<1>10. ASSUME NEW y \in DOMAIN h, NEW z \in D, owner[y] # None, owner[y] = z \/ owner[y] = owner[z]
       PROVE  y \in D
  <2>1. z \in DOMAIN h /\ z \notin F BY DEF D
  <2>2. owner[y] \notin F BY <1>6, <1>10, <2>1
  <2> QED BY <1>6, <1>10, <2>2 DEF D
<1>11. NextLinks(g, o)
  <2> SUFFICES ASSUME NEW z \in D, h[z].next # None
               PROVE  /\ h[z].next \in D /\ o[h[z].next] = o[z] /\ o[z] # None
                      /\ g[h[z].next].prev = z
    BY <1>4 DEF NextLinks
  <2>1. /\ h[z].next \in DOMAIN h /\ owner[h[z].next] = owner[z] /\ owner[z] # None
        /\ h[h[z].next].prev = z
    BY DEF Sound, Trees, NextLinks, D
  <2>2. h[z].next \in D BY <1>10, <2>1
  <2> QED BY <2>1, <2>2, <1>4, <1>5
<1>12. ChildLinks(g, o)
  <2> SUFFICES ASSUME NEW z \in D, ~h[z].ref, h[z].child # None
               PROVE  /\ h[z].child \in D /\ o[h[z].child] = z
                      /\ g[h[z].child].prev \in D /\ o[g[h[z].child].prev] = z
                      /\ g[g[h[z].child].prev].next = None
    BY <1>4 DEF ChildLinks
  <2>1. /\ h[z].child \in DOMAIN h /\ owner[h[z].child] = z
        /\ h[h[z].child].prev \in DOMAIN h /\ owner[h[h[z].child].prev] = z
        /\ h[h[h[z].child].prev].next = None
    BY DEF Sound, Trees, ChildLinks, D
  <2>2. z # None BY CellType DEF Sound, Trees, D
  <2>3. h[z].child \in D /\ h[h[z].child].prev \in D BY <1>10, <2>1, <2>2
  <2> QED BY <2>1, <2>3, <1>4, <1>5
<1>13. Placed(g, o)
  <2> SUFFICES ASSUME NEW y \in D, owner[y] # None
               PROVE  ~g[owner[y]].ref /\ \E z \in D : Leads(g, z, y)
    BY <1>4, <1>5 DEF Placed
  <2>0. y \in DOMAIN h /\ y \notin F BY DEF D
  <2>1. owner[y] \in DOMAIN h /\ owner[y] \notin F BY <1>6, <2>0 DEF Sound, Trees, Typed
  <2>2. ~h[owner[y]].ref /\ \E z \in DOMAIN h : Leads(h, z, y) BY <2>0 DEF Sound, Trees, Placed
  <2>3. owner[y] \in D BY <2>1 DEF D
  <2> QED BY <2>2, <2>3, <1>3, <1>4, <1>7
<1>14. NoCycle(g)
  <2> SUFFICES ASSUME NEW S \in SUBSET D, \A y \in S : \E z \in S : Leads(g, z, y)
               PROVE  S = {}
    BY <1>4 DEF NoCycle
  <2>1. \A y \in S : \E z \in S : Leads(h, z, y) BY <1>3
  <2>2. S \in SUBSET DOMAIN h BY DEF D
  <2> QED BY <2>1, <2>2 DEF Sound, Trees, NoCycle
<1>15. References(g, gd, o)
  <2> SUFFICES ASSUME NEW r \in D, h[r].ref, r \in gd \/ owner[r] # None
               PROVE  Shared(g, r)
    BY <1>4, <1>5 DEF References
  <2>0. r \in DOMAIN h /\ r \notin F BY DEF D
  <2>1. r \in Kept(h, hd, owner) \ F BY <2>0 DEF Kept
  <2>2. Shared(h, r) BY <2>0 DEF Sound, References
  <2> SUFFICES ASSUME h[r].child # None
               PROVE  h[r].child \in D /\ \E q \in D : ~g[q].ref /\ g[q].child = h[r].child
    BY <1>4 DEF Shared
  <2>3. h[r].child \in DOMAIN h /\ h[r].child \notin F BY <2>1, <2>2 DEF Shared, F
  <2>4. PICK q \in DOMAIN h : ~h[q].ref /\ h[q].child = h[r].child BY <2>2 DEF Shared
  <2>5. h[r].child \in D BY <2>3 DEF D
  <2>6. Leads(h, q, h[r].child) BY <2>4 DEF Leads
  <2>7. q \in D BY <2>5, <2>6, <1>7
  <2> QED BY <2>4, <2>5, <2>7, <1>4
<1> QED BY <1>4, <1>8, <1>9, <1>11, <1>12, <1>13, <1>14, <1>15 DEF Sound, Trees, g, o, D, F
-------------------------------------------------------------------------------
(* Pointers that only put the tree of x below items outside of it, and x   *)
(* between two items of which one led to the other, lead round no circle.  *)
LEMMA GraftNoCycle ==
  ASSUME NEW h, NEW hd, NEW owner, Trees(h, hd, owner), NEW x \in DOMAIN h, owner[x] = None,
         NEW g, DOMAIN g = DOMAIN h,
         \A z, y \in DOMAIN h : Leads(g, z, y) /\ ~Leads(h, z, y) =>
           \/ y = x /\ z \notin Freed(h, x)
           \/ z = x /\ y \notin Freed(h, x) /\ \A v \in DOMAIN h : Leads(g, v, x) => Leads(h, v, y)
  PROVE  NoCycle(g)
<1> DEFINE F == Freed(h, x)
<1> SUFFICES ASSUME NEW S \in SUBSET DOMAIN h, \A y \in S : \E z \in S : Leads(g, z, y)
             PROVE  S = {}
  BY DEF NoCycle
<1>1. x \in F /\ F \subseteq DOMAIN h /\ DOMAIN h \subseteq Item BY FreedIs DEF Trees, Typed
<1>2. ASSUME NEW z \in DOMAIN h, NEW y \in DOMAIN h, Leads(h, z, y), z \in F PROVE y \in F
  <2>1. y \in Owns(h, z) BY <1>2 DEF Leads, Owns
  <2> QED BY <2>1, <1>1, <1>2, FreedIs DEF Stays
<1> HIDE DEF F
<1>3. ASSUME NEW y \in S \ F PROVE \E z \in S \ F : Leads(h, z, y)
  <2>1. PICK z \in S : Leads(g, z, y) BY <1>3
  <2>2. CASE Leads(h, z, y) BY <2>1, <2>2, <1>2, <1>3
  <2>3. CASE ~Leads(h, z, y)
    <3>1. z = x /\ \A v \in DOMAIN h : Leads(g, v, x) => Leads(h, v, y)
      BY <2>1, <2>3, <1>1, <1>3 DEF F
    <3>2. PICK v \in S : Leads(g, v, x) BY <3>1
    <3>3. Leads(h, v, y) BY <3>1, <3>2
    <3> QED BY <3>2, <3>3, <1>2, <1>3
  <2> QED BY <2>2, <2>3
<1>4. S \ F = {} BY <1>3 DEF Trees, NoCycle
<1>5. ASSUME NEW y \in S PROVE \E z \in S : Leads(h, z, y)
  <2>1. PICK z \in S : Leads(g, z, y) BY <1>5
  <2>2. y \in F /\ z \in F BY <1>4
  <2>3. Leads(h, z, y) BY <2>1, <2>2 DEF F
  <2> QED BY <2>3
<1> QED BY <1>5 DEF Trees, NoCycle

(* One assignment to a pointer.                                            *)
LEMMA SetNext ==
  ASSUME NEW D, NEW h \in [D -> Cell], NEW x \in D, NEW v \in Item \cup {None}
  PROVE  LET g == [h EXCEPT ![x].next = v]
         IN /\ g \in [D -> Cell]
            /\ \A z \in D : /\ g[z].next = IF z = x THEN v ELSE h[z].next
                            /\ g[z].prev = h[z].prev /\ g[z].child = h[z].child
                            /\ g[z].ref = h[z].ref
<1> DEFINE g == [h EXCEPT ![x].next = v]
<1>1. [h[x] EXCEPT !.next = v] \in Cell BY DEF Cell
<1>2. g = [h EXCEPT ![x] = [h[x] EXCEPT !.next = v]] OBVIOUS
<1>3. g \in [D -> Cell] BY <1>1, <1>2
<1>4. \A z \in D : z # x => g[z] = h[z] BY <1>2
<1>5. g[x] = [h[x] EXCEPT !.next = v] BY <1>2
<1>6. /\ g[x].next = v /\ g[x].prev = h[x].prev /\ g[x].child = h[x].child
      /\ g[x].ref = h[x].ref
  BY <1>5 DEF Cell
<1> HIDE DEF g
<1> QED BY <1>3, <1>4, <1>6 DEF g

(* One assignment to prev.                                                 *)
LEMMA SetPrev ==
  ASSUME NEW D, NEW h \in [D -> Cell], NEW x \in D, NEW v \in Item \cup {None}
  PROVE  LET g == [h EXCEPT ![x].prev = v]
         IN /\ g \in [D -> Cell]
            /\ \A z \in D : /\ g[z].prev = IF z = x THEN v ELSE h[z].prev
                            /\ g[z].next = h[z].next /\ g[z].child = h[z].child
                            /\ g[z].ref = h[z].ref
<1> DEFINE g == [h EXCEPT ![x].prev = v]
<1>1. [h[x] EXCEPT !.prev = v] \in Cell BY DEF Cell
<1>2. g = [h EXCEPT ![x] = [h[x] EXCEPT !.prev = v]] OBVIOUS
<1>3. g \in [D -> Cell] BY <1>1, <1>2
<1>4. \A z \in D : z # x => g[z] = h[z] BY <1>2
<1>5. g[x] = [h[x] EXCEPT !.prev = v] BY <1>2
<1>6. /\ g[x].prev = v /\ g[x].next = h[x].next /\ g[x].child = h[x].child
      /\ g[x].ref = h[x].ref
  BY <1>5 DEF Cell
<1> HIDE DEF g
<1> QED BY <1>3, <1>4, <1>6 DEF g

(* One assignment to child.                                                *)
LEMMA SetChild ==
  ASSUME NEW D, NEW h \in [D -> Cell], NEW x \in D, NEW v \in Item \cup {None}
  PROVE  LET g == [h EXCEPT ![x].child = v]
         IN /\ g \in [D -> Cell]
            /\ \A z \in D : /\ g[z].child = IF z = x THEN v ELSE h[z].child
                            /\ g[z].next = h[z].next /\ g[z].prev = h[z].prev
                            /\ g[z].ref = h[z].ref
<1> DEFINE g == [h EXCEPT ![x].child = v]
<1>1. [h[x] EXCEPT !.child = v] \in Cell BY DEF Cell
<1>2. g = [h EXCEPT ![x] = [h[x] EXCEPT !.child = v]] OBVIOUS
<1>3. g \in [D -> Cell] BY <1>1, <1>2
<1>4. \A z \in D : z # x => g[z] = h[z] BY <1>2
<1>5. g[x] = [h[x] EXCEPT !.child = v] BY <1>2
<1>6. /\ g[x].child = v /\ g[x].next = h[x].next /\ g[x].prev = h[x].prev
      /\ g[x].ref = h[x].ref
  BY <1>5 DEF Cell
<1> HIDE DEF g
<1> QED BY <1>3, <1>4, <1>6 DEF g

(* add_item_to_array: x goes to the end of the list of p.                  *)
LEMMA AppendSound ==
  ASSUME NEW h, NEW hd, NEW owner, Sound(h, hd, owner), NEW p \in DOMAIN h, ~h[p].ref,
         NEW x \in hd, p \notin Freed(h, x)
  PROVE  Sound(Append1(h, p, x), hd \ {x}, [owner EXCEPT ![x] = p])
<1> DEFINE c == h[p].child  g == Append1(h, p, x)  gd == hd \ {x}  o == [owner EXCEPT ![x] = p]
           l == h[c].prev
<1>0. Trees(h, hd, owner) BY DEF Sound
<1>1. /\ x \in DOMAIN h /\ owner[x] = None /\ h[x].next = None /\ x # p /\ x # None /\ p # None
      /\ x \in Item /\ h \in [DOMAIN h -> Cell] /\ DOMAIN h \subseteq Item
  <2>1. x \in DOMAIN h /\ owner[x] = None BY <1>0 DEF Trees, Typed, RootsApart
  <2>2. x # p BY <2>1, FreedIs
  <2>3. x # None /\ p # None /\ x \in Item BY <1>0, <2>1, CellType DEF Trees
  <2> QED BY <2>1, <2>2, <2>3, <1>0 DEF Trees, Typed, RootsApart
<1>2. o \in [DOMAIN h -> DOMAIN h \cup {None}] /\ o[x] = p
      /\ \A y \in DOMAIN h : y # x => o[y] = owner[y]
  BY <1>0, <1>1 DEF Trees, Typed
<1>3. c # None => /\ c \in DOMAIN h /\ owner[c] = p /\ c # x
                  /\ l \in DOMAIN h /\ owner[l] = p /\ l # x /\ h[l].next = None /\ l # None
  <2>1. c # None => /\ c \in DOMAIN h /\ owner[c] = p
                    /\ l \in DOMAIN h /\ owner[l] = p /\ h[l].next = None
    BY <1>0 DEF Trees, ChildLinks
  <2>2. c # None => c # x /\ l # x BY <2>1, <1>1
  <2>3. c # None => l # None BY <2>1, <1>0, CellType DEF Trees
  <2> QED BY <2>1, <2>2, <2>3
<1>4. /\ DOMAIN g = DOMAIN h /\ g \in [DOMAIN h -> Cell]
      /\ \A z \in DOMAIN h :
           /\ g[z].ref = h[z].ref
           /\ g[z].child = IF c = None /\ z = p THEN x ELSE h[z].child
           /\ g[z].next = IF c # None /\ z = l THEN x ELSE h[z].next
           /\ g[z].prev = IF c = None THEN (IF z = x THEN x ELSE h[z].prev)
                          ELSE IF z = c THEN x ELSE IF z = x THEN l ELSE h[z].prev
  <2>1. CASE c = None
    <3>1. g = [h EXCEPT ![p].child = x, ![x].prev = x, ![x].next = None] BY <2>1 DEF Append1
    <3> HIDE DEF g
    <3> QED BY <2>1, <3>1, <1>1 DEF Cell
  <2>2. CASE c # None
    <3>1. g = [[[h EXCEPT ![l].next = x] EXCEPT ![x].prev = l] EXCEPT ![c].prev = x]
      BY <2>2, <1>3 DEF Append1
    <3>2. /\ c \in DOMAIN h /\ c # x /\ l \in DOMAIN h /\ l # x /\ l \in Item
      BY <2>2, <1>1, <1>3
    <3> DEFINE a == [h EXCEPT ![l].next = x]  b == [a EXCEPT ![x].prev = l]
               D == DOMAIN h
    <3>3. g = [b EXCEPT ![c].prev = x] BY <3>1
    <3>4. x \in D /\ x \in Item BY <1>1
    <3>5. h \in [D -> Cell] BY <1>1
    <3> HIDE DEF g, c, l, D
    <3>6. /\ a \in [D -> Cell]
          /\ \A z \in D : /\ a[z].next = IF z = l THEN x ELSE h[z].next
                          /\ a[z].prev = h[z].prev /\ a[z].child = h[z].child
                          /\ a[z].ref = h[z].ref
      BY <3>2, <3>4, <3>5, SetNext DEF D
    <3> HIDE DEF a
    <3>7. /\ b \in [D -> Cell]
          /\ \A z \in D : /\ b[z].prev = IF z = x THEN l ELSE a[z].prev
                          /\ b[z].next = a[z].next /\ b[z].child = a[z].child
                          /\ b[z].ref = a[z].ref
      BY <3>2, <3>4, <3>6, SetPrev
    <3> HIDE DEF b
    <3>8. /\ g \in [D -> Cell]
          /\ \A z \in D : /\ g[z].prev = IF z = c THEN x ELSE b[z].prev
                          /\ g[z].next = b[z].next /\ g[z].child = b[z].child
                          /\ g[z].ref = b[z].ref
      BY <3>2, <3>3, <3>4, <3>7, SetPrev DEF D
    <3>9. DOMAIN g = D BY <3>8
    <3> QED BY <2>2, <3>2, <3>6, <3>7, <3>8, <3>9 DEF D
  <2> QED BY <2>1, <2>2
<1> HIDE DEF g, o, c, l
<1>5. Typed(g, gd, o) BY <1>0, <1>1, <1>2, <1>4 DEF Trees, Typed
<1>6. RootsApart(g, gd, o)
  <2>1. \A y \in gd : o[y] = None BY <1>0, <1>2 DEF Trees, RootsApart, Typed
  <2>2. ASSUME NEW y \in DOMAIN h, o[y] = None
        PROVE  (y \in gd \/ g[y].ref) /\ g[y].next = None /\ g[y].prev = None
    <3>1. y # x /\ owner[y] = None BY <1>1, <1>2, <2>2
    <3>2. (y \in hd \/ h[y].ref) /\ h[y].next = None /\ h[y].prev = None
      BY <3>1, <1>0 DEF Trees, RootsApart
    <3>3. c # None => y # c /\ y # l BY <3>1, <1>1, <1>3
    <3> QED BY <3>1, <3>2, <3>3, <1>4
  <2> QED BY <2>1, <2>2, <1>4 DEF RootsApart
<1>7. NextLinks(g, o)
  <2> SUFFICES ASSUME NEW z \in DOMAIN h, g[z].next # None
               PROVE  /\ g[z].next \in DOMAIN h /\ o[g[z].next] = o[z] /\ o[z] # None
                      /\ g[g[z].next].prev = z
    BY <1>4 DEF NextLinks
  <2>1. CASE c # None /\ z = l
    <3>1. g[z].next = x BY <2>1, <1>4
    <3>2. o[z] = p BY <2>1, <1>2, <1>3
    <3> QED BY <3>1, <3>2, <2>1, <1>1, <1>2, <1>3, <1>4
  <2>2. CASE ~(c # None /\ z = l)
    <3> DEFINE y == h[z].next
    <3>1. g[z].next = y BY <2>2, <1>4
    <3>2. y \in DOMAIN h /\ owner[y] = owner[z] /\ owner[z] # None /\ h[y].prev = z
      BY <3>1, <1>0 DEF Trees, NextLinks
    <3>3. y # x /\ z # x BY <3>2, <1>1
    <3>4. c # None => y # c
      <4>1. c # None /\ y = c => z = l /\ h[z].next = None BY <3>2, <1>3 DEF l
      <4> QED BY <4>1, <2>2
    <3> QED BY <3>1, <3>2, <3>3, <3>4, <1>2, <1>4
  <2> QED BY <2>1, <2>2
<1>8. ChildLinks(g, o)
  <2> SUFFICES ASSUME NEW z \in DOMAIN h, ~g[z].ref, g[z].child # None
               PROVE  /\ g[z].child \in DOMAIN h /\ o[g[z].child] = z
                      /\ g[g[z].child].prev \in DOMAIN h /\ o[g[g[z].child].prev] = z
                      /\ g[g[g[z].child].prev].next = None
    BY <1>4 DEF ChildLinks
  <2>1. CASE z = p /\ c = None
    <3>1. g[z].child = x /\ g[x].prev = x /\ g[x].next = None BY <2>1, <1>1, <1>4
    <3> QED BY <3>1, <2>1, <1>1, <1>2
  <2>2. CASE z = p /\ c # None
    <3>1. g[z].child = c /\ g[c].prev = x /\ g[x].next = None
      BY <2>2, <1>1, <1>3, <1>4 DEF c
    <3> QED BY <3>1, <2>2, <1>1, <1>2, <1>3
  <2>3. CASE z # p
    <3> DEFINE y == h[z].child
    <3>1. g[z].child = y /\ ~h[z].ref BY <2>3, <1>4
    <3>2. /\ y \in DOMAIN h /\ owner[y] = z /\ h[y].prev \in DOMAIN h
          /\ owner[h[y].prev] = z /\ h[h[y].prev].next = None
      BY <3>1, <1>0 DEF Trees, ChildLinks
    <3>3. z # None BY <1>0, CellType DEF Trees
    <3>4. y # x /\ h[y].prev # x BY <3>2, <3>3, <1>1
    <3>5. c # None => y # c /\ h[y].prev # l BY <3>2, <2>3, <1>3
    <3>6. g[y].prev = h[y].prev BY <3>2, <3>4, <3>5, <1>4
    <3>7. g[h[y].prev].next = None BY <3>2, <3>5, <1>4
    <3> QED BY <3>1, <3>2, <3>4, <3>6, <3>7, <1>2
  <2> QED BY <2>1, <2>2, <2>3
<1>9. ASSUME NEW z \in DOMAIN h, NEW y \in DOMAIN h
      PROVE  Leads(g, z, y) <=> \/ Leads(h, z, y)
                                \/ y = x /\ z = (IF c = None THEN p ELSE l)
  <2>1. y # None BY <1>0, CellType DEF Trees
  <2> QED BY <2>1, <1>1, <1>3, <1>4 DEF Leads, c
<1>10. Placed(g, o)
  <2> SUFFICES ASSUME NEW y \in DOMAIN h, o[y] # None
               PROVE  ~g[o[y]].ref /\ \E z \in DOMAIN h : Leads(g, z, y)
    BY <1>4 DEF Placed
  <2>1. CASE y = x BY <2>1, <1>1, <1>2, <1>3, <1>4, <1>9
  <2>2. CASE y # x
    <3>1. owner[y] # None /\ o[y] = owner[y] BY <2>2, <1>2
    <3>2. owner[y] \in DOMAIN h BY <3>1, <1>0 DEF Trees, Typed
    <3> QED BY <3>1, <3>2, <1>0, <1>4, <1>9 DEF Trees, Placed
  <2> QED BY <2>1, <2>2
<1>11. NoCycle(g)
  <2>1. c # None => l \notin Freed(h, x)
    <3>1. c # None /\ l \in Freed(h, x) => owner[l] \in Freed(h, x)
      BY <1>0, <1>1, <1>3, OwnerIsFreed
    <3> QED BY <3>1, <1>3
  <2>2. ASSUME NEW z \in DOMAIN h, NEW y \in DOMAIN h, Leads(g, z, y), ~Leads(h, z, y)
        PROVE  y = x /\ z \notin Freed(h, x)
    BY <2>1, <2>2, <1>9
  <2> QED BY <2>2, <1>0, <1>1, <1>4, GraftNoCycle
<1>12. References(g, gd, o)
  <2> SUFFICES ASSUME NEW r \in DOMAIN h, h[r].ref, r \in gd \/ o[r] # None PROVE Shared(g, r)
    BY <1>4 DEF References
  <2>1. r \in hd \/ owner[r] # None BY <1>2
  <2>2. Shared(h, r) BY <2>1 DEF Sound, References
  <2>3. g[r].child = h[r].child BY <1>4
  <2> SUFFICES ASSUME h[r].child # None
               PROVE  h[r].child \in DOMAIN h /\ \E q \in DOMAIN h : ~g[q].ref /\ g[q].child = h[r].child
    BY <2>3, <1>4 DEF Shared
  <2>4. PICK q \in DOMAIN h : ~h[q].ref /\ h[q].child = h[r].child BY <2>2 DEF Shared
  <2>5. g[q].child = h[q].child BY <2>4, <1>4 DEF c
  <2> QED BY <2>2, <2>4, <2>5, <1>4 DEF Shared
<1> QED BY <1>4, <1>5, <1>6, <1>7, <1>8, <1>10, <1>11, <1>12 DEF Sound, Trees, g, o

(* insert_item_in_array: x goes before the member y of p.                  *)
LinkedBefore(h, p, x, y, g) ==
  /\ g \in [DOMAIN h -> Cell]
  /\ \A z \in DOMAIN h :
       /\ g[z].ref = h[z].ref
       /\ g[z].child = IF z = p /\ y = h[p].child THEN x ELSE h[z].child
       /\ g[z].next = IF z = x THEN y
                      ELSE IF z = h[y].prev /\ y # h[p].child THEN x ELSE h[z].next
       /\ g[z].prev = IF z = x THEN h[y].prev ELSE IF z = y THEN x ELSE h[z].prev

(* What stands before y in the list of p, or stands last when y is first.  *)
LEMMA BeforeIs ==
  ASSUME NEW h, NEW hd, NEW owner, Trees(h, hd, owner), NEW y \in DOMAIN h, owner[y] # None
  PROVE  LET p == owner[y]
             w == h[y].prev
         IN /\ p \in DOMAIN h /\ ~h[p].ref /\ h[p].child # None
            /\ w \in DOMAIN h /\ owner[w] = p
            /\ y = h[p].child => h[w].next = None
            /\ y # h[p].child => h[w].next = y /\ w # y
            /\ h[y].next # y
<1> DEFINE p == owner[y]  w == h[y].prev
<1>0. y # None BY CellType DEF Trees
<1>1. p \in DOMAIN h /\ ~h[p].ref BY DEF Trees, Typed, Placed
<1>2. p # None OBVIOUS
<1>3. h[y].next # y
  <2>1. ASSUME h[y].next = y PROVE {y} = {} BY <2>1 DEF Trees, NoCycle, Leads
  <2> QED BY <2>1
<1>4. CASE y = h[p].child
  <2>1. w \in DOMAIN h /\ owner[w] = p /\ h[w].next = None
    BY <1>0, <1>1, <1>4 DEF Trees, ChildLinks
  <2> QED BY <2>1, <1>0, <1>1, <1>3, <1>4
<1>5. CASE y # h[p].child
  <2>1. PICK z \in DOMAIN h : Leads(h, z, y) BY DEF Trees, Placed
  <2>2. h[z].next = y
    <3>1. ASSUME ~h[z].ref /\ h[z].child = y PROVE z = p BY <3>1, <1>0 DEF Trees, ChildLinks
    <3> QED BY <3>1, <2>1, <1>5 DEF Leads
  <2>3. w = z /\ owner[z] = p BY <2>2, <1>0 DEF Trees, NextLinks
  <2>4. w # y BY <2>2, <2>3, <1>3
  <2>5. h[p].child # None
    <3>2. Members(h, p) = {v \in DOMAIN h : owner[v] = p} BY <1>1, MembersAre
    <3>3. y \in Members(h, p) BY <3>2
    <3>4. h[p].child \in DOMAIN h BY <3>3, FromIsOfHeap DEF Members
    <3> QED BY <3>4, CellType DEF Trees
  <2> QED BY <2>2, <2>3, <2>4, <2>5, <1>1, <1>3, <1>5
<1> QED BY <1>4, <1>5

(* Linked in before y, which may be the first, the lists are sound again.  *)
LEMMA LinkedSound ==
  ASSUME NEW h, NEW hd, NEW owner, Sound(h, hd, owner), NEW p \in DOMAIN h, NEW y \in DOMAIN h,
         owner[y] = p, NEW x \in hd, p \notin Freed(h, x),
         y = h[p].child =>
           \A r \in Kept(h, hd, owner) : h[r].ref => h[r].child # h[p].child,
         NEW g, LinkedBefore(h, p, x, y, g)
  PROVE  Sound(g, hd \ {x}, [owner EXCEPT ![x] = p])
<1> DEFINE c == h[p].child  w == h[y].prev  gd == hd \ {x}  o == [owner EXCEPT ![x] = p]
           before == IF y = c THEN p ELSE w
<1>0. Trees(h, hd, owner) BY DEF Sound
<1>1. /\ x \in DOMAIN h /\ owner[x] = None /\ h[x].next = None /\ x # p /\ x # y /\ x # None
      /\ p # None /\ y # None /\ x \in Item /\ DOMAIN h \subseteq Item
  <2>1. x \in DOMAIN h /\ owner[x] = None BY <1>0 DEF Trees, Typed, RootsApart
  <2>2. x # p BY <2>1, FreedIs
  <2>3. x # None /\ p # None /\ x \in Item /\ y # None BY <1>0, <2>1, CellType DEF Trees
  <2> QED BY <2>1, <2>2, <2>3, <1>0 DEF Trees, Typed, RootsApart
<1>2. o \in [DOMAIN h -> DOMAIN h \cup {None}] /\ o[x] = p
      /\ \A z \in DOMAIN h : z # x => o[z] = owner[z]
  BY <1>0, <1>1 DEF Trees, Typed
<1>3. /\ ~h[p].ref /\ c # None /\ w \in DOMAIN h /\ owner[w] = p /\ w # x
      /\ y = c => h[w].next = None
      /\ y # c => h[w].next = y /\ w # y
      /\ h[y].next # y
  BY <1>0, <1>1, BeforeIs
<1>4. /\ DOMAIN g = DOMAIN h /\ g \in [DOMAIN h -> Cell]
      /\ \A z \in DOMAIN h :
           /\ g[z].ref = h[z].ref
           /\ g[z].child = IF z = p /\ y = c THEN x ELSE h[z].child
           /\ g[z].next = IF z = x THEN y ELSE IF z = w /\ y # c THEN x ELSE h[z].next
           /\ g[z].prev = IF z = x THEN w ELSE IF z = y THEN x ELSE h[z].prev
  BY DEF LinkedBefore
<1>5. c \in DOMAIN h /\ owner[c] = p /\ c # x BY <1>0, <1>1, <1>3 DEF Trees, ChildLinks
<1> HIDE DEF o, w
<1>6. Typed(g, gd, o) BY <1>0, <1>1, <1>2, <1>4 DEF Trees, Typed
<1>7. RootsApart(g, gd, o)
  <2>1. \A z \in gd : o[z] = None BY <1>0, <1>2 DEF Trees, RootsApart, Typed
  <2>2. ASSUME NEW z \in DOMAIN h, o[z] = None
        PROVE  (z \in gd \/ g[z].ref) /\ g[z].next = None /\ g[z].prev = None
    <3>1. z # x /\ owner[z] = None BY <1>1, <1>2, <2>2
    <3>2. (z \in hd \/ h[z].ref) /\ h[z].next = None /\ h[z].prev = None
      BY <3>1, <1>0 DEF Trees, RootsApart
    <3>3. z # w /\ z # y BY <3>1, <1>1, <1>3
    <3> QED BY <3>1, <3>2, <3>3, <1>4
  <2> QED BY <2>1, <2>2, <1>4 DEF RootsApart
<1>8. NextLinks(g, o)
  <2> SUFFICES ASSUME NEW z \in DOMAIN h, g[z].next # None
               PROVE  /\ g[z].next \in DOMAIN h /\ o[g[z].next] = o[z] /\ o[z] # None
                      /\ g[g[z].next].prev = z
    BY <1>4 DEF NextLinks
  <2>1. CASE z = x BY <2>1, <1>1, <1>2, <1>4
  <2>2. CASE z = w /\ y # c
    <3>1. g[z].next = x /\ g[x].prev = z BY <2>2, <1>1, <1>3, <1>4
    <3>2. o[z] = p BY <2>2, <1>2, <1>3
    <3> QED BY <3>1, <3>2, <1>1, <1>2
  <2>3. CASE z # x /\ ~(z = w /\ y # c)
    <3> DEFINE v == h[z].next
    <3>1. g[z].next = v BY <2>3, <1>4
    <3>2. v \in DOMAIN h /\ owner[v] = owner[z] /\ owner[z] # None /\ h[v].prev = z
      BY <3>1, <1>0 DEF Trees, NextLinks
    <3>3. v # x BY <3>2, <1>1
    <3>4. v # y
      <4>1. v = y => z = w BY <3>2 DEF w
      <4> QED BY <4>1, <2>3, <1>1, <1>3
    <3> QED BY <3>1, <3>2, <3>3, <3>4, <2>3, <1>2, <1>4
  <2> QED BY <2>1, <2>2, <2>3
<1>9. ChildLinks(g, o)
  <2> SUFFICES ASSUME NEW z \in DOMAIN h, ~g[z].ref, g[z].child # None
               PROVE  /\ g[z].child \in DOMAIN h /\ o[g[z].child] = z
                      /\ g[g[z].child].prev \in DOMAIN h /\ o[g[g[z].child].prev] = z
                      /\ g[g[g[z].child].prev].next = None
    BY <1>4 DEF ChildLinks
  <2>1. CASE z = p /\ y = c
    <3>1. g[z].child = x /\ g[x].prev = w /\ g[w].next = None
      BY <2>1, <1>1, <1>3, <1>4
    <3> QED BY <3>1, <2>1, <1>1, <1>2, <1>3
  <2>2. CASE z # p \/ y # c
    <3> DEFINE v == h[z].child
    <3>1. g[z].child = v /\ ~h[z].ref BY <2>2, <1>4
    <3>2. /\ v \in DOMAIN h /\ owner[v] = z /\ h[v].prev \in DOMAIN h
          /\ owner[h[v].prev] = z /\ h[h[v].prev].next = None
      BY <3>1, <1>0 DEF Trees, ChildLinks
    <3>3. z # None BY <1>0, CellType DEF Trees
    <3>4. v # x /\ h[v].prev # x BY <3>2, <3>3, <1>1
    <3>5. v # y BY <3>2, <2>2
    <3>6. g[v].prev = h[v].prev BY <3>2, <3>4, <3>5, <1>4
    <3>7. h[v].prev = w => y = c BY <3>2, <1>1, <1>3
    <3>8. g[h[v].prev].next = None BY <3>2, <3>4, <3>7, <1>4
    <3> QED BY <3>1, <3>2, <3>4, <3>6, <3>8, <1>2
  <2> QED BY <2>1, <2>2
<1>10. ASSUME NEW z \in DOMAIN h, NEW v \in DOMAIN h
       PROVE  /\ Leads(g, z, v) /\ ~Leads(h, z, v) => (z = before /\ v = x) \/ (z = x /\ v = y)
              /\ Leads(h, z, v) /\ v # y => Leads(g, z, v)
  <2>1. v # None BY <1>0, CellType DEF Trees
  <2> QED BY <2>1, <1>1, <1>3, <1>4 DEF Leads
<1>11. Leads(g, before, x) /\ Leads(g, x, y) /\ Leads(h, before, y) /\ before \in DOMAIN h
  <2>1. Leads(g, x, y) BY <1>1, <1>4 DEF Leads
  <2>2. CASE y = c BY <2>1, <2>2, <1>1, <1>3, <1>4 DEF Leads
  <2>3. CASE y # c BY <2>1, <2>3, <1>1, <1>3, <1>4 DEF Leads
  <2> QED BY <2>2, <2>3
<1>12. Placed(g, o)
  <2> SUFFICES ASSUME NEW v \in DOMAIN h, o[v] # None
               PROVE  ~g[o[v]].ref /\ \E z \in DOMAIN h : Leads(g, z, v)
    BY <1>4 DEF Placed
  <2>1. CASE v = x BY <2>1, <1>1, <1>2, <1>3, <1>4, <1>11
  <2>2. CASE v = y BY <2>2, <1>1, <1>2, <1>3, <1>4, <1>11
  <2>3. CASE v # x /\ v # y
    <3>1. owner[v] # None /\ o[v] = owner[v] BY <2>3, <1>2
    <3>2. owner[v] \in DOMAIN h BY <3>1, <1>0 DEF Trees, Typed
    <3> QED BY <3>1, <3>2, <2>3, <1>0, <1>4, <1>10 DEF Trees, Placed
  <2> QED BY <2>1, <2>2, <2>3
<1>13. NoCycle(g)
  <2>1. before \notin Freed(h, x)
    <3>1. w \in Freed(h, x) => owner[w] \in Freed(h, x)
      BY <1>0, <1>1, <1>3, OwnerIsFreed
    <3> QED BY <3>1, <1>3
  <2>2. y \notin Freed(h, x)
    <3>1. y \in Freed(h, x) => owner[y] \in Freed(h, x)
      BY <1>0, <1>1, OwnerIsFreed
    <3> QED BY <3>1
  <2>3. \A v \in DOMAIN h : Leads(g, v, x) => Leads(h, v, y)
    <3>1. ASSUME NEW v \in DOMAIN h, Leads(g, v, x) PROVE v = before
      <4>1. ~Leads(h, v, x) BY <1>0, <1>1, LeadsInList
      <4> QED BY <4>1, <3>1, <1>1, <1>10
    <3> QED BY <3>1, <1>11
  <2> HIDE DEF before
  <2>4. \A z, v \in DOMAIN h : Leads(g, z, v) /\ ~Leads(h, z, v) =>
           \/ v = x /\ z \notin Freed(h, x)
           \/ z = x /\ v \notin Freed(h, x) /\ \A u \in DOMAIN h : Leads(g, u, x) => Leads(h, u, v)
    BY <2>1, <2>2, <2>3, <1>10
  <2> QED BY <2>4, <1>0, <1>1, <1>4, GraftNoCycle
<1>14. References(g, gd, o)
  <2> SUFFICES ASSUME NEW r \in DOMAIN h, h[r].ref, r \in gd \/ o[r] # None PROVE Shared(g, r)
    BY <1>4 DEF References
  <2>1. r \in hd \/ owner[r] # None BY <1>2
  <2>2. Shared(h, r) BY <2>1 DEF Sound, References
  <2>3. r # p BY <1>3
  <2>4. g[r].child = h[r].child BY <2>3, <1>4
  <2> SUFFICES ASSUME h[r].child # None
               PROVE  h[r].child \in DOMAIN h /\ \E q \in DOMAIN h : ~g[q].ref /\ g[q].child = h[r].child
    BY <2>4, <1>4 DEF Shared
  <2>5. PICK q \in DOMAIN h : ~h[q].ref /\ h[q].child = h[r].child BY <2>2 DEF Shared
  <2>6. ~(q = p /\ y = c)
    <3>1. r \in Kept(h, hd, owner) BY <2>1 DEF Kept
    <3> QED BY <3>1, <2>5
  <2>7. g[q].child = h[q].child BY <2>6, <1>4
  <2> QED BY <2>2, <2>5, <2>7, <1>4 DEF Shared
<1> QED BY <1>4, <1>6, <1>7, <1>8, <1>9, <1>12, <1>13, <1>14 DEF Sound, Trees, o

(* A container is not a member of itself.                                  *)
LEMMA NotItsOwner ==
  ASSUME NEW h, NEW hd, NEW owner, Trees(h, hd, owner), NEW x \in DOMAIN h
  PROVE  owner[x] # x
<1> SUFFICES ASSUME owner[x] = x PROVE FALSE OBVIOUS
<1> DEFINE S == {y \in DOMAIN h : owner[y] = x}
<1>1. x # None BY CellType DEF Trees
<1>2. ASSUME NEW y \in S PROVE \E z \in S : Leads(h, z, y)
  <2>1. PICK z \in DOMAIN h : Leads(h, z, y) BY <1>1 DEF Trees, Placed
  <2>2. owner[y] = z \/ owner[y] = owner[z] BY <2>1, LeadsInList
  <2> QED BY <2>1, <2>2
<1>3. S = {}
  <2>1. S \in SUBSET DOMAIN h OBVIOUS
  <2> HIDE DEF S
  <2> QED BY <2>1, <1>2 DEF Trees, NoCycle
<1> QED BY <1>3

(* cJSON_DetachItemViaPointer: the member x of p comes out of its list.     *)
Unlinked(h, p, x, g) ==
  /\ g \in [DOMAIN h -> Cell]
  /\ \A z \in DOMAIN h :
       /\ g[z].ref = h[z].ref
       /\ g[z].child = IF z = p /\ x = h[p].child THEN h[x].next ELSE h[z].child
       /\ g[z].next = IF z = x THEN None
                      ELSE IF z = h[x].prev /\ x # h[p].child THEN h[x].next ELSE h[z].next
       /\ g[z].prev = IF z = x THEN None
                      ELSE IF \/ z = h[x].next
                              \/ z = h[p].child /\ x # h[p].child /\ h[x].next = None
                           THEN h[x].prev ELSE h[z].prev

(* What an unlinked member leaves behind is sound, and so is the member.   *)
LEMMA UnlinkedSound ==
  ASSUME NEW h, NEW hd, NEW owner, Sound(h, hd, owner), NEW p \in DOMAIN h, NEW x \in DOMAIN h,
         owner[x] = p,
         x = h[p].child =>
           \A r \in Kept(h, hd, owner) : h[r].ref => h[r].child # h[p].child,
         NEW g, Unlinked(h, p, x, g)
  PROVE  Sound(g, hd \cup {x}, [owner EXCEPT ![x] = None])
<1> DEFINE c == h[p].child  v == h[x].prev  n == h[x].next
           gd == hd \cup {x}  o == [owner EXCEPT ![x] = None]
           before == IF x = c THEN p ELSE v
<1>0. Trees(h, hd, owner) BY DEF Sound
<1>1. /\ x # p /\ p # None /\ x # None /\ x \in Item /\ DOMAIN h \subseteq Item
      /\ None \notin DOMAIN h
  <2>1. x # p BY <1>0, NotItsOwner
  <2> QED BY <2>1, <1>0, CellType, NoneAssumption DEF Trees, Typed
<1>2. o \in [DOMAIN h -> DOMAIN h \cup {None}] /\ o[x] = None
      /\ \A z \in DOMAIN h : z # x => o[z] = owner[z]
  BY <1>0 DEF Trees, Typed
<1>3. /\ ~h[p].ref /\ c # None /\ v \in DOMAIN h /\ owner[v] = p
      /\ x = c => h[v].next = None
      /\ x # c => h[v].next = x /\ v # x
      /\ n # x
  BY <1>0, <1>1, BeforeIs
<1>4. /\ DOMAIN g = DOMAIN h /\ g \in [DOMAIN h -> Cell]
      /\ \A z \in DOMAIN h :
           /\ g[z].ref = h[z].ref
           /\ g[z].child = IF z = p /\ x = c THEN n ELSE h[z].child
           /\ g[z].next = IF z = x THEN None ELSE IF z = v /\ x # c THEN n ELSE h[z].next
           /\ g[z].prev = IF z = x THEN None
                          ELSE IF z = n \/ (z = c /\ x # c /\ n = None) THEN v ELSE h[z].prev
  BY DEF Unlinked
<1>5. /\ c \in DOMAIN h /\ owner[c] = p
      /\ h[c].prev \in DOMAIN h /\ owner[h[c].prev] = p /\ h[h[c].prev].next = None
  BY <1>0, <1>1, <1>3 DEF Trees, ChildLinks
<1>6. n # None => n \in DOMAIN h /\ owner[n] = p /\ h[n].prev = x /\ n # c
  <2>1. n # None => n \in DOMAIN h /\ owner[n] = p /\ h[n].prev = x
    BY <1>0 DEF Trees, NextLinks
  <2> QED BY <2>1, <1>5
<1> HIDE DEF o, v, n, c
<1>7. Typed(g, gd, o) BY <1>0, <1>1, <1>2, <1>4 DEF Trees, Typed
<1>8. RootsApart(g, gd, o)
  <2>1. \A z \in gd : o[z] = None BY <1>0, <1>2 DEF Trees, RootsApart, Typed
  <2>2. ASSUME NEW z \in DOMAIN h, o[z] = None
        PROVE  (z \in gd \/ g[z].ref) /\ g[z].next = None /\ g[z].prev = None
    <3>1. CASE z = x BY <3>1, <1>4
    <3>2. CASE z # x
      <4>1. owner[z] = None BY <1>2, <2>2, <3>2
      <4>2. (z \in hd \/ h[z].ref) /\ h[z].next = None /\ h[z].prev = None
        BY <4>1, <1>0 DEF Trees, RootsApart
      <4>3. z # v /\ z # n /\ z # c BY <4>1, <1>1, <1>3, <1>5, <1>6
      <4> QED BY <4>2, <4>3, <3>2, <1>4
    <3> QED BY <3>1, <3>2
  <2> QED BY <2>1, <2>2, <1>4 DEF RootsApart
<1>9. NextLinks(g, o)
  <2> SUFFICES ASSUME NEW z \in DOMAIN h, g[z].next # None
               PROVE  /\ g[z].next \in DOMAIN h /\ o[g[z].next] = o[z] /\ o[z] # None
                      /\ g[g[z].next].prev = z
    BY <1>4 DEF NextLinks
  <2>0. z # x BY <1>4
  <2>1. CASE z = v /\ x # c
    <3>1. g[z].next = n /\ n # None BY <2>0, <2>1, <1>4
    <3>2. g[n].prev = v BY <3>1, <1>3, <1>4, <1>6
    <3> QED BY <3>1, <3>2, <2>0, <2>1, <1>1, <1>2, <1>3, <1>6
  <2>2. CASE ~(z = v /\ x # c)
    <3> DEFINE u == h[z].next
    <3>1. g[z].next = u BY <2>0, <2>2, <1>4
    <3>2. u \in DOMAIN h /\ owner[u] = owner[z] /\ owner[z] # None /\ h[u].prev = z
      BY <3>1, <1>0 DEF Trees, NextLinks
    <3>3. u # x
      <4>1. u = x => z = v BY <3>2 DEF v
      <4> QED BY <4>1, <2>2, <1>1, <1>3
    <3>4. u # n BY <3>2, <1>6, <2>0, <1>1
    <3>5. u # c BY <3>1, <3>2, <1>1, <1>5
    <3>6. g[u].prev = h[u].prev BY <3>2, <3>3, <3>4, <3>5, <1>4
    <3> QED BY <3>1, <3>2, <3>3, <3>6, <2>0, <1>2
  <2> QED BY <2>1, <2>2
<1>10. ChildLinks(g, o)
  <2> SUFFICES ASSUME NEW z \in DOMAIN h, ~g[z].ref, g[z].child # None
               PROVE  /\ g[z].child \in DOMAIN h /\ o[g[z].child] = z
                      /\ g[g[z].child].prev \in DOMAIN h /\ o[g[g[z].child].prev] = z
                      /\ g[g[g[z].child].prev].next = None
    BY <1>4 DEF ChildLinks
  <2>1. CASE z = p /\ x = c
    <3>1. g[z].child = n /\ n # None BY <2>1, <1>4
    <3>2. n \in DOMAIN h /\ n # x /\ g[n].prev = v BY <3>1, <1>3, <1>4, <1>6
    <3>3. v # x BY <2>1, <3>1, <1>3 DEF n
    <3>4. g[v].next = None BY <2>1, <3>3, <1>3, <1>4
    <3> QED BY <2>1, <3>1, <3>2, <3>3, <3>4, <1>2, <1>3, <1>6
  <2>2. CASE z = p /\ x # c
    <3>1. g[z].child = c BY <2>2, <1>4 DEF c
    <3>2. CASE n = None
      <4>1. g[c].prev = v BY <2>2, <3>2, <1>4, <1>5
      <4>2. g[v].next = None BY <2>2, <3>2, <1>3, <1>4
      <4> QED BY <4>1, <4>2, <3>1, <2>2, <1>2, <1>3, <1>5
    <3>3. CASE n # None
      <4> DEFINE l == h[c].prev
      <4>1. g[c].prev = l BY <2>2, <3>3, <1>4, <1>5, <1>6
      <4>2. l # x /\ l # v
        <5>1. l # x BY <3>3, <1>5 DEF n
        <5>2. l # v BY <2>2, <1>1, <1>3, <1>5
        <5> QED BY <5>1, <5>2
      <4>3. g[l].next = None BY <4>2, <1>4, <1>5
      <4> QED BY <4>1, <4>2, <4>3, <3>1, <2>2, <1>2, <1>5
    <3> QED BY <3>2, <3>3
  <2>3. CASE z # p
    <3> DEFINE u == h[z].child
    <3>1. g[z].child = u /\ ~h[z].ref BY <2>3, <1>4
    <3>2. /\ u \in DOMAIN h /\ owner[u] = z /\ h[u].prev \in DOMAIN h
          /\ owner[h[u].prev] = z /\ h[h[u].prev].next = None
      BY <3>1, <1>0 DEF Trees, ChildLinks
    <3>3. u # x /\ u # n /\ u # c /\ h[u].prev # x /\ h[u].prev # v
      BY <3>2, <2>3, <1>3, <1>5, <1>6, <1>1
    <3>4. g[u].prev = h[u].prev /\ g[h[u].prev].next = None BY <3>2, <3>3, <1>4
    <3> QED BY <3>1, <3>2, <3>3, <3>4, <1>2
  <2> QED BY <2>1, <2>2, <2>3
<1>11. ASSUME NEW z \in DOMAIN h, NEW y \in DOMAIN h
       PROVE  /\ Leads(g, z, y) /\ ~Leads(h, z, y) => z = before /\ y = n
              /\ Leads(h, z, y) /\ y # x /\ y # n => Leads(g, z, y)
  BY <1>1, <1>3, <1>4 DEF Leads, c, n
<1>12. /\ before \in DOMAIN h /\ Leads(h, before, x)
       /\ n # None => Leads(g, before, n) /\ Leads(h, x, n)
  <2>1. n # None => Leads(h, x, n) BY DEF Leads, n
  <2>2. CASE x = c BY <2>1, <2>2, <1>1, <1>3, <1>4 DEF Leads, c
  <2>3. CASE x # c BY <2>1, <2>3, <1>1, <1>3, <1>4 DEF Leads
  <2> QED BY <2>2, <2>3
<1> HIDE DEF before
<1>13. Placed(g, o)
  <2> SUFFICES ASSUME NEW y \in DOMAIN h, o[y] # None
               PROVE  ~g[o[y]].ref /\ \E z \in DOMAIN h : Leads(g, z, y)
    BY <1>4 DEF Placed
  <2>1. y # x /\ o[y] = owner[y] /\ owner[y] # None BY <1>2
  <2>2. owner[y] \in DOMAIN h BY <2>1, <1>0 DEF Trees, Typed
  <2>3. ~g[o[y]].ref BY <2>1, <2>2, <1>0, <1>4 DEF Trees, Placed
  <2>4. CASE y = n BY <2>3, <2>4, <1>1, <1>12
  <2>5. CASE y # n
    <3>1. PICK z \in DOMAIN h : Leads(h, z, y) BY <2>1, <1>0 DEF Trees, Placed
    <3> QED BY <3>1, <2>1, <2>3, <2>5, <1>11
  <2> QED BY <2>4, <2>5
<1>14. NoCycle(g)
  <2> SUFFICES ASSUME NEW S \in SUBSET DOMAIN h, \A y \in S : \E z \in S : Leads(g, z, y)
               PROVE  S = {}
    BY <1>4 DEF NoCycle
  <2> DEFINE T == S \cup (IF n \in S THEN {x} ELSE {})
  <2>1. ASSUME NEW y \in S PROVE \E z \in T : Leads(h, z, y)
    <3>1. PICK z \in S : Leads(g, z, y) BY <2>1
    <3>2. CASE Leads(h, z, y) BY <3>1, <3>2
    <3>3. CASE ~Leads(h, z, y)
      <4>1. y = n BY <3>1, <3>3, <1>11
      <4> QED BY <4>1, <2>1, <1>1, <1>12
    <3> QED BY <3>2, <3>3
  <2>2. ASSUME n \in S PROVE \E z \in T : Leads(h, z, x)
    <3>0. n # None BY <2>2, <1>1
    <3>1. PICK z \in S : Leads(g, z, n) BY <2>2
    <3>2. ASSUME Leads(h, z, n) PROVE FALSE
      <4>1. CASE h[z].next = n
        <5>1. z = x BY <3>0, <4>1, <1>0, <1>6 DEF Trees, NextLinks
        <5>2. g[x].next = None /\ g[x].child = h[x].child /\ g[x].ref = h[x].ref BY <1>1, <1>4
        <5>3. ~h[x].ref /\ h[x].child = n BY <5>1, <5>2, <3>0, <3>1 DEF Leads
        <5>4. owner[n] = x BY <5>3, <3>0, <1>0 DEF Trees, ChildLinks
        <5> QED BY <5>4, <3>0, <1>1, <1>6
      <4>2. CASE ~h[z].ref /\ h[z].child = n
        <5>1. owner[n] = z BY <4>2, <3>0, <1>0 DEF Trees, ChildLinks
        <5>2. z = p BY <5>1, <3>0, <1>6
        <5> QED BY <5>2, <4>2, <3>0, <1>6 DEF c
      <4> QED BY <3>2, <4>1, <4>2 DEF Leads
    <3>3. z = before BY <3>1, <3>2, <2>2, <1>11
    <3> QED BY <3>3, <1>12
  <2>3. T \in SUBSET DOMAIN h OBVIOUS
  <2>4. \A y \in T : \E z \in T : Leads(h, z, y) BY <2>1, <2>2
  <2>5. S \subseteq T OBVIOUS
  <2> HIDE DEF T
  <2>6. T = {} BY <2>3, <2>4, <1>0 DEF Trees, NoCycle
  <2> QED BY <2>5, <2>6
<1>15. References(g, gd, o)
  <2> SUFFICES ASSUME NEW r \in DOMAIN h, h[r].ref, r \in gd \/ o[r] # None PROVE Shared(g, r)
    BY <1>4 DEF References
  <2>1. r \in hd \/ owner[r] # None BY <1>1, <1>2
  <2>2. Shared(h, r) BY <2>1 DEF Sound, References
  <2>3. r # p BY <1>3
  <2>4. g[r].child = h[r].child BY <2>3, <1>4
  <2> SUFFICES ASSUME h[r].child # None
               PROVE  h[r].child \in DOMAIN h /\ \E q \in DOMAIN h : ~g[q].ref /\ g[q].child = h[r].child
    BY <2>4, <1>4 DEF Shared
  <2>5. PICK q \in DOMAIN h : ~h[q].ref /\ h[q].child = h[r].child BY <2>2 DEF Shared
  <2>6. ~(q = p /\ x = c)
    <3>1. r \in Kept(h, hd, owner) BY <2>1 DEF Kept
    <3> QED BY <3>1, <2>5 DEF c
  <2>7. g[q].child = h[q].child BY <2>6, <1>4
  <2> QED BY <2>2, <2>5, <2>7, <1>4 DEF Shared
<1> QED BY <1>4, <1>7, <1>8, <1>9, <1>10, <1>13, <1>14, <1>15 DEF Sound, Trees, o

(* The assignments of cJSON_DetachItemViaPointer, one after the other.     *)
LEMMA UnlinkAssigns ==
  ASSUME NEW D \in SUBSET Item, NEW h \in [D -> Cell], NEW x \in D, NEW p \in D,
         h[p].child \in D, h[x].prev \in D, h[x].next \in D \cup {None}
  PROVE  Unlinked(h, p, x, Unlink(h, p, x))
<1> DEFINE first == h[p].child  v == h[x].prev  n == h[x].next
           a == IF x # first THEN [h EXCEPT ![v].next = n] ELSE h
           b == IF n # None THEN [a EXCEPT ![n].prev = v] ELSE a
           c == IF x = first THEN [b EXCEPT ![p].child = n]
                ELSE IF n = None THEN [b EXCEPT ![first].prev = v] ELSE b
           d == [c EXCEPT ![x].prev = None]
           g == [d EXCEPT ![x].next = None]
<1>1. Unlink(h, p, x) = g BY DEF Unlink
<1>2. h \in [D -> Cell] /\ x \in D /\ p \in D OBVIOUS
<1>3. v \in D /\ first \in D OBVIOUS
<1>4. n # None => n \in D OBVIOUS
<1>5. v \in Item \cup {None} /\ n \in Item \cup {None} /\ None \in Item \cup {None} OBVIOUS
<1> HIDE DEF first, v, n
<1>6. /\ a \in [D -> Cell]
      /\ \A z \in D : /\ a[z].next = IF x # first /\ z = v THEN n ELSE h[z].next
                      /\ a[z].prev = h[z].prev /\ a[z].child = h[z].child
                      /\ a[z].ref = h[z].ref
  <2>1. CASE x = first BY <2>1, <1>2
  <2>2. CASE x # first
    <3>1. a = [h EXCEPT ![v].next = n] BY <2>2
    <3> HIDE DEF a
    <3> QED BY <3>1, <2>2, <1>2, <1>3, <1>5, SetNext
  <2> QED BY <2>1, <2>2
<1> HIDE DEF a
<1>7. /\ b \in [D -> Cell]
      /\ \A z \in D : /\ b[z].prev = IF n # None /\ z = n THEN v ELSE a[z].prev
                      /\ b[z].next = a[z].next /\ b[z].child = a[z].child
                      /\ b[z].ref = a[z].ref
  <2>1. CASE n = None BY <2>1, <1>6
  <2>2. CASE n # None
    <3>1. b = [a EXCEPT ![n].prev = v] BY <2>2
    <3> HIDE DEF b
    <3> QED BY <3>1, <2>2, <1>4, <1>5, <1>6, SetPrev
  <2> QED BY <2>1, <2>2
<1> HIDE DEF b
<1>8. /\ c \in [D -> Cell]
      /\ \A z \in D : /\ c[z].prev = IF x # first /\ n = None /\ z = first THEN v ELSE b[z].prev
                      /\ c[z].child = IF x = first /\ z = p THEN n ELSE b[z].child
                      /\ c[z].next = b[z].next /\ c[z].ref = b[z].ref
  <2>1. CASE x = first
    <3>1. c = [b EXCEPT ![p].child = n] BY <2>1
    <3> HIDE DEF c
    <3> QED BY <3>1, <2>1, <1>2, <1>5, <1>7, SetChild
  <2>2. CASE x # first /\ n = None
    <3>1. c = [b EXCEPT ![first].prev = v] BY <2>2
    <3>2. b \in [D -> Cell] BY <1>7
    <3> HIDE DEF c
    <3>3. /\ c \in [D -> Cell]
          /\ \A z \in D : /\ c[z].prev = IF z = first THEN v ELSE b[z].prev
                          /\ c[z].next = b[z].next /\ c[z].child = b[z].child
                          /\ c[z].ref = b[z].ref
      BY ONLY <3>1, <3>2, <1>3, <1>5, SetPrev
    <3> QED BY <3>3, <2>2
  <2>3. CASE x # first /\ n # None BY <2>3, <1>7
  <2> QED BY <2>1, <2>2, <2>3
<1> HIDE DEF c
<1>9. /\ d \in [D -> Cell]
      /\ \A z \in D : /\ d[z].prev = IF z = x THEN None ELSE c[z].prev
                      /\ d[z].next = c[z].next /\ d[z].child = c[z].child
                      /\ d[z].ref = c[z].ref
  <2>1. c \in [D -> Cell] BY <1>8
  <2>2. PICK nil \in Item \cup {None} : nil = None OBVIOUS
  <2>3. nil \in Item \cup {None} BY <2>2
  <2>4. LET e == [c EXCEPT ![x].prev = nil]
        IN /\ e \in [D -> Cell]
           /\ \A z \in D : /\ e[z].prev = IF z = x THEN nil ELSE c[z].prev
                           /\ e[z].next = c[z].next /\ e[z].child = c[z].child
                           /\ e[z].ref = c[z].ref
    BY ONLY <2>1, <2>3, <1>2, SetPrev
  <2> QED BY <2>2, <2>4
<1> HIDE DEF d
<1>10. /\ g \in [D -> Cell]
       /\ \A z \in D : /\ g[z].next = IF z = x THEN None ELSE d[z].next
                       /\ g[z].prev = d[z].prev /\ g[z].child = d[z].child
                       /\ g[z].ref = d[z].ref
  <2>1. d \in [D -> Cell] BY <1>9
  <2>2. PICK nil \in Item \cup {None} : nil = None OBVIOUS
  <2>3. nil \in Item \cup {None} BY <2>2
  <2>4. LET e == [d EXCEPT ![x].next = nil]
        IN /\ e \in [D -> Cell]
           /\ \A z \in D : /\ e[z].next = IF z = x THEN nil ELSE d[z].next
                           /\ e[z].prev = d[z].prev /\ e[z].child = d[z].child
                           /\ e[z].ref = d[z].ref
    BY ONLY <2>1, <2>3, <1>2, SetNext
  <2> QED BY <2>2, <2>4
<1> HIDE DEF g
<1>11. ASSUME NEW z \in D
       PROVE  /\ g[z].ref = h[z].ref
              /\ g[z].child = IF z = p /\ x = first THEN n ELSE h[z].child
              /\ g[z].next = IF z = x THEN None ELSE IF z = v /\ x # first THEN n ELSE h[z].next
              /\ g[z].prev = IF z = x THEN None
                             ELSE IF z = n \/ (z = first /\ x # first /\ n = None) THEN v
                             ELSE h[z].prev
  <2>1. z # None BY NoneAssumption
  <2> QED BY <2>1, <1>6, <1>7, <1>8, <1>9, <1>10
<1>12. DOMAIN h = D OBVIOUS
<1> QED BY <1>1, <1>10, <1>11, <1>12 DEF Unlinked, first, v, n

(* Together they unlink the member.                                        *)
LEMMA UnlinkIs ==
  ASSUME NEW h, NEW hd, NEW owner, Trees(h, hd, owner), NEW x \in DOMAIN h, NEW p \in DOMAIN h,
         owner[x] = p
  PROVE  Unlinked(h, p, x, Unlink(h, p, x))
<1> DEFINE D == DOMAIN h
<1>1. p # None /\ h \in [D -> Cell] /\ D \subseteq Item BY CellType DEF Trees, Typed
<1>2. h[x].prev \in D /\ h[p].child # None /\ ~h[p].ref BY <1>1, BeforeIs
<1>3. h[p].child \in D BY <1>2 DEF Trees, ChildLinks
<1>4. h[x].next \in D \cup {None} BY DEF Trees, NextLinks
<1>5. x \in D /\ p \in D OBVIOUS
<1> HIDE DEF D
<1> QED BY <1>1, <1>2, <1>3, <1>4, <1>5, UnlinkAssigns

(* cJSON_InsertItemInArray appends, or links in before the member there.   *)
LEMMA InsertIs ==
  ASSUME NEW h, NEW hd, NEW owner, Trees(h, hd, owner), NEW p \in DOMAIN h, ~h[p].ref,
         NEW x \in DOMAIN h, owner[x] = None, x # p, NEW i
  PROVE  LET y == GetArrayItem(h, p, i)
         IN \/ Insert1(h, p, i, x) = Append1(h, p, x)
            \/ y \in DOMAIN h /\ owner[y] = p /\ LinkedBefore(h, p, x, y, Insert1(h, p, i, x))
<1> DEFINE y == GetArrayItem(h, p, i)  D == DOMAIN h  first == h[p].child  w == h[y].prev
           a == [h EXCEPT ![x].next = y]
           b == [a EXCEPT ![x].prev = w]
           c == [b EXCEPT ![y].prev = x]
           g == IF y = first THEN [c EXCEPT ![p].child = x] ELSE [c EXCEPT ![w].next = x]
<1>1. CASE y = None BY <1>1 DEF Insert1
<1>2. CASE y # None
  <2>1. y \in Members(h, p) BY <1>2 DEF GetArrayItem
  <2>2. y \in D /\ owner[y] = p BY <2>1, MembersAre
  <2>3. p # None /\ x # None /\ h \in [D -> Cell] /\ D \subseteq Item /\ x \in D /\ p \in D /\ x # y
    BY <2>2, CellType DEF Trees, Typed
  <2>4. w \in D /\ (y # first => w # x)
    <3>1. /\ w \in D
          /\ y # first => h[w].next = y
      BY <2>2, <2>3, BeforeIs
    <3> QED BY <3>1, <1>2, <2>2, <2>3 DEF Trees, RootsApart
  <2>5. Insert1(h, p, i, x) = g BY <1>2 DEF Insert1
  <2>6. x \in Item \cup {None} /\ y \in Item \cup {None} /\ w \in Item \cup {None}
    BY <2>2, <2>3, <2>4
  <2> HIDE DEF y, D, first, w
  <2>7. /\ a \in [D -> Cell]
        /\ \A z \in D : /\ a[z].next = IF z = x THEN y ELSE h[z].next
                        /\ a[z].prev = h[z].prev /\ a[z].child = h[z].child
                        /\ a[z].ref = h[z].ref
    BY <2>3, <2>6, SetNext
  <2> HIDE DEF a
  <2>8. /\ b \in [D -> Cell]
        /\ \A z \in D : /\ b[z].prev = IF z = x THEN w ELSE a[z].prev
                        /\ b[z].next = a[z].next /\ b[z].child = a[z].child
                        /\ b[z].ref = a[z].ref
    BY <2>3, <2>6, <2>7, SetPrev
  <2> HIDE DEF b
  <2>9. /\ c \in [D -> Cell]
        /\ \A z \in D : /\ c[z].prev = IF z = y THEN x ELSE b[z].prev
                        /\ c[z].next = b[z].next /\ c[z].child = b[z].child
                        /\ c[z].ref = b[z].ref
    BY <2>2, <2>6, <2>8, SetPrev
  <2> HIDE DEF c
  <2>10. /\ g \in [D -> Cell]
         /\ \A z \in D : /\ g[z].child = IF y = first /\ z = p THEN x ELSE c[z].child
                         /\ g[z].next = IF y # first /\ z = w THEN x ELSE c[z].next
                         /\ g[z].prev = c[z].prev /\ g[z].ref = c[z].ref
    <3>1. CASE y = first
      <4>1. g = [c EXCEPT ![p].child = x] BY <3>1
      <4> HIDE DEF g
      <4> QED BY <4>1, <3>1, <2>3, <2>6, <2>9, SetChild
    <3>2. CASE y # first
      <4>1. g = [c EXCEPT ![w].next = x] BY <3>2
      <4>2. c \in [D -> Cell] BY <2>9
      <4> HIDE DEF g
      <4>3. /\ g \in [D -> Cell]
            /\ \A z \in D : /\ g[z].next = IF z = w THEN x ELSE c[z].next
                            /\ g[z].prev = c[z].prev /\ g[z].child = c[z].child
                            /\ g[z].ref = c[z].ref
        BY ONLY <4>1, <4>2, <2>4, <2>6, SetNext
      <4> QED BY <4>3, <3>2
    <3> QED BY <3>1, <3>2
  <2> HIDE DEF g
  <2>11. ASSUME NEW z \in D
         PROVE  /\ g[z].ref = h[z].ref
                /\ g[z].child = IF z = p /\ y = first THEN x ELSE h[z].child
                /\ g[z].next = IF z = x THEN y ELSE IF z = w /\ y # first THEN x ELSE h[z].next
                /\ g[z].prev = IF z = x THEN w ELSE IF z = y THEN x ELSE h[z].prev
    BY <2>3, <2>4, <2>7, <2>8, <2>9, <2>10
  <2>12. LinkedBefore(h, p, x, y, g) BY <2>10, <2>11 DEF LinkedBefore, D, first, w
  <2> QED BY <2>2, <2>5, <2>12 DEF y, D
<1> QED BY <1>1, <1>2

(* cJSON_ReplaceItemViaPointer: y takes the place of the member x of p.     *)
SwappedFor(h, p, x, y, g) ==
  /\ g \in [DOMAIN h -> Cell]
  /\ \A z \in DOMAIN h :
       /\ g[z].ref = h[z].ref
       /\ g[z].child = IF z = p /\ x = h[p].child THEN y ELSE h[z].child
       /\ g[z].next = IF z = x THEN None ELSE IF z = y THEN h[x].next
                      ELSE IF z = h[x].prev /\ x # h[p].child THEN y ELSE h[z].next
       /\ g[z].prev = IF z = x THEN None
                      ELSE IF z = y
                           THEN IF x = h[p].child /\ h[x].prev = x THEN y ELSE h[x].prev
                      ELSE IF \/ z = h[x].next
                              \/ z = h[p].child /\ x # h[p].child /\ h[x].next = None
                           THEN y ELSE h[z].prev

(* The assignments of cJSON_ReplaceItemViaPointer, one after the other.    *)
LEMMA SwapAssigns ==
  ASSUME NEW D \in SUBSET Item, NEW h \in [D -> Cell], NEW x \in D, NEW p \in D, NEW y \in D,
         h[p].child \in D, h[x].prev \in D, h[x].next \in D \cup {None},
         y # x, y # h[p].child, y # h[x].prev, y # h[x].next, h[x].next # x,
         x # h[p].child => h[x].prev # x
  PROVE  SwappedFor(h, p, x, y, Swapped(h, p, x, y))
<1> DEFINE first == h[p].child  v == h[x].prev  n == h[x].next
           a0 == [h EXCEPT ![y].next = n]
           a == [a0 EXCEPT ![y].prev = v]
           b == IF n # None THEN [a EXCEPT ![n].prev = y] ELSE a
           w == IF v = x THEN y ELSE v
           c0 == [b EXCEPT ![y].prev = w]
           d == [b EXCEPT ![v].next = y]
           c == IF first = x THEN [c0 EXCEPT ![p].child = y]
                ELSE IF n = None THEN [d EXCEPT ![first].prev = y] ELSE d
           e == [c EXCEPT ![x].next = None]
           g == [e EXCEPT ![x].prev = None]
<1>2. h \in [D -> Cell] /\ x \in D /\ p \in D /\ y \in D OBVIOUS
<1>3. v \in D /\ first \in D OBVIOUS
<1>4. n # None => n \in D OBVIOUS
<1>5. /\ v \in Item \cup {None} /\ n \in Item \cup {None} /\ y \in Item \cup {None}
      /\ w \in Item \cup {None}
  OBVIOUS
<1>6. y # x /\ y # first /\ y # v /\ y # n /\ n # x /\ (x # first => v # x) OBVIOUS
<1> HIDE DEF first, v, n, w
<1>7. /\ a0 \in [D -> Cell]
      /\ \A z \in D : /\ a0[z].next = IF z = y THEN n ELSE h[z].next
                      /\ a0[z].prev = h[z].prev /\ a0[z].child = h[z].child
                      /\ a0[z].ref = h[z].ref
  BY ONLY <1>2, <1>5, SetNext
<1>8. /\ a \in [D -> Cell]
      /\ \A z \in D : /\ a[z].prev = IF z = y THEN v ELSE a0[z].prev
                      /\ a[z].next = a0[z].next /\ a[z].child = a0[z].child
                      /\ a[z].ref = a0[z].ref
  <2>1. a0 \in [D -> Cell] BY <1>7
  <2> HIDE DEF a0
  <2> QED BY ONLY <2>1, <1>2, <1>5, SetPrev
<1>9. /\ b \in [D -> Cell]
      /\ \A z \in D : /\ b[z].prev = IF n # None /\ z = n THEN y ELSE a[z].prev
                      /\ b[z].next = a[z].next /\ b[z].child = a[z].child
                      /\ b[z].ref = a[z].ref
  <2>1. a \in [D -> Cell] BY <1>8
  <2> HIDE DEF a
  <2>2. CASE n = None BY <2>1, <2>2
  <2>3. CASE n # None
    <3>1. LET f == [a EXCEPT ![n].prev = y]
          IN /\ f \in [D -> Cell]
             /\ \A z \in D : /\ f[z].prev = IF z = n THEN y ELSE a[z].prev
                             /\ f[z].next = a[z].next /\ f[z].child = a[z].child
                             /\ f[z].ref = a[z].ref
      BY ONLY <2>1, <2>3, <1>4, <1>5, SetPrev
    <3> QED BY <3>1, <2>3
  <2> QED BY <2>2, <2>3
<1> HIDE DEF a0, a, b
<1>10. /\ c0 \in [D -> Cell]
       /\ \A z \in D : /\ c0[z].prev = IF z = y THEN w ELSE b[z].prev
                       /\ c0[z].next = b[z].next /\ c0[z].child = b[z].child
                       /\ c0[z].ref = b[z].ref
  <2>1. b \in [D -> Cell] BY <1>9
  <2> QED BY ONLY <2>1, <1>2, <1>5, SetPrev
<1>11. /\ d \in [D -> Cell]
       /\ \A z \in D : /\ d[z].next = IF z = v THEN y ELSE b[z].next
                       /\ d[z].prev = b[z].prev /\ d[z].child = b[z].child
                       /\ d[z].ref = b[z].ref
  <2>1. b \in [D -> Cell] BY <1>9
  <2> QED BY ONLY <2>1, <1>3, <1>5, SetNext
<1> HIDE DEF c0, d
<1>12. /\ c \in [D -> Cell]
       /\ \A z \in D : /\ c[z].child = IF x = first /\ z = p THEN y ELSE b[z].child
                       /\ c[z].next = IF x # first /\ z = v THEN y ELSE b[z].next
                       /\ c[z].prev = IF x = first /\ z = y THEN w
                                      ELSE IF x # first /\ n = None /\ z = first THEN y
                                      ELSE b[z].prev
                       /\ c[z].ref = b[z].ref
  <2>1. CASE x = first
    <3>1. c0 \in [D -> Cell] BY <1>10
    <3>2. LET f == [c0 EXCEPT ![p].child = y]
          IN /\ f \in [D -> Cell]
             /\ \A z \in D : /\ f[z].child = IF z = p THEN y ELSE c0[z].child
                             /\ f[z].next = c0[z].next /\ f[z].prev = c0[z].prev
                             /\ f[z].ref = c0[z].ref
      BY ONLY <3>1, <1>2, <1>5, SetChild
    <3> QED BY <3>2, <2>1, <1>10
  <2>2. CASE x # first /\ n = None
    <3>1. d \in [D -> Cell] BY <1>11
    <3>2. LET f == [d EXCEPT ![first].prev = y]
          IN /\ f \in [D -> Cell]
             /\ \A z \in D : /\ f[z].prev = IF z = first THEN y ELSE d[z].prev
                             /\ f[z].next = d[z].next /\ f[z].child = d[z].child
                             /\ f[z].ref = d[z].ref
      BY ONLY <3>1, <1>3, <1>5, SetPrev
    <3> QED BY <3>2, <2>2, <1>11
  <2>3. CASE x # first /\ n # None BY <2>3, <1>11
  <2> QED BY <2>1, <2>2, <2>3
<1>13. /\ e \in [D -> Cell]
       /\ \A z \in D : /\ e[z].next = IF z = x THEN None ELSE c[z].next
                       /\ e[z].prev = c[z].prev /\ e[z].child = c[z].child
                       /\ e[z].ref = c[z].ref
  <2>1. c \in [D -> Cell] BY <1>12
  <2>2. PICK nil \in Item \cup {None} : nil = None OBVIOUS
  <2>3. nil \in Item \cup {None} BY <2>2
  <2> HIDE DEF c
  <2>4. LET f == [c EXCEPT ![x].next = nil]
        IN /\ f \in [D -> Cell]
           /\ \A z \in D : /\ f[z].next = IF z = x THEN nil ELSE c[z].next
                           /\ f[z].prev = c[z].prev /\ f[z].child = c[z].child
                           /\ f[z].ref = c[z].ref
    BY ONLY <2>1, <2>3, <1>2, SetNext
  <2> QED BY <2>2, <2>4
<1>14. Swapped(h, p, x, y) = g
  <2>1. a = [h EXCEPT ![y].next = h[x].next, ![y].prev = h[x].prev] BY DEF a, a0, n, v
  <2>2. a[y].next = n /\ b[y].prev = v /\ b[x].prev = v
    <3>1. a[y].next = n BY <1>2, <1>7, <1>8
    <3>2. b[y].prev = v BY <1>2, <1>6, <1>8, <1>9
    <3>3. b[x].prev = v BY <1>2, <1>6, <1>7, <1>8, <1>9 DEF v
    <3> QED BY <3>1, <3>2, <3>3
  <2>3. b = IF a[y].next # None THEN [a EXCEPT ![a[y].next].prev = y] ELSE a
    BY <2>2 DEF b
  <2>4. first = x => c = [b EXCEPT ![y].prev = IF b[first].prev = first THEN y ELSE @,
                                   ![p].child = y]
    BY <2>2 DEF c0, w
  <2>5. d = [b EXCEPT ![b[y].prev].next = y] BY <2>2 DEF d
  <2>6. first # x => d[y].next = n BY <1>2, <1>6, <1>7, <1>8, <1>9, <1>11
  <2>7. first # x => c = IF d[y].next = None THEN [d EXCEPT ![first].prev = y] ELSE d
    BY <2>6
  <2> HIDE DEF c
  <2>8. g = [c EXCEPT ![x].next = None, ![x].prev = None] BY SMTT(40)
  <2> HIDE DEF g, e
  <2> DEFINE A == [h EXCEPT ![y].next = h[x].next, ![y].prev = h[x].prev]
             B == IF A[y].next # None THEN [A EXCEPT ![A[y].next].prev = y] ELSE A
             E == [B EXCEPT ![B[y].prev].next = y]
             C == IF h[p].child = x
                  THEN [B EXCEPT ![y].prev = IF B[h[p].child].prev = h[p].child THEN y ELSE @,
                                 ![p].child = y]
                  ELSE IF E[y].next = None THEN [E EXCEPT ![h[p].child].prev = y] ELSE E
  <2>9. Swapped(h, p, x, y) = [C EXCEPT ![x].next = None, ![x].prev = None] BY DEF Swapped
  <2>10. A = a BY <2>1
  <2> HIDE DEF A
  <2>11. B = b BY <2>3, <2>10
  <2> HIDE DEF B
  <2>12. E = d BY <2>5, <2>11
  <2> HIDE DEF E
  <2>13. C = c
    <3>1. CASE first = x BY <3>1, <2>4, <2>11 DEF first
    <3>2. CASE first # x BY <3>2, <2>7, <2>12 DEF first
    <3> QED BY <3>1, <3>2
  <2> HIDE DEF C
  <2> QED BY <2>8, <2>9, <2>13
<1> HIDE DEF c, e
<1>15. /\ g \in [D -> Cell]
       /\ \A z \in D : /\ g[z].prev = IF z = x THEN None ELSE e[z].prev
                       /\ g[z].next = e[z].next /\ g[z].child = e[z].child
                       /\ g[z].ref = e[z].ref
  <2>1. e \in [D -> Cell] BY <1>13
  <2>2. PICK nil \in Item \cup {None} : nil = None OBVIOUS
  <2>3. nil \in Item \cup {None} BY <2>2
  <2>4. LET f == [e EXCEPT ![x].prev = nil]
        IN /\ f \in [D -> Cell]
           /\ \A z \in D : /\ f[z].prev = IF z = x THEN nil ELSE e[z].prev
                           /\ f[z].next = e[z].next /\ f[z].child = e[z].child
                           /\ f[z].ref = e[z].ref
    BY ONLY <2>1, <2>3, <1>2, SetPrev
  <2> QED BY <2>2, <2>4
<1> HIDE DEF g
<1>16. ASSUME NEW z \in D
       PROVE  /\ g[z].ref = h[z].ref
              /\ g[z].child = IF z = p /\ x = first THEN y ELSE h[z].child
              /\ g[z].next = IF z = x THEN None ELSE IF z = y THEN n
                             ELSE IF z = v /\ x # first THEN y ELSE h[z].next
  BY <1>6, <1>7, <1>8, <1>9, <1>12, <1>13, <1>15
<1>17. ASSUME NEW z \in D
       PROVE  g[z].prev = IF z = x THEN None
                          ELSE IF z = y THEN IF x = first /\ v = x THEN y ELSE v
                          ELSE IF z = n \/ (z = first /\ x # first /\ n = None)
                               THEN y ELSE h[z].prev
  <2>1. z # None BY NoneAssumption
  <2>2. z # x => g[z].prev = c[z].prev BY <1>13, <1>15
  <2>3. z = x => g[z].prev = None BY <1>15
  <2>4. z # y => b[z].prev = IF z = n THEN y ELSE h[z].prev BY <2>1, <1>7, <1>8, <1>9
  <2>5. b[y].prev = v BY <1>2, <1>6, <1>8, <1>9
  <2> QED BY <2>2, <2>3, <2>4, <2>5, <1>6, <1>12 DEF w
<1>18. DOMAIN h = D OBVIOUS
<1> QED BY <1>14, <1>15, <1>16, <1>17, <1>18 DEF SwappedFor, first, v, n

(* To take the place of x is to be linked in before it and to unlink it.   *)
LEMMA SwappedSound ==
  ASSUME NEW h, NEW hd, NEW owner, Sound(h, hd, owner), NEW p \in DOMAIN h, NEW x \in DOMAIN h,
         owner[x] = p, NEW y \in hd, p \notin Freed(h, y),
         x = h[p].child =>
           \A r \in Kept(h, hd, owner) : h[r].ref => h[r].child # h[p].child
  PROVE  Sound(Swapped(h, p, x, y), (hd \ {y}) \cup {x},
               [[owner EXCEPT ![y] = p] EXCEPT ![x] = None])
<1> DEFINE D == DOMAIN h  c == h[p].child  v == h[x].prev  n == h[x].next
           g == Swapped(h, p, x, y)
           Child(z) == IF z = p /\ x = c THEN y ELSE h[z].child
           Next2(z) == IF z = y THEN x ELSE IF z = v /\ x # c THEN y ELSE h[z].next
           Prev(z) == IF z = y THEN v ELSE IF z = x THEN y ELSE h[z].prev
           u == [z \in D |-> [h[z] EXCEPT !.child = Child(z), !.next = Next2(z), !.prev = Prev(z)]]
           o == [owner EXCEPT ![y] = p]
<1>0. Trees(h, hd, owner) BY DEF Sound
<1>1. /\ y \in D /\ owner[y] = None /\ h[y].next = None /\ h[y].prev = None /\ y # x /\ y # p
      /\ p # None /\ x # None /\ y # None /\ D \subseteq Item /\ h \in [D -> Cell]
      /\ None \notin D /\ x # p
  <2>1. y \in D /\ owner[y] = None BY <1>0 DEF Trees, Typed, RootsApart
  <2>2. y # p BY <2>1, FreedIs
  <2>3. p # None /\ x # None /\ y # None BY <1>0, <2>1, CellType DEF Trees
  <2>4. x # p BY <1>0, NotItsOwner
  <2> QED BY <2>1, <2>2, <2>3, <2>4, <1>0, NoneAssumption DEF Trees, Typed, RootsApart
<1>2. /\ ~h[p].ref /\ c # None /\ v \in D /\ owner[v] = p /\ v # y
      /\ x = c => h[v].next = None
      /\ x # c => h[v].next = x /\ v # x
      /\ n # x
  BY <1>0, <1>1, BeforeIs
<1>3. n # None => n \in D /\ owner[n] = p /\ n # y
  BY <1>0, <1>1 DEF Trees, NextLinks
<1>4. c \in D /\ c # y BY <1>0, <1>1, <1>2 DEF Trees, ChildLinks
<1>5. x = c => (n = None <=> v = x)
  <2>1. ASSUME x = c, n = None PROVE v = x
    <3>1. Members(h, p) = {z \in D : owner[z] = p} BY <1>0, <1>2, MembersAre
    <3>2. v \in Onward(h, x) BY <3>1, <2>1, <1>2 DEF Members
    <3>3. Stays(h, {x}, Next1) BY <2>1, <1>1 DEF Stays, Next1
    <3> QED BY <3>2, <3>3, OnwardIs
  <2> QED BY <2>1, <1>2
<1>6. SwappedFor(h, p, x, y, g)
  <2>1. n \in D \cup {None} /\ y # n BY <1>1, <1>3
  <2> HIDE DEF D
  <2>2. x \in D /\ p \in D BY DEF D
  <2> QED BY <2>1, <2>2, <1>1, <1>2, <1>4, SwapAssigns
<1> HIDE DEF g
<1>7. /\ DOMAIN u = D /\ u \in [D -> Cell]
      /\ \A z \in D : /\ u[z].ref = h[z].ref /\ u[z].child = Child(z)
                      /\ u[z].next = Next2(z) /\ u[z].prev = Prev(z)
  <2>1. ASSUME NEW z \in D
        PROVE  /\ u[z] \in Cell /\ u[z].ref = h[z].ref /\ u[z].child = Child(z)
               /\ u[z].next = Next2(z) /\ u[z].prev = Prev(z)
    <3>1. /\ h[z] \in Cell /\ h[z].next \in Item \cup {None} /\ h[z].prev \in Item \cup {None}
          /\ h[z].child \in Item \cup {None}
      BY <1>0, CellType DEF Trees
    <3>2. /\ Child(z) \in Item \cup {None} /\ Next2(z) \in Item \cup {None}
          /\ Prev(z) \in Item \cup {None}
      BY <3>1, <1>1, <1>2
    <3> HIDE DEF Child, Next2, Prev
    <3>3. u[z] = [h[z] EXCEPT !.child = Child(z), !.next = Next2(z), !.prev = Prev(z)]
      OBVIOUS
    <3> HIDE DEF u
    <3> QED BY ZenonT(40), <3>1, <3>2, <3>3 DEF Cell
  <2> QED BY <2>1
<1> HIDE DEF u
<1>8. LinkedBefore(h, p, y, x, u) BY <1>7 DEF LinkedBefore
<1>9. Sound(u, hd \ {y}, o) BY <1>8, LinkedSound
<1>10. o[x] = p /\ DOMAIN u = D BY <1>0, <1>1, <1>7 DEF Trees, Typed
<1>11. x # u[p].child /\ u[x].next = n /\ u[x].prev = y
       /\ u[p].child = IF x = c THEN y ELSE c
  <2>1. u[p].child = IF x = c THEN y ELSE c BY <1>7
  <2>2. u[x].next = n BY <1>1, <1>2, <1>7
  <2>3. u[x].prev = y BY <1>1, <1>7
  <2> QED BY <2>1, <2>2, <2>3, <1>1
<1>12. Unlinked(u, p, x, g)
  <2>1. g \in [D -> Cell] BY <1>6 DEF SwappedFor
  <2>2. ASSUME NEW z \in D
        PROVE  /\ g[z].ref = h[z].ref
               /\ g[z].child = IF z = p /\ x = c THEN y ELSE h[z].child
               /\ g[z].next = IF z = x THEN None ELSE IF z = y THEN n
                              ELSE IF z = v /\ x # c THEN y ELSE h[z].next
               /\ g[z].prev = IF z = x THEN None
                              ELSE IF z = y THEN IF x = c /\ v = x THEN y ELSE v
                              ELSE IF z = n \/ (z = c /\ x # c /\ n = None)
                                   THEN y ELSE h[z].prev
    BY <1>6 DEF SwappedFor
  <2>3. ASSUME NEW z \in D
        PROVE  /\ g[z].ref = u[z].ref /\ g[z].child = u[z].child
               /\ g[z].next = IF z = x THEN None ELSE IF z = y THEN n ELSE u[z].next
    <3>1. g[z].ref = u[z].ref /\ g[z].child = u[z].child BY <2>2, <1>7
    <3>2. g[z].next = IF z = x THEN None ELSE IF z = y THEN n ELSE u[z].next
      BY <2>2, <1>7
    <3> QED BY <3>1, <3>2
  <2>4. ASSUME NEW z \in D
        PROVE  g[z].prev = IF z = x THEN None
                           ELSE IF z = n \/ (z = u[p].child /\ n = None) THEN y ELSE u[z].prev
    <3>1. CASE z = x BY <3>1, <2>2
    <3>2. CASE z = y
      <4>1. g[z].prev = IF x = c /\ v = x THEN y ELSE v BY <3>2, <2>2, <1>1
      <4>2. u[z].prev = v BY <3>2, <1>7
      <4>3. z # n BY <3>2, <1>1, <1>3
      <4> QED BY <4>1, <4>2, <4>3, <3>2, <1>1, <1>4, <1>5, <1>11
    <3>3. CASE z # x /\ z # y
      <4>1. u[z].prev = h[z].prev BY <3>3, <1>7
      <4>2. g[z].prev = IF z = n \/ (z = c /\ x # c /\ n = None) THEN y ELSE h[z].prev
        BY <3>3, <2>2
      <4> QED BY <4>1, <4>2, <3>3, <1>11
    <3> QED BY <3>1, <3>2, <3>3
  <2> QED BY <2>1, <2>3, <2>4, <1>10, <1>11 DEF Unlinked
<1> HIDE DEF o
<1>13. Sound(g, (hd \ {y}) \cup {x}, [o EXCEPT ![x] = None])
  BY <1>9, <1>10, <1>11, <1>12, UnlinkedSound
<1> QED BY <1>13 DEF g, o

(* A key is no pointer.                                                    *)
SamePointers(h, g) ==
  /\ g \in [DOMAIN h -> Cell]
  /\ \A z \in DOMAIN h : /\ g[z].ref = h[z].ref /\ g[z].child = h[z].child
                         /\ g[z].next = h[z].next /\ g[z].prev = h[z].prev

(* A heap with the same pointers is as sound,                              *)
LEMMA SamePointersSound ==
  ASSUME NEW h, NEW hd, NEW owner, Sound(h, hd, owner), NEW g, SamePointers(h, g)
  PROVE  Sound(g, hd, owner)
<1>0. /\ DOMAIN g = DOMAIN h /\ g \in [DOMAIN h -> Cell]
      /\ \A z \in DOMAIN h : /\ g[z].ref = h[z].ref /\ g[z].child = h[z].child
                             /\ g[z].next = h[z].next /\ g[z].prev = h[z].prev
  BY DEF SamePointers
<1>1. \A z, y \in DOMAIN h : Leads(g, z, y) <=> Leads(h, z, y) BY <1>0 DEF Leads
<1>2. Typed(g, hd, owner) BY <1>0 DEF Sound, Trees, Typed
<1>3. RootsApart(g, hd, owner) BY <1>0 DEF Sound, Trees, RootsApart
<1>4. NextLinks(g, owner) BY <1>0 DEF Sound, Trees, NextLinks
<1>5. ChildLinks(g, owner) BY <1>0 DEF Sound, Trees, ChildLinks
<1>6. Placed(g, owner)
  <2> SUFFICES ASSUME NEW y \in DOMAIN h, owner[y] # None
               PROVE  ~g[owner[y]].ref /\ \E z \in DOMAIN h : Leads(g, z, y)
    BY <1>0 DEF Placed
  <2>1. owner[y] \in DOMAIN h BY DEF Sound, Trees, Typed
  <2> QED BY <2>1, <1>0, <1>1 DEF Sound, Trees, Placed
<1>7. NoCycle(g) BY <1>0, <1>1 DEF Sound, Trees, NoCycle
<1>8. References(g, hd, owner) BY <1>0 DEF Sound, References, Shared
<1> QED BY <1>2, <1>3, <1>4, <1>5, <1>6, <1>7, <1>8 DEF Sound, Trees

(* and no more of it is freed.                                             *)
LEMMA SamePointersFreed ==
  ASSUME NEW h, DOMAIN h \subseteq Item, NEW g, SamePointers(h, g), NEW x \in DOMAIN h
  PROVE  Freed(g, x) \subseteq Freed(h, x)
<1>0. DOMAIN g = DOMAIN h BY DEF SamePointers
<1>1. \A z \in DOMAIN h : Owns(g, z) = Owns(h, z) BY DEF SamePointers, Owns
<1>2. x \in Freed(h, x) /\ Freed(h, x) \subseteq DOMAIN h /\ Stays(h, Freed(h, x), Owns) BY FreedIs
<1>3. Stays(g, Freed(h, x), Owns)
  <2>1. \A z \in Freed(h, x) : Owns(g, z) \cap DOMAIN g \subseteq Freed(h, x)
    BY <1>0, <1>1, <1>2 DEF Stays
  <2> QED BY <2>1 DEF Stays
<1> QED BY <1>0, <1>2, <1>3, FreedIs

(* Giving an item a key changes no pointer.                                *)
LEMMA Renamed ==
  ASSUME NEW D, NEW h \in [D -> Cell], NEW x \in D, NEW n \in Name \cup {None}
  PROVE  SamePointers(h, [h EXCEPT ![x].name = n])
<1> DEFINE g == [h EXCEPT ![x].name = n]
<1>1. [h[x] EXCEPT !.name = n] \in Cell BY DEF Cell
<1>2. g = [h EXCEPT ![x] = [h[x] EXCEPT !.name = n]] OBVIOUS
<1>3. g \in [D -> Cell] BY <1>1, <1>2
<1>4. \A z \in D : z # x => g[z] = h[z] BY <1>2
<1>5. g[x] = [h[x] EXCEPT !.name = n] BY <1>2
<1>6. /\ g[x].next = h[x].next /\ g[x].prev = h[x].prev /\ g[x].child = h[x].child
      /\ g[x].ref = h[x].ref
  BY <1>5 DEF Cell
<1>7. DOMAIN h = D OBVIOUS
<1> HIDE DEF g
<1> QED BY <1>3, <1>4, <1>6, <1>7 DEF g, SamePointers

(* What follows in a list, item by item.                                   *)
LEMMA OnwardSplits ==
  ASSUME NEW h, DOMAIN h \subseteq Item, NEW x \in DOMAIN h, NEW y \in Onward(h, x), y # x
  PROVE  h[x].next \in DOMAIN h /\ y \in Onward(h, h[x].next)
<1> DEFINE n == h[x].next  S == {x} \cup Onward(h, n)
<1>1. S \subseteq DOMAIN h BY FromIsOfHeap
<1>2. Stays(h, S, Next1)
  <2>1. ASSUME NEW z \in S, h[z].next \in DOMAIN h PROVE h[z].next \in S
    <3>1. CASE z = x BY <3>1, <2>1, OnwardIs
    <3>2. CASE z \in Onward(h, n)
      <4>1. n \in DOMAIN h BY <3>2, FromIsOfHeap
      <4> QED BY <4>1, <3>2, <2>1, OnwardIs DEF Stays, Next1
    <3> QED BY <3>1, <3>2
  <2> HIDE DEF S
  <2> QED BY <2>1 DEF Stays, Next1
<1>3. Onward(h, x) \subseteq S
  <2>1. x \in S OBVIOUS
  <2> HIDE DEF S
  <2> QED BY <2>1, <1>1, <1>2, OnwardIs
<1>4. y \in Onward(h, n) BY <1>3
<1>5. n \in DOMAIN h BY <1>4, FromIsOfHeap
<1> QED BY <1>4, <1>5

(* Of some items of a list one comes first.                                *)
LEMMA OneIsFirst ==
  ASSUME NEW h, DOMAIN h \subseteq Item, NEW c, NEW hits \in SUBSET Onward(h, c), hits # {}
  PROVE  \E x \in hits : hits \subseteq Onward(h, x)
<1> SUFFICES ASSUME \A x \in hits : ~(hits \subseteq Onward(h, x)) PROVE FALSE OBVIOUS
<1> DEFINE A == {w \in Onward(h, c) : hits \subseteq Onward(h, w)}
<1>1. c \in DOMAIN h BY FromIsOfHeap
<1>2. c \in A /\ A \subseteq DOMAIN h BY <1>1, OnwardIs
<1>3. ASSUME NEW w \in A, h[w].next \in DOMAIN h PROVE h[w].next \in A
  <2>1. h[w].next \in Onward(h, c) BY <1>1, <1>3, OnwardIs DEF Stays, Next1
  <2>2. ASSUME NEW y \in hits PROVE y \in Onward(h, h[w].next)
    <3>1. y \in Onward(h, w) /\ w \in DOMAIN h /\ y # w BY <1>2
    <3> QED BY <3>1, OnwardSplits
  <2> QED BY <2>1, <2>2
<1>4. Stays(h, A, Next1)
  <2> HIDE DEF A
  <2> QED BY <1>3 DEF Stays, Next1
<1>5. Onward(h, c) \subseteq A
  <2> HIDE DEF A
  <2> QED BY <1>1, <1>2, <1>4, OnwardIs
<1> QED BY <1>5

(* What get_object_item finds is a member.                                 *)
LEMMA GetObjectItemIs ==
  ASSUME NEW h, DOMAIN h \subseteq Item, NEW p, NEW n, NEW s, GetObjectItem(h, p, n, s) # None
  PROVE  GetObjectItem(h, p, n, s) \in Members(h, p)
<1> DEFINE Stops(x) == IF s THEN h[x].name \in {n, None}
                       ELSE h[x].name # None /\ Lower[h[x].name] = Lower[n]
           hits == {x \in Members(h, p) : Stops(x)}
           first == CHOOSE x \in hits : hits \subseteq Onward(h, x)
<1>1. /\ hits # {}
      /\ GetObjectItem(h, p, n, s) = first
  BY DEF GetObjectItem
<1>2. hits \subseteq Members(h, p) OBVIOUS
<1> HIDE DEF hits
<1>3. \E x \in hits : hits \subseteq Onward(h, x) BY <1>1, <1>2, OneIsFirst DEF Members
<1>4. first \in hits BY <1>3
<1> QED BY <1>1, <1>2, <1>4
-------------------------------------------------------------------------------
(* The callers.                                                            *)
LEMMA AddableIs ==
  ASSUME NEW owner, Trees(heap, held, owner), NEW p, NEW x \in Addable(p)
  PROVE  x \in held /\ p \notin Freed(heap, x)
<1> DEFINE c == heap[x].child  S == {x} \cup From(heap, c, Shows)
<1>1. x \in held /\ p \notin S BY DEF Addable, Sees
<1>2. /\ x \in DOMAIN heap /\ heap[x].next = None
      /\ None \notin DOMAIN heap /\ DOMAIN heap \subseteq Item
  BY <1>1, NoneAssumption DEF Trees, Typed, RootsApart
<1>3. S \subseteq DOMAIN heap BY <1>2, FromIsOfHeap
<1>4. ASSUME NEW z \in S, NEW y \in Owns(heap, z), y \in DOMAIN heap PROVE y \in S
  <2>1. CASE z = x
    <3>1. y = c BY <2>1, <1>2, <1>4 DEF Owns
    <3> QED BY <3>1, <1>4, ShownIs
  <2>2. CASE z \in From(heap, c, Shows)
    <3>1. c \in DOMAIN heap BY <2>2, FromIsOfHeap
    <3>2. y \in Shows(heap, z) BY DEF Owns, Shows
    <3> QED BY <3>1, <3>2, <2>2, <1>2, <1>4, ShownIs DEF Stays
  <2> QED BY <2>1, <2>2
<1>5. x \in S OBVIOUS
<1> HIDE DEF S
<1>6. Stays(heap, S, Owns) BY <1>4 DEF Stays
<1>7. Freed(heap, x) \subseteq S BY <1>2, <1>3, <1>5, <1>6, FreedIs
<1> QED BY <1>1, <1>7

(* A list callers change is owned and shown by no reference.               *)
LEMMA ChangeableIs ==
  ASSUME NEW owner, Trees(heap, held, owner), NEW p \in Changeable
  PROVE  /\ p \in DOMAIN heap /\ p \in Kept(heap, held, owner) /\ ~heap[p].ref
         /\ heap[p].child # None =>
              \A r \in Kept(heap, held, owner) : heap[r].ref => heap[r].child # heap[p].child
BY ReachedAre DEF Changeable, Kept

(* A member of such a list has the container for its owner.                *)
LEMMA MemberIs ==
  ASSUME NEW owner, Sound(heap, held, owner), NEW p \in Changeable, NEW x \in Members(heap, p)
  PROVE  /\ x \in DOMAIN heap /\ owner[x] = p /\ x # None /\ p # None
         /\ x = heap[p].child =>
              \A r \in Kept(heap, held, owner) : heap[r].ref => heap[r].child # heap[p].child
<1>1. p \in DOMAIN heap /\ ~heap[p].ref BY ChangeableIs DEF Sound
<1>2. x \in DOMAIN heap /\ owner[x] = p BY <1>1, MembersAre DEF Sound
<1>3. x # None /\ p # None BY <1>1, <1>2, CellType DEF Sound, Trees
<1> QED BY <1>2, <1>3, ChangeableIs DEF Sound

(* The keys and values of the program are keys and values.                 *)
LEMMA KindsAre ==
  ASSUME IInv
  PROVE  program.names \subseteq Name /\ program.values \subseteq Value
BY ProgramAssumption DEF IInv, Programs

(* cJSON_CreateObject and its likes.                                       *)
LEMMA CreateSound ==
  ASSUME NEW owner, Sound(heap, held, owner), NEW x \in Item \ Live,
         NEW k \in Kinds, NEW v \in Value \cup {None},
         heap' = Extended(heap, [y \in {x} |-> NewCell(k, v)]), held' = held \cup {x}
  PROVE  HeapOK'
<1> DEFINE c == NewCell(k, v)
<1>1. c \in Cell /\ c.next = None /\ c.prev = None /\ ~c.ref /\ c.child = None
  BY DEF NewCell, Cell
<1>2. heap' = With(heap, x, c) BY DEF With
<1>3. x \in Item \ DOMAIN heap /\ {x} \in SUBSET {x} BY DEF Live
<1> HIDE DEF c
<1>4. Sound(heap', held \cup {x}, Extended(owner, [y \in {x} |-> None]))
  BY <1>1, <1>2, <1>3, NewHeldItem
<1> QED BY <1>4 DEF HeapOK

(* cJSON_AddItemToArray.                                                   *)
LEMMA AddSound ==
  ASSUME NEW owner, Sound(heap, held, owner), NEW p \in Changeable, NEW x \in Addable(p),
         AddItemToArray(p, x)
  PROVE  HeapOK'
<1>1. p \in DOMAIN heap /\ ~heap[p].ref BY ChangeableIs DEF Sound
<1>2. x \in held /\ p \notin Freed(heap, x) BY AddableIs DEF Sound
<1>3. Sound(heap', held', [owner EXCEPT ![x] = p])
  BY <1>1, <1>2, AppendSound DEF AddItemToArray
<1> QED BY <1>3 DEF HeapOK

(* cJSON_AddItemToObject.                                                  *)
LEMMA AddKeyedSound ==
  ASSUME NEW owner, Sound(heap, held, owner), NEW p \in Changeable, NEW x \in Addable(p),
         NEW n \in Name, AddItemToObject(p, n, x)
  PROVE  HeapOK'
<1> DEFINE g == [heap EXCEPT ![x].name = n]
<1>1. p \in DOMAIN heap /\ ~heap[p].ref BY ChangeableIs DEF Sound
<1>2. x \in held /\ p \notin Freed(heap, x) BY AddableIs DEF Sound
<1>3. x \in DOMAIN heap /\ heap \in [DOMAIN heap -> Cell] /\ DOMAIN heap \subseteq Item
  BY <1>2 DEF Sound, Trees, Typed
<1>4. SamePointers(heap, g) BY <1>3, Renamed
<1>5. heap' = Append1(g, p, x) /\ held' = held \ {x} BY DEF AddItemToObject
<1> HIDE DEF g
<1>6. Sound(g, held, owner) BY <1>4, SamePointersSound
<1>7. p \in DOMAIN g /\ ~g[p].ref BY <1>1, <1>4 DEF SamePointers
<1>8. p \notin Freed(g, x) BY <1>2, <1>3, <1>4, SamePointersFreed
<1>9. Sound(heap', held', [owner EXCEPT ![x] = p])
  BY <1>2, <1>5, <1>6, <1>7, <1>8, AppendSound
<1> QED BY <1>9 DEF HeapOK

(* cJSON_InsertItemInArray.                                                *)
LEMMA InsertSound ==
  ASSUME NEW owner, Sound(heap, held, owner), NEW p \in Changeable, NEW x \in Addable(p),
         NEW i, InsertItemInArray(p, i, x)
  PROVE  HeapOK'
<1> DEFINE y == GetArrayItem(heap, p, i)
<1>1. p \in DOMAIN heap /\ ~heap[p].ref BY ChangeableIs DEF Sound
<1>2. x \in held /\ p \notin Freed(heap, x) BY AddableIs DEF Sound
<1>3. x \in DOMAIN heap /\ owner[x] = None BY <1>2 DEF Sound, Trees, Typed, RootsApart
<1>4. x # p BY <1>2, <1>3, FreedIs
<1>5. \/ heap' = Append1(heap, p, x)
      \/ y \in DOMAIN heap /\ owner[y] = p /\ LinkedBefore(heap, p, x, y, heap')
  BY <1>1, <1>3, <1>4, InsertIs DEF Sound, InsertItemInArray
<1>6. held' = held \ {x} BY DEF InsertItemInArray
<1> HIDE DEF y
<1>7. CASE heap' = Append1(heap, p, x)
  <2>1. Sound(heap', held', [owner EXCEPT ![x] = p]) BY <1>1, <1>2, <1>6, <1>7, AppendSound
  <2> QED BY <2>1 DEF HeapOK
<1>8. CASE y \in DOMAIN heap /\ owner[y] = p /\ LinkedBefore(heap, p, x, y, heap')
  <2>1. y = heap[p].child =>
          \A r \in Kept(heap, held, owner) : heap[r].ref => heap[r].child # heap[p].child
    <3>1. y \in Members(heap, p) BY <1>1, <1>8, MembersAre DEF Sound
    <3> QED BY <3>1, MemberIs
  <2>2. Sound(heap', held', [owner EXCEPT ![x] = p]) BY <1>1, <1>2, <1>6, <1>8, <2>1, LinkedSound
  <2> QED BY <2>2 DEF HeapOK
<1> QED BY <1>5, <1>7, <1>8

(* cJSON_DetachItemViaPointer; callers come to as much as before.          *)
LEMMA DetachSound ==
  ASSUME NEW owner, Sound(heap, held, owner), NEW p \in Changeable, NEW x \in Members(heap, p)
  PROVE  LET g == Unlink(heap, p, x)
             o == [owner EXCEPT ![x] = None]
         IN Sound(g, held \cup {x}, o) /\ Kept(g, held \cup {x}, o) = Kept(heap, held, owner)
<1> DEFINE g == Unlink(heap, p, x)  o == [owner EXCEPT ![x] = None]
<1>1. /\ x \in DOMAIN heap /\ owner[x] = p /\ p # None
      /\ x = heap[p].child =>
           \A r \in Kept(heap, held, owner) : heap[r].ref => heap[r].child # heap[p].child
  BY MemberIs
<1>2. p \in DOMAIN heap BY ChangeableIs DEF Sound
<1>3. Unlinked(heap, p, x, g) BY <1>1, <1>2, UnlinkIs DEF Sound
<1> HIDE DEF g
<1>4. Sound(g, held \cup {x}, o) BY <1>1, <1>2, <1>3, UnlinkedSound
<1>5. DOMAIN g = DOMAIN heap BY <1>3 DEF Unlinked
<1>6. Kept(g, held \cup {x}, o) = Kept(heap, held, owner)
  BY <1>1, <1>5 DEF Kept, Sound, Trees, Typed
<1> QED BY <1>4, <1>6 DEF g

(* cJSON_DeleteItemFromArray: detached, then deleted.                      *)
LEMMA DeleteItemSound ==
  ASSUME NEW owner, Sound(heap, held, owner), NEW p \in Changeable, NEW x \in Members(heap, p),
         DeleteItem(p, x)
  PROVE  HeapOK'
<1> DEFINE g == Unlink(heap, p, x)  o == [owner EXCEPT ![x] = None]  gd == held \cup {x}
<1>1. Sound(g, gd, o) /\ Kept(g, gd, o) = Kept(heap, held, owner) BY DetachSound
<1>2. Reached = Kept(heap, held, owner) BY ReachedAre DEF Sound
<1>3. MayFree(g, x) /\ heap' = Deleted(g, x) /\ held' = held BY DEF DeleteItem
<1>4. x \notin held BY MemberIs DEF Sound, Trees, RootsApart
<1> HIDE DEF g, o
<1>5. \A r \in Kept(g, gd, o) \ Freed(g, x) : g[r].ref => g[r].child \notin Freed(g, x)
  BY <1>1, <1>2, <1>3 DEF MayFree
<1>6. gd \ {x} = held BY <1>4
<1>7. x \in gd OBVIOUS
<1> HIDE DEF gd
<1>8. Sound(heap', held', [y \in DOMAIN g \ Freed(g, x) |-> o[y]])
  BY <1>1, <1>3, <1>5, <1>6, <1>7, DeletedSound
<1> QED BY <1>8 DEF HeapOK

(* cJSON_Delete of an item the caller holds.                               *)
LEMMA DeleteSound ==
  ASSUME NEW owner, Sound(heap, held, owner), NEW x \in held, Delete(x)
  PROVE  HeapOK'
<1>1. Reached = Kept(heap, held, owner) BY ReachedAre DEF Sound
<1>2. \A r \in Kept(heap, held, owner) \ Freed(heap, x) :
         heap[r].ref => heap[r].child \notin Freed(heap, x)
  BY <1>1 DEF Delete, MayFree
<1>3. Sound(heap', held', [y \in DOMAIN heap \ Freed(heap, x) |-> owner[y]])
  BY <1>2, DeletedSound DEF Delete
<1> QED BY <1>3 DEF HeapOK

(* The item that is replaced is the member y, of a heap h that has the      *)
(* pointers of heap.                                                       *)
LEMMA ReplaceSound ==
  ASSUME NEW owner, Sound(heap, held, owner), NEW p \in Changeable, NEW x \in Addable(p),
         NEW y \in Members(heap, p), NEW h, SamePointers(heap, h), Replace(h, p, y, x)
  PROVE  HeapOK'
<1> DEFINE g == Swapped(h, p, y, x)  o == [[owner EXCEPT ![x] = p] EXCEPT ![y] = None]
           gd == (held \ {x}) \cup {y}
<1>1. /\ p \in DOMAIN heap /\ y \in DOMAIN heap /\ owner[y] = p /\ p # None
      /\ y = heap[p].child =>
           \A r \in Kept(heap, held, owner) : heap[r].ref => heap[r].child # heap[p].child
  BY MemberIs, ChangeableIs DEF Sound
<1>2. x \in held /\ p \notin Freed(heap, x) BY AddableIs DEF Sound
<1>3. x \in DOMAIN heap /\ owner[x] = None /\ x # y /\ y \notin held /\ DOMAIN heap \subseteq Item
      /\ owner \in [DOMAIN heap -> DOMAIN heap \cup {None}]
  BY <1>1, <1>2 DEF Sound, Trees, Typed, RootsApart
<1>4. /\ DOMAIN h = DOMAIN heap
      /\ \A z \in DOMAIN heap : h[z].ref = heap[z].ref /\ h[z].child = heap[z].child
  BY DEF SamePointers
<1>5. Sound(h, held, owner) BY SamePointersSound
<1>6. p \notin Freed(h, x) BY <1>2, <1>3, SamePointersFreed
<1>7. Kept(h, held, owner) = Kept(heap, held, owner) BY <1>4 DEF Kept
<1>8. y = h[p].child =>
        \A r \in Kept(h, held, owner) : h[r].ref => h[r].child # h[p].child
  BY <1>1, <1>4, <1>7 DEF Kept
<1>9. Sound(g, gd, o) BY <1>1, <1>2, <1>4, <1>5, <1>6, <1>8, SwappedSound
<1>10. Reached = Kept(heap, held, owner) BY ReachedAre DEF Sound
<1>11. MayFree(g, y) /\ heap' = Deleted(g, y) /\ held' = held \ {x} BY DEF Replace
<1>12. DOMAIN g = DOMAIN heap
  <2>1. DOMAIN o = DOMAIN owner OBVIOUS
  <2> HIDE DEF g, o
  <2> QED BY <1>3, <1>9, <2>1 DEF Sound, Trees, Typed
<1>13. Kept(g, gd, o) = Kept(heap, held, owner)
  <2> HIDE DEF g
  <2> QED BY <1>1, <1>2, <1>3, <1>12 DEF Kept
<1> HIDE DEF g, o
<1>14. \A r \in Kept(g, gd, o) \ Freed(g, y) : g[r].ref => g[r].child \notin Freed(g, y)
  BY <1>10, <1>11, <1>13 DEF MayFree
<1>15. gd \ {y} = held \ {x} /\ y \in gd BY <1>3
<1> HIDE DEF gd
<1>16. Sound(heap', held', [z \in DOMAIN g \ Freed(g, y) |-> o[z]])
  BY <1>9, <1>11, <1>14, <1>15, DeletedSound
<1> QED BY <1>16 DEF HeapOK

(* One new cell.                                                           *)
LEMMA WithIs ==
  ASSUME NEW h, NEW x, x \notin DOMAIN h, NEW c
  PROVE  /\ DOMAIN With(h, x, c) = DOMAIN h \cup {x} /\ With(h, x, c)[x] = c
         /\ \A y \in DOMAIN h : With(h, x, c)[y] = h[y]
BY DEF With, Extended

(* A new item that goes to the end of a list at once.                      *)
LEMMA NewAppended ==
  ASSUME NEW h, NEW hd, NEW owner, Sound(h, hd, owner), NEW x \in Item \ DOMAIN h,
         NEW c \in Cell, c.next = None, c.prev = None, ~c.ref => c.child = None,
         c.child # None =>
           c.child \in DOMAIN h /\ \E q \in DOMAIN h : ~h[q].ref /\ h[q].child = c.child,
         NEW p \in DOMAIN h, ~h[p].ref, NEW g, SamePointers(With(h, x, c), g)
  PROVE  \E o : Sound(Append1(g, p, x), hd, o)
<1> DEFINE u == With(h, x, c)  o == Extended(owner, [y \in {x} |-> None])
<1>0. x \notin DOMAIN h OBVIOUS
<1>1. DOMAIN u = DOMAIN h \cup {x} /\ u[x] = c /\ \A y \in DOMAIN h : u[y] = h[y]
  BY ONLY <1>0, WithIs
<1>2. Sound(u, hd \cup {x}, o) BY NewHeldItem
<1> HIDE DEF u, o
<1>3. Sound(g, hd \cup {x}, o) BY <1>2, SamePointersSound DEF u
<1>4. p \in DOMAIN g /\ ~g[p].ref BY <1>1 DEF SamePointers, u
<1>5. x \in DOMAIN u /\ None \notin DOMAIN u /\ DOMAIN u \subseteq Item
  BY <1>1, <1>2, NoneAssumption DEF Sound, Trees, Typed
<1>6. Stays(u, {x}, Owns)
  <2>1. c.ref \in BOOLEAN BY DEF Cell
  <2>2. Owns(u, x) \cap DOMAIN u = {} BY <1>1, <1>5, <2>1 DEF Owns
  <2> QED BY <2>2 DEF Stays
<1>7. Freed(u, x) \subseteq {x} BY <1>5, <1>6, FreedIs
<1>8. p \notin Freed(g, x)
  <2>1. SamePointers(u, g) BY DEF u
  <2>2. Freed(g, x) \subseteq Freed(u, x) BY <1>5, <2>1, SamePointersFreed
  <2> QED BY <2>2, <1>7
<1>9. x \in hd \cup {x} /\ (hd \cup {x}) \ {x} = hd
  BY DEF Sound, Trees, Typed
<1> DEFINE gd == hd \cup {x}
<1>10. Sound(g, gd, o) /\ x \in gd /\ gd \ {x} = hd BY <1>3, <1>9
<1> HIDE DEF gd
<1>11. Sound(Append1(g, p, x), hd, [o EXCEPT ![x] = p])
  BY <1>4, <1>8, <1>10, AppendSound
<1> QED BY <1>11

(* cJSON_AddNullToObject and its likes.                                    *)
LEMMA AddNewSound ==
  ASSUME NEW owner, Sound(heap, held, owner), NEW p \in Changeable, NEW x \in Item \ Live,
         NEW n \in Name, NEW k \in Kinds, NEW v \in Value \cup {None}, AddNewToObject(p, n, x, k, v)
  PROVE  HeapOK'
<1> DEFINE c == [NewCell(k, v) EXCEPT !.name = n]  u == With(heap, x, c)
<1>1. c \in Cell /\ c.next = None /\ c.prev = None /\ ~c.ref /\ c.child = None
  BY DEF NewCell, Cell
<1>2. heap' = Append1(u, p, x) /\ held' = held
  BY DEF AddNewToObject, With
<1>3. x \in Item \ DOMAIN heap BY DEF Live
<1>4. p \in DOMAIN heap /\ ~heap[p].ref BY ChangeableIs DEF Sound
<1> HIDE DEF c
<1>5. SamePointers(u, u)
  <2>1. Sound(u, held \cup {x}, Extended(owner, [y \in {x} |-> None]))
    BY <1>1, <1>3, NewHeldItem
  <2> HIDE DEF u
  <2>2. u \in [DOMAIN u -> Cell] BY <2>1 DEF Sound, Trees, Typed
  <2> QED BY <2>2 DEF SamePointers
<1>6. \E o : Sound(Append1(u, p, x), held, o) BY <1>1, <1>3, <1>4, <1>5, NewAppended
<1> HIDE DEF u
<1> QED BY <1>2, <1>6 DEF HeapOK

(* Of a reference: the list of what it is made from has its container.      *)
LEMMA ListHasOwner ==
  ASSUME NEW h, NEW hd, NEW owner, Sound(h, hd, owner), NEW y \in Kept(h, hd, owner),
         h[y].child # None
  PROVE  h[y].child \in DOMAIN h /\ \E q \in DOMAIN h : ~h[q].ref /\ h[q].child = h[y].child
<1>1. y \in DOMAIN h BY DEF Kept
<1>2. CASE h[y].ref BY <1>1, <1>2 DEF Sound, References, Shared, Kept
<1>3. CASE ~h[y].ref BY <1>1, <1>3 DEF Sound, Trees, ChildLinks
<1> QED BY <1>2, <1>3

(* cJSON_AddItemReferenceToArray and -ToObject, with and without memory.   *)
LEMMA AddReferenceSound ==
  ASSUME NEW owner, Sound(heap, held, owner), NEW p \in Changeable, NEW y \in Reached,
         NEW x \in Item \ Live, NEW n \in Name \cup {None}, NEW enough \in BOOLEAN,
         AddReference(p, n, y, x, enough)
  PROVE  HeapOK'
<1> DEFINE c == [heap[y] EXCEPT !.name = None, !.next = None, !.prev = None, !.ref = TRUE]
           u == With(heap, x, c)
           g == [u EXCEPT ![x].name = n]
<1>1. y \in Kept(heap, held, owner) /\ y \in DOMAIN heap BY ReachedAre DEF Sound, Kept
<1>2. c \in Cell /\ c.next = None /\ c.prev = None /\ c.ref /\ c.child = heap[y].child
  <2>1. heap[y] \in Cell BY <1>1 DEF Sound, Trees, Typed
  <2> QED BY <2>1 DEF Cell
<1>3. heap' = IF enough THEN Append1(g, p, x) ELSE u
  <2>1. u = Extended(heap, [z \in {x} |-> c]) BY DEF With
  <2> HIDE DEF u
  <2> QED BY <2>1 DEF AddReference
<1>4. held' = held BY DEF AddReference
<1>5. x \in Item \ DOMAIN heap BY DEF Live
<1>6. p \in DOMAIN heap /\ ~heap[p].ref BY ChangeableIs DEF Sound
<1>7. heap[y].child # None =>
        /\ heap[y].child \in DOMAIN heap
        /\ \E q \in DOMAIN heap : ~heap[q].ref /\ heap[q].child = heap[y].child
  BY <1>1, ListHasOwner
<1> HIDE DEF c
<1>8. DOMAIN u = DOMAIN heap \cup {x} BY <1>5, WithIs
<1>9. CASE enough
  <2>1. SamePointers(u, g)
    <3>1. Sound(u, held \cup {x}, Extended(owner, [z \in {x} |-> None]))
      BY <1>2, <1>5, <1>7, NewHeldItem
    <3>2. u \in [DOMAIN u -> Cell] BY <3>1 DEF Sound, Trees, Typed
    <3> DEFINE D == DOMAIN u
    <3>3. u \in [D -> Cell] /\ x \in D BY <1>8, <3>2
    <3> HIDE DEF D, u
    <3> QED BY <3>3, Renamed
  <2> HIDE DEF g
  <2>2. \E o : Sound(Append1(g, p, x), held, o)
    BY <1>2, <1>5, <1>6, <1>7, <2>1, NewAppended
  <2> QED BY <1>3, <1>4, <1>9, <2>2 DEF HeapOK
<1>10. CASE ~enough
  <2> DEFINE gd == {}
  <2>1. gd \in SUBSET {x} /\ x \notin gd /\ held \cup gd = held OBVIOUS
  <2> HIDE DEF gd
  <2>2. Sound(u, held \cup gd, Extended(owner, [z \in {x} |-> None]))
    BY <1>2, <1>5, <2>1, NewItem
  <2> HIDE DEF u
  <2> QED BY <1>3, <1>4, <1>10, <2>1, <2>2 DEF HeapOK
<1> QED BY <1>9, <1>10

(* cJSON_CreateObjectReference and cJSON_CreateArrayReference.             *)
LEMMA CreateReferenceSound ==
  ASSUME NEW owner, Sound(heap, held, owner), NEW y \in Reached, NEW x \in Item \ Live,
         CreateReference(y, x)
  PROVE  HeapOK'
<1> DEFINE c == [NewCell(heap[y].kind, None) EXCEPT !.ref = TRUE, !.child = heap[y].child]
           u == With(heap, x, c)
<1>1. y \in Kept(heap, held, owner) /\ y \in DOMAIN heap BY ReachedAre DEF Sound, Kept
<1>2. c \in Cell /\ c.next = None /\ c.prev = None /\ c.ref /\ c.child = heap[y].child
  <2>1. heap[y] \in Cell BY <1>1 DEF Sound, Trees, Typed
  <2> QED BY <2>1 DEF Cell, NewCell
<1>3. heap' = u /\ held' = held \cup {x}
  <2>1. u = Extended(heap, [z \in {x} |-> c]) BY DEF With
  <2> HIDE DEF u
  <2> QED BY <2>1 DEF CreateReference
<1>4. x \in Item \ DOMAIN heap BY DEF Live
<1>5. heap[y].child # None =>
        /\ heap[y].child \in DOMAIN heap
        /\ \E q \in DOMAIN heap : ~heap[q].ref /\ heap[q].child = heap[y].child
  BY <1>1, ListHasOwner
<1> HIDE DEF c
<1>6. Sound(u, held \cup {x}, Extended(owner, [z \in {x} |-> None]))
  BY <1>2, <1>4, <1>5, NewHeldItem
<1> HIDE DEF u
<1> QED BY <1>3, <1>6 DEF HeapOK
-------------------------------------------------------------------------------
(* Several new items, in a heap g of their own.                            *)
LEMMA NewTrees ==
  ASSUME NEW h, NEW hd, NEW owner, Sound(h, hd, owner),
         NEW g, NEW gd, NEW owning, Trees(g, gd, owning), DOMAIN h \cap DOMAIN g = {},
         \A r \in DOMAIN g : ~g[r].ref
  PROVE  \E o : Sound(Extended(h, g), hd \cup gd, o)
<1>1. Sound(Extended(h, g), hd \cup gd, Extended(owner, owning)) BY SoundTogether
<1> QED BY <1>1

(* cJSON_CreateIntArray and its likes.                                     *)
LEMMA CreateArraySound ==
  ASSUME NEW owner, Sound(heap, held, owner), NEW v \in Value, NEW w \in Value,
         NEW x \in Item \ Live, NEW y \in Item \ Live, NEW z \in Item \ Live,
         CreateArrayOf(<<v, w>>, <<x, y, z>>)
  PROVE  HeapOK'
<1> DEFINE new == <<x, y, z>>  vals == <<v, w>>  S == {x, y, z}
           Index(c) == CHOOSE i \in DOMAIN new : new[i] = c
           g == [c \in S |-> ArrayCell(vals, new, Index(c))]
           o == [c \in S |-> IF c = z THEN None ELSE z]
           gd == {z}
<1>0. Len(new) = 3 /\ Len(vals) = 2 /\ DOMAIN new = {1, 2, 3}
      /\ new[1] = x /\ new[2] = y /\ new[3] = z /\ vals[1] = v /\ vals[2] = w
  OBVIOUS
<1>1. x # y /\ x # z /\ y # z
  <2>1. IsInjective(new) BY DEF CreateArrayOf
  <2> HIDE DEF new
  <2>2. \A i, j \in {1, 2, 3} : new[i] = new[j] => i = j BY <1>0, <2>1 DEF IsInjective
  <2> QED BY <1>0, <2>2
<1>2. ToSet(new) = S
  <2> HIDE DEF new
  <2> QED BY <1>0 DEF ToSet
<1>3. held' = held \cup {z} /\ heap' = Extended(heap, g)
  BY <1>0, <1>2 DEF CreateArrayOf, Last
<1> HIDE DEF new, vals
<1>4. Index(x) = 1 /\ Index(y) = 2 /\ Index(z) = 3
  BY <1>0, <1>1
<1>5. /\ g[x] = [NewCell("value", v) EXCEPT !.next = y, !.prev = y]
      /\ g[y] = [NewCell("value", w) EXCEPT !.next = None, !.prev = x]
      /\ g[z] = [NewCell("array", None) EXCEPT !.child = x]
  <2> HIDE DEF Index
  <2>1. /\ g[x] = ArrayCell(vals, new, 1) /\ g[y] = ArrayCell(vals, new, 2)
        /\ g[z] = ArrayCell(vals, new, 3)
    BY <1>4
  <2>2. ArrayCell(vals, new, 1) = [NewCell("value", v) EXCEPT !.next = y, !.prev = y]
    <3>1. /\ 1 # Len(vals) + 1 /\ vals[1] = v
          /\ (IF 1 < Len(vals) THEN new[1 + 1] ELSE None) = y
          /\ (IF 1 = 1 THEN new[Len(vals)] ELSE new[1 - 1]) = y
      BY <1>0
    <3> QED BY ONLY <3>1, Zenon DEF ArrayCell
  <2>3. ArrayCell(vals, new, 2) = [NewCell("value", w) EXCEPT !.next = None, !.prev = x]
    <3>1. /\ 2 # Len(vals) + 1 /\ vals[2] = w
          /\ (IF 2 < Len(vals) THEN new[2 + 1] ELSE None) = None
          /\ (IF 2 = 1 THEN new[Len(vals)] ELSE new[2 - 1]) = x
      BY <1>0
    <3> QED BY ONLY <3>1, Zenon DEF ArrayCell
  <2>4. ArrayCell(vals, new, 3) = [NewCell("array", None) EXCEPT !.child = x]
    BY <1>0 DEF ArrayCell
  <2> HIDE DEF g
  <2> QED BY <2>1, <2>2, <2>3, <2>4
<1>6. DOMAIN g = S /\ DOMAIN o = S OBVIOUS
<1>7. o[x] = z /\ o[y] = z /\ o[z] = None BY <1>1
<1> HIDE DEF g, o
<1>8. /\ g[x] \in Cell /\ g[x].next = y /\ g[x].prev = y /\ g[x].child = None /\ ~g[x].ref
      /\ g[y] \in Cell /\ g[y].next = None /\ g[y].prev = x /\ g[y].child = None /\ ~g[y].ref
      /\ g[z] \in Cell /\ g[z].next = None /\ g[z].prev = None /\ g[z].child = x /\ ~g[z].ref
  <2>1. /\ g[x] \in Cell /\ g[x].next = y /\ g[x].prev = y /\ g[x].child = None /\ ~g[x].ref
    BY ZenonT(40), <1>5 DEF NewCell, Cell, Kinds
  <2>2. /\ g[y] \in Cell /\ g[y].next = None /\ g[y].prev = x /\ g[y].child = None /\ ~g[y].ref
    BY ZenonT(40), <1>5 DEF NewCell, Cell, Kinds
  <2>3. /\ g[z] \in Cell /\ g[z].next = None /\ g[z].prev = None /\ g[z].child = x /\ ~g[z].ref
    BY <1>5 DEF NewCell, Cell, Kinds
  <2> QED BY <2>1, <2>2, <2>3
<1>9. x # None /\ y # None /\ z # None /\ S \cap DOMAIN heap = {} /\ S \subseteq Item
  BY NoneAssumption DEF Live
<1>10. Trees(g, gd, o)
  <2>1. g \in [S -> Cell] BY <1>6, <1>8 DEF g
  <2>2. o \in [S -> S \cup {None}] BY <1>7 DEF o
  <2>3. Typed(g, gd, o) BY <2>1, <2>2, <1>6, <1>9 DEF Typed
  <2>4. RootsApart(g, gd, o) BY <1>6, <1>7, <1>8, <1>9 DEF RootsApart
  <2>5. NextLinks(g, o) BY <1>6, <1>7, <1>8, <1>9 DEF NextLinks
  <2>6. ChildLinks(g, o) BY <1>6, <1>7, <1>8, <1>9 DEF ChildLinks
  <2>7. \A a, b \in S : Leads(g, a, b) <=> (a = x /\ b = y) \/ (a = z /\ b = x)
    BY <1>1, <1>8, <1>9 DEF Leads
  <2>8. Placed(g, o) BY <2>7, <1>6, <1>7, <1>8, <1>9 DEF Placed
  <2>9. NoCycle(g)
    <3> SUFFICES ASSUME NEW T \in SUBSET S, \A b \in T : \E a \in T : Leads(g, a, b)
                 PROVE  T = {}
      BY <1>6 DEF NoCycle
    <3>1. \A b \in T : \E a \in T : (a = x /\ b = y) \/ (a = z /\ b = x) BY <2>7
    <3>2. z \notin T BY <3>1, <1>1
    <3>3. x \notin T BY <3>1, <3>2, <1>1
    <3>4. y \notin T BY <3>1, <3>3, <1>1
    <3> QED BY <3>2, <3>3, <3>4
  <2> QED BY <2>3, <2>4, <2>5, <2>6, <2>8, <2>9 DEF Trees
<1>11. DOMAIN heap \cap DOMAIN g = {} /\ \A r \in DOMAIN g : ~g[r].ref
  BY <1>6, <1>8, <1>9
<1> HIDE DEF gd
<1>12. \E q : Sound(Extended(heap, g), held \cup gd, q) BY <1>10, <1>11, NewTrees
<1>13. held' = held \cup gd BY <1>3 DEF gd
<1> QED BY <1>3, <1>12, <1>13 DEF HeapOK
-------------------------------------------------------------------------------
(* Copies.                                                                 *)
LEMMA AppendParts ==
  ASSUME NEW S, NEW q \in Seq(S), NEW z \in S
  PROVE  /\ Append(q, z) \in Seq(S) /\ Append(q, z) # <<>>
         /\ Front(Append(q, z)) = q /\ Last(Append(q, z)) = z
<1> DEFINE s == Append(q, z)  n == Len(q)
<1>1. /\ s \in Seq(S) /\ s # <<>> /\ Len(s) = n + 1 /\ n \in Nat
      /\ \A i \in 1..n : s[i] = q[i]
      /\ s[n + 1] = z
  BY AppendProperties, LenProperties
<1> HIDE DEF s
<1>2. Last(s) = z BY <1>1 DEF Last
<1>3. Front(s) = SubSeq(s, 1, n) BY <1>1 DEF Front
<1>4. \A i \in 1..n : s[i] \in S BY <1>1, ElementOfSeq
<1>5. /\ SubSeq(s, 1, n) \in Seq(S) /\ Len(SubSeq(s, 1, n)) = n
      /\ \A i \in 1..n : SubSeq(s, 1, n)[i] = s[i]
  BY <1>1, <1>4, SubSeqProperties
<1>6. SubSeq(s, 1, n) = q BY <1>1, <1>5, SeqEqual
<1> QED BY <1>1, <1>2, <1>3, <1>6 DEF s

(* A path that is not empty is what it was before its last item, and that. *)
LEMMA PathParts ==
  ASSUME NEW S, NEW p \in Seq(S), p # <<>>
  PROVE  /\ Front(p) \in Seq(S) /\ Last(p) \in S /\ p = Append(Front(p), Last(p))
         /\ Len(p) \in Nat /\ Len(Front(p)) + 1 = Len(p)
         /\ Len(Front(p)) < Len(p)
<1>1. PICK q \in Seq(S), z \in S : p = Append(q, z) BY SequenceEmptyOrAppend
<1>2. Front(p) = q /\ Last(p) = z BY <1>1, AppendParts
<1>3. Len(p) = Len(q) + 1 /\ Len(q) \in Nat BY <1>1, AppendProperties, LenProperties
<1> QED BY <1>1, <1>2, <1>3

(* The paths that a copy follows: each begins with x and goes on to a       *)
(* member of the last, and when it goes on to one it goes on to all.        *)
PathsFrom(h, K, x, P) ==
  /\ K \subseteq DOMAIN h /\ P \subseteq Seq(K) /\ <<x>> \in P
  /\ \A p \in P :
       /\ p # <<>>
       /\ Front(p) = <<>> => p = <<x>>
       /\ Front(p) # <<>> =>
            /\ Front(p) \in P
            /\ Last(p) \in Members(h, Last(Front(p)))
            /\ \A z \in Members(h, Last(Front(p))) : z \in K /\ Append(Front(p), z) \in P

(* Members that come one after the other are owned by one container.        *)
LEMMA BeforeOnly ==
  ASSUME NEW h, NEW hd, NEW owner, Sound(h, hd, owner),
         NEW p \in Kept(h, hd, owner), NEW z \in Members(h, p), h[z].next # None,
         NEW b, IsBefore(h, p, b, h[z].next)
  PROVE  b = z
<1> DEFINE y == h[z].next
<1> USE DEF Sound
<1>1. h[p].child # None
  <2>1. h[p].child \in DOMAIN h BY FromIsOfHeap DEF Members
  <2> QED BY <2>1, CellType DEF Trees
<1>2. PICK q \in DOMAIN h : /\ ~h[q].ref /\ h[q].child = h[p].child
                            /\ Members(h, p) = {v \in DOMAIN h : owner[v] = q}
  BY <1>1, ListIsOwned
<1>3. y \in DOMAIN h /\ h[y].prev = z BY <1>2 DEF Trees, NextLinks
<1>4. y # h[p].child
  <2>1. h[h[h[q].child].prev].next = None BY <1>1, <1>2 DEF Trees, ChildLinks
  <2> QED BY <2>1, <1>2, <1>3
<1>5. b \in DOMAIN h /\ h[b].next = y BY <1>2, <1>4 DEF IsBefore
<1> QED BY <1>3, <1>5 DEF Trees, NextLinks

(* The new items have the pointers of the items they are copies of.         *)
AreCopies(h, P, new, g) ==
  /\ DOMAIN g = {new[p] : p \in P}
  /\ \A p \in P :
       /\ g[new[p]] \in Cell /\ ~g[new[p]].ref
       /\ g[new[p]].child = CopyAt(P, new, Append(p, h[Last(p)].child))
       /\ Front(p) = <<>> => g[new[p]].next = None /\ g[new[p]].prev = None
       /\ Front(p) # <<>> =>
            /\ g[new[p]].next = CopyAt(P, new, Append(Front(p), h[Last(p)].next))
            /\ \E b \in Members(h, Last(Front(p))) :
                 /\ IsBefore(h, Last(Front(p)), b, Last(p))
                 /\ g[new[p]].prev = CopyAt(P, new, Append(Front(p), b))

(* The cells that cJSON_Duplicate makes are such copies.                   *)
LEMMA CopyCells ==
  ASSUME NEW h, NEW hd, NEW owner, Sound(h, hd, owner), NEW x,
         NEW P, PathsFrom(h, Kept(h, hd, owner), x, P),
         NEW new \in [P -> Item], IsInjective(new)
  PROVE  AreCopies(h, P, new, Copy(h, P, new))
<1> DEFINE g == Copy(h, P, new)  K == Kept(h, hd, owner)
           Path(c) == CHOOSE p \in P : new[p] = c
<1>1. g = [c \in {new[p] : p \in P} |-> CopyCell(h, P, new, Path(c))] BY DEF Copy
<1>2. ASSUME NEW p \in P PROVE Path(new[p]) = p
  BY DEF IsInjective
<1> HIDE DEF Path, g
<1>3. DOMAIN g = {new[p] : p \in P} BY <1>1
<1>4. ASSUME NEW p \in P PROVE g[new[p]] = CopyCell(h, P, new, p) BY <1>1, <1>2
<1>5. \A q : CopyAt(P, new, q) \in Item \cup {None} BY DEF CopyAt
<1>6. ASSUME NEW p \in P
      PROVE  /\ g[new[p]] \in Cell /\ ~g[new[p]].ref
             /\ g[new[p]].child = CopyAt(P, new, Append(p, h[Last(p)].child))
             /\ Front(p) = <<>> => g[new[p]].next = None /\ g[new[p]].prev = None
             /\ Front(p) # <<>> =>
                  /\ g[new[p]].next = CopyAt(P, new, Append(Front(p), h[Last(p)].next))
                  /\ \E b \in Members(h, Last(Front(p))) :
                       /\ IsBefore(h, Last(Front(p)), b, Last(p))
                       /\ g[new[p]].prev = CopyAt(P, new, Append(Front(p), b))
  <2> DEFINE y == Last(p)  up == Front(p)  c == h[y]
             b == CHOOSE z \in DOMAIN h : IsBefore(h, Last(up), z, y)
             Beside(z) == IF up = <<>> THEN None ELSE CopyAt(P, new, Append(up, z))
             ch == CopyAt(P, new, Append(p, c.child))
             nx == Beside(c.next)
             pv == Beside(b)
  <2>1. p \in Seq(K) /\ p # <<>> BY DEF PathsFrom
  <2>2. y \in K /\ y \in DOMAIN h BY <2>1, PathParts DEF PathsFrom
  <2>3. c \in Cell BY <2>2 DEF Sound, Trees, Typed
  <2>4. g[new[p]] = [c EXCEPT !.ref = FALSE, !.child = ch, !.next = nx, !.prev = pv]
    BY <1>4 DEF CopyCell
  <2>5. ch \in Item \cup {None} /\ nx \in Item \cup {None} /\ pv \in Item \cup {None}
    BY <1>5
  <2>6. ASSUME up # <<>> PROVE b \in Members(h, Last(up)) /\ IsBefore(h, Last(up), b, y)
    <3>1. up \in P /\ y \in Members(h, Last(up)) BY <2>6 DEF PathsFrom
    <3>2. up \in Seq(K) /\ up # <<>> BY <3>1 DEF PathsFrom
    <3>3. Last(up) \in K BY <3>2, PathParts
    <3>4. IsBefore(h, Last(up), h[y].prev, y) BY <3>1, <3>3, SoundLists
    <3>5. \A z : IsBefore(h, Last(up), z, y) => z \in Members(h, Last(up)) /\ z \in DOMAIN h
      BY FromIsOfHeap DEF IsBefore, Members
    <3>6. IsBefore(h, Last(up), b, y) BY <3>4, <3>5
    <3> QED BY <3>5, <3>6
  <2> HIDE DEF c, ch, nx, pv, b
  <2>7. /\ g[new[p]] \in Cell /\ ~g[new[p]].ref /\ g[new[p]].child = ch
        /\ g[new[p]].next = nx /\ g[new[p]].prev = pv
    BY <2>3, <2>4, <2>5 DEF Cell
  <2>8. up = <<>> => nx = None /\ pv = None BY DEF nx, pv
  <2>9. up # <<>> => /\ nx = CopyAt(P, new, Append(up, h[y].next))
                     /\ pv = CopyAt(P, new, Append(up, b))
    BY DEF nx, pv, c
  <2>10. ch = CopyAt(P, new, Append(p, h[y].child)) BY DEF ch, c
  <2> QED BY <2>6, <2>7, <2>8, <2>9, <2>10
<1>7. AreCopies(h, P, new, g) BY <1>3, <1>6 DEF AreCopies
<1> QED BY <1>7 DEF g

(* They are a tree of their own, with the copy of x for its root.          *)
LEMMA CopyTrees ==
  ASSUME NEW h, NEW hd, NEW owner, Sound(h, hd, owner), NEW x,
         NEW P, PathsFrom(h, Kept(h, hd, owner), x, P),
         NEW new \in [P -> Item], IsInjective(new)
  PROVE  /\ \E o : Trees(Copy(h, P, new), {new[<<x>>]}, o)
         /\ DOMAIN Copy(h, P, new) = {new[p] : p \in P}
         /\ \A r \in DOMAIN Copy(h, P, new) : ~Copy(h, P, new)[r].ref
<1>0. AreCopies(h, P, new, Copy(h, P, new)) BY CopyCells
<1> DEFINE g == Copy(h, P, new)  K == Kept(h, hd, owner)  D == {new[p] : p \in P}
           Path(c) == CHOOSE p \in P : new[p] = c
           o == [c \in D |-> IF Front(Path(c)) = <<>> THEN None ELSE new[Front(Path(c))]]
           gd == {new[<<x>>]}
<1>1. /\ DOMAIN g = D
      /\ \A p \in P :
           /\ g[new[p]] \in Cell /\ ~g[new[p]].ref
           /\ g[new[p]].child = CopyAt(P, new, Append(p, h[Last(p)].child))
           /\ Front(p) = <<>> => g[new[p]].next = None /\ g[new[p]].prev = None
           /\ Front(p) # <<>> =>
                /\ g[new[p]].next = CopyAt(P, new, Append(Front(p), h[Last(p)].next))
                /\ \E b \in Members(h, Last(Front(p))) :
                     /\ IsBefore(h, Last(Front(p)), b, Last(p))
                     /\ g[new[p]].prev = CopyAt(P, new, Append(Front(p), b))
  BY <1>0 DEF AreCopies
<1> HIDE DEF g
<1>2. \A p, q \in P : new[p] = new[q] => p = q BY DEF IsInjective
<1>3. \A p \in P : new[p] \in D /\ new[p] \in Item /\ new[p] # None BY NoneAssumption
<1>4. ASSUME NEW p \in P PROVE o[new[p]] = IF Front(p) = <<>> THEN None ELSE new[Front(p)]
  <2>1. Path(new[p]) = p BY <1>2
  <2> QED BY <2>1
<1>5. DOMAIN o = D OBVIOUS
<1>6. g \in [D -> Cell] BY ZenonT(40), <1>1 DEF g, Copy
<1>7. \A q \in P : CopyAt(P, new, q) = new[q] BY DEF CopyAt
<1>8. \A q : CopyAt(P, new, q) # None => q \in P BY DEF CopyAt
<1>9. ASSUME NEW p \in P
      PROVE  /\ p \in Seq(K) /\ p # <<>> /\ Last(p) \in K /\ Last(p) \in DOMAIN h
             /\ Last(p) # None /\ p = Append(Front(p), Last(p)) /\ Front(p) \in Seq(K)
             /\ Front(p) = <<>> => p = <<x>>
             /\ Front(p) # <<>> =>
                  /\ Front(p) \in P /\ Last(Front(p)) \in K
                  /\ Last(p) \in Members(h, Last(Front(p)))
                  /\ \A z \in Members(h, Last(Front(p))) : z \in K /\ Append(Front(p), z) \in P
             /\ Len(p) \in Nat /\ Len(Front(p)) < Len(p)
  <2>1. p \in Seq(K) /\ p # <<>> /\ K \subseteq DOMAIN h BY DEF PathsFrom
  <2>2. /\ Last(p) \in K /\ p = Append(Front(p), Last(p)) /\ Front(p) \in Seq(K)
        /\ Len(p) \in Nat /\ Len(Front(p)) < Len(p)
    BY <2>1, PathParts
  <2>3. Last(p) # None BY <2>1, <2>2, CellType DEF Sound, Trees
  <2>4. Front(p) # <<>> => Last(Front(p)) \in K BY <2>2, PathParts
  <2> HIDE DEF K
  <2> QED BY <2>1, <2>2, <2>3, <2>4 DEF PathsFrom, K
<1>10. ASSUME NEW q \in Seq(K), NEW v \in K
       PROVE  Front(Append(q, v)) = q /\ Last(Append(q, v)) = v
  BY AppendParts
<1>11. ASSUME NEW q \in Seq(K), NEW v \in Item \cup {None}, Append(q, v) \in P
       PROVE  v \in K /\ Front(Append(q, v)) = q /\ Last(Append(q, v)) = v
  <2>1. K \subseteq Item BY DEF Kept, Sound, Trees, Typed
  <2> DEFINE S == Item \cup {None}
  <2>2. q \in Seq(S)
    <3>1. /\ q \in [1..Len(q) -> K] /\ Len(q) \in Nat BY LenProperties
    <3> QED BY <2>1, <3>1
  <2>3. v \in S OBVIOUS
  <2> HIDE DEF S, K
  <2>4. Front(Append(q, v)) = q /\ Last(Append(q, v)) = v BY <2>2, <2>3, AppendParts
  <2> QED BY <2>4, <1>9, <1>11
<1> HIDE DEF D, K, o, gd
(* What next and child of a new item are.                                  *)
<1>12. ASSUME NEW p \in P, g[new[p]].next # None
       PROVE  /\ Front(p) # <<>> /\ h[Last(p)].next # None
              /\ \E q \in P : /\ g[new[p]].next = new[q] /\ Front(q) = Front(p)
                              /\ Last(q) = h[Last(p)].next
  <2>1. Front(p) # <<>> BY <1>1, <1>12
  <2> DEFINE q == Append(Front(p), h[Last(p)].next)
  <2>2. g[new[p]].next = CopyAt(P, new, q) BY <2>1, <1>1
  <2>3. q \in P BY <2>2, <1>8, <1>12
  <2>4. h[Last(p)].next \in Item \cup {None} BY <1>9, CellType DEF Sound, Trees
  <2>5. Front(p) \in Seq(K) BY <1>9
  <2>6. h[Last(p)].next \in K /\ Front(q) = Front(p) /\ Last(q) = h[Last(p)].next
    BY <2>3, <2>4, <2>5, <1>11
  <2>7. h[Last(p)].next # None BY <2>3, <2>6, <1>9
  <2> HIDE DEF q
  <2> QED BY <2>1, <2>2, <2>3, <2>6, <2>7, <1>7
<1>13. ASSUME NEW p \in P, g[new[p]].child # None
       PROVE  \E q \in P : /\ g[new[p]].child = new[q] /\ Front(q) = p
                           /\ Last(q) = h[Last(p)].child
  <2> DEFINE q == Append(p, h[Last(p)].child)
  <2>1. g[new[p]].child = CopyAt(P, new, q) BY <1>1
  <2>2. q \in P BY <2>1, <1>8, <1>13
  <2>3. h[Last(p)].child \in Item \cup {None} BY <1>9, CellType DEF Sound, Trees
  <2>4. p \in Seq(K) BY <1>9
  <2>5. Front(q) = p /\ Last(q) = h[Last(p)].child BY <2>2, <2>3, <2>4, <1>11
  <2> HIDE DEF q
  <2> QED BY <2>1, <2>2, <2>5, <1>7
<1>14. ASSUME NEW p \in P, NEW q \in P, Front(p) = Front(q), Front(p) # <<>>,
              h[Last(p)].next = Last(q)
       PROVE  g[new[p]].next = new[q]
  <2>1. q = Append(Front(p), h[Last(p)].next) BY <1>9, <1>14
  <2>2. g[new[p]].next = CopyAt(P, new, q) BY <2>1, <1>1, <1>14
  <2> QED BY <2>2, <1>7
<1>15. ASSUME NEW q \in P, Front(q) # <<>>, Last(q) = h[Last(Front(q))].child
       PROVE  g[new[Front(q)]].child = new[q]
  <2> DEFINE p == Front(q)
  <2>1. p \in P /\ q = Append(p, h[Last(p)].child) BY <1>9, <1>15
  <2>2. g[new[p]].child = CopyAt(P, new, q) BY <2>1, <1>1
  <2> QED BY <2>2, <1>7
<1>16. ASSUME NEW q \in P, Front(q) # <<>>
       PROVE  \E b \in P : /\ g[new[q]].prev = new[b] /\ Front(b) = Front(q)
                           /\ IsBefore(h, Last(Front(q)), Last(b), Last(q))
  <2>1. PICK b \in Members(h, Last(Front(q))) :
          /\ IsBefore(h, Last(Front(q)), b, Last(q))
          /\ g[new[q]].prev = CopyAt(P, new, Append(Front(q), b))
    BY <1>1, <1>16
  <2>2. b \in K /\ Append(Front(q), b) \in P /\ Front(q) \in Seq(K) BY <2>1, <1>9, <1>16
  <2>3. Front(Append(Front(q), b)) = Front(q) /\ Last(Append(Front(q), b)) = b
    BY <2>2, <1>10
  <2>4. g[new[q]].prev = new[Append(Front(q), b)] BY <2>1, <2>2, <1>7
  <2> QED BY <2>1, <2>2, <2>3, <2>4
<1>17. \A c \in D : \E p \in P : c = new[p] BY DEF D
<1>18. Typed(g, gd, o)
  <2>1. \A c \in D : o[c] \in D \cup {None}
    <3>1. ASSUME NEW p \in P PROVE o[new[p]] \in D \cup {None} BY <1>3, <1>4, <1>9
    <3> QED BY <3>1, <1>17
  <2>2. o \in [D -> D \cup {None}] BY <2>1, <1>5 DEF o
  <2>3. <<x>> \in P BY DEF PathsFrom
  <2>4. gd \subseteq D BY <2>3, <1>3 DEF gd
  <2>5. D \subseteq Item BY <1>3, <1>17
  <2> QED BY <2>2, <2>4, <2>5, <1>1, <1>6 DEF Typed
<1>19. RootsApart(g, gd, o)
  <2>1. <<x>> \in P BY DEF PathsFrom
  <2>2. Front(<<x>>) = <<>>
    <3>1. <<x>> \in Seq(K) /\ <<x>> # <<>> BY <2>1, <1>9
    <3>2. Len(Front(<<x>>)) + 1 = Len(<<x>>) /\ Front(<<x>>) \in Seq(K) BY <3>1, PathParts
    <3>3. Len(Front(<<x>>)) = 0
      <4>1. Len(Front(<<x>>)) \in Nat BY <3>2, LenProperties
      <4> QED BY <4>1, <3>2
    <3> QED BY <3>2, <3>3, EmptySeq
  <2>3. o[new[<<x>>]] = None BY <2>1, <2>2, <1>4
  <2>4. ASSUME NEW p \in P, o[new[p]] = None
        PROVE  new[p] \in gd /\ g[new[p]].next = None /\ g[new[p]].prev = None
    <3>1. Front(p) = <<>>
      <4>1. Front(p) # <<>> => o[new[p]] = new[Front(p)] /\ Front(p) \in P BY <1>4, <1>9
      <4> QED BY <4>1, <2>4, <1>3
    <3>2. p = <<x>> BY <3>1, <1>9
    <3> QED BY <3>1, <3>2, <1>1 DEF gd
  <2> QED BY <2>3, <2>4, <1>1, <1>17 DEF RootsApart, gd
<1>20. NextLinks(g, o)
  <2> SUFFICES ASSUME NEW p \in P, g[new[p]].next # None
               PROVE  LET c == new[p] IN
                      /\ g[c].next \in D /\ o[g[c].next] = o[c] /\ o[c] # None
                      /\ g[g[c].next].prev = c
    BY <1>1, <1>17 DEF NextLinks
  <2>1. PICK q \in P : /\ g[new[p]].next = new[q] /\ Front(q) = Front(p)
                       /\ Last(q) = h[Last(p)].next
    BY <1>12
  <2>2. Front(p) # <<>> /\ h[Last(p)].next # None BY <1>12
  <2>3. o[new[q]] = new[Front(p)] /\ o[new[p]] = new[Front(p)] /\ new[Front(p)] # None
    BY <2>1, <2>2, <1>3, <1>4, <1>9
  <2>4. PICK b \in P : /\ g[new[q]].prev = new[b] /\ Front(b) = Front(q)
                       /\ IsBefore(h, Last(Front(q)), Last(b), Last(q))
    BY <2>1, <2>2, <1>16
  <2>5. Last(b) = Last(p)
    <3>1. Last(Front(p)) \in K /\ Last(p) \in Members(h, Last(Front(p))) BY <2>2, <1>9
    <3>2. IsBefore(h, Last(Front(p)), Last(b), h[Last(p)].next) BY <2>1, <2>4
    <3>3. Last(Front(p)) \in Kept(h, hd, owner) BY <3>1 DEF K
    <3> DEFINE up == Last(Front(p))  z == Last(p)  v == Last(b)
    <3>4. /\ Sound(h, hd, owner) /\ up \in Kept(h, hd, owner) /\ z \in Members(h, up)
          /\ h[z].next # None /\ IsBefore(h, up, v, h[z].next)
      BY <3>1, <3>2, <3>3, <2>2
    <3> HIDE DEF up, z, v
    <3>5. v = z BY ZenonT(40), <3>4, BeforeOnly
    <3> QED BY <3>5 DEF v, z
  <2>6. b = p BY <2>1, <2>4, <2>5, <1>9
  <2> QED BY <2>1, <2>3, <2>4, <2>6, <1>3
<1>21. ChildLinks(g, o)
  <2> SUFFICES ASSUME NEW p \in P, g[new[p]].child # None
               PROVE  LET c == new[p] IN
                      /\ g[c].child \in D /\ o[g[c].child] = c
                      /\ g[g[c].child].prev \in D /\ o[g[g[c].child].prev] = c
                      /\ g[g[g[c].child].prev].next = None
    BY <1>1, <1>17 DEF ChildLinks
  <2>1. PICK q \in P : /\ g[new[p]].child = new[q] /\ Front(q) = p
                       /\ Last(q) = h[Last(p)].child
    BY <1>13
  <2>2. p # <<>> BY <1>9
  <2>3. PICK b \in P : /\ g[new[q]].prev = new[b] /\ Front(b) = Front(q)
                       /\ IsBefore(h, Last(Front(q)), Last(b), Last(q))
    BY <2>1, <2>2, <1>16
  <2>4. h[Last(b)].next = None BY <2>1, <2>3 DEF IsBefore
  <2>5. g[new[b]].next = None BY <2>4, <1>12
  <2>6. o[new[q]] = new[p] /\ o[new[b]] = new[p] BY <2>1, <2>2, <2>3, <1>4
  <2> QED BY <2>1, <2>3, <2>5, <2>6, <1>3
<1>22. Placed(g, o)
  <2> SUFFICES ASSUME NEW q \in P, o[new[q]] # None
               PROVE  ~g[o[new[q]]].ref /\ \E z \in D : Leads(g, z, new[q])
    BY <1>1, <1>17 DEF Placed
  <2>1. Front(q) # <<>> BY <1>4
  <2>2. Front(q) \in P /\ o[new[q]] = new[Front(q)] BY <2>1, <1>4, <1>9
  <2>3. ~g[new[Front(q)]].ref BY <2>2, <1>1
  <2>4. CASE Last(q) = h[Last(Front(q))].child
    <3>1. g[new[Front(q)]].child = new[q] BY <2>1, <2>4, <1>15
    <3> QED BY <2>2, <2>3, <3>1, <1>3 DEF Leads
  <2>5. CASE Last(q) # h[Last(Front(q))].child
    <3>1. PICK b \in P : /\ Front(b) = Front(q)
                         /\ IsBefore(h, Last(Front(q)), Last(b), Last(q))
      BY <2>1, <1>16
    <3>2. h[Last(b)].next = Last(q) BY <3>1, <2>5 DEF IsBefore
    <3>3. g[new[b]].next = new[q] BY <2>1, <3>1, <3>2, <1>14
    <3> QED BY <2>2, <2>3, <3>3, <1>3 DEF Leads
  <2> QED BY <2>4, <2>5
<1>23. NoCycle(g)
  <2> SUFFICES ASSUME NEW S \in SUBSET D, \A y \in S : \E z \in S : Leads(g, z, y), S # {}
               PROVE  FALSE
    BY <1>1 DEF NoCycle
  <2> DEFINE Q == {p \in P : new[p] \in S}  T == {Len(p) : p \in Q}
  <2>1. T \in SUBSET Nat /\ T # {}
    <3>1. \A p \in Q : Len(p) \in Nat BY <1>9
    <3>2. Q # {} BY <1>17
    <3> HIDE DEF Q
    <3> QED BY <3>1, <3>2
  <2>2. PICK n \in T : \A m \in T : n <= m BY <2>1, LeastNumber
  <2>3. PICK p \in Q : Len(p) = n OBVIOUS
  <2>4. \A q \in Q : n <= Len(q) BY <2>2
  <2> HIDE DEF T
  (* Of a shortest path what leads to its end is another of its list.      *)
  <2>5. ASSUME NEW q \in Q, Len(q) = n
        PROVE  Front(q) # <<>> /\ \E r \in Q : Front(r) = Front(q) /\ h[Last(r)].next = Last(q)
    <3>1. q \in P /\ new[q] \in S /\ new[q] # None BY <1>3
    <3>2. PICK z \in S : Leads(g, z, new[q]) BY <3>1
    <3>3. PICK r \in P : z = new[r] BY <1>17
    <3>4. r \in Q BY <3>2, <3>3
    <3>5. CASE g[z].next = new[q]
      <4>1. g[new[r]].next # None BY <3>1, <3>3, <3>5
      <4>2. PICK s \in P : /\ g[new[r]].next = new[s] /\ Front(s) = Front(r)
                           /\ Last(s) = h[Last(r)].next
        BY <4>1, <1>12
      <4>3. Front(r) # <<>> BY <4>1, <1>12
      <4>4. s = q BY <3>1, <3>3, <3>5, <4>2, <1>2
      <4> HIDE DEF Q
      <4> QED BY <3>4, <4>2, <4>3, <4>4
    <3>6. CASE g[z].child = new[q]
      <4>1. g[new[r]].child # None BY <3>1, <3>3, <3>6
      <4>2. PICK s \in P : g[new[r]].child = new[s] /\ Front(s) = r BY <4>1, <1>13
      <4>3. s = q BY <3>1, <3>3, <3>6, <4>2, <1>2
      <4>4. Len(r) < Len(q) /\ Len(r) \in Nat /\ Len(q) \in Nat BY <3>1, <4>2, <4>3, <1>9
      <4>5. n <= Len(r) BY <3>4, <2>4
      <4> QED BY <4>4, <4>5, <2>5
    <3> QED BY <3>2, <3>5, <3>6 DEF Leads
  <2> DEFINE up == Front(p)
             B == {v \in DOMAIN h : \E q \in Q : Len(q) = n /\ Front(q) = up /\ Last(q) = v}
  <2>6. ASSUME NEW v \in B PROVE \E w \in B : Leads(h, w, v)
    <3>1. PICK q \in Q : Len(q) = n /\ Front(q) = up /\ Last(q) = v BY <2>6
    <3>2. PICK r \in Q : Front(r) = Front(q) /\ h[Last(r)].next = Last(q) BY <3>1, <2>5
    <3>3. r \in P /\ q \in P OBVIOUS
    <3>4. Len(r) = n
      <4>1. r \in Seq(K) /\ r # <<>> /\ q \in Seq(K) /\ q # <<>> BY <3>3, <1>9
      <4>2. Len(Front(r)) + 1 = Len(r) /\ Len(Front(q)) + 1 = Len(q) BY <4>1, PathParts
      <4> QED BY <4>2, <3>1, <3>2
    <3>5. Last(r) \in DOMAIN h BY <3>3, <1>9
    <3>6. Last(r) \in B BY <3>1, <3>2, <3>4, <3>5
    <3> QED BY <3>1, <3>2, <3>6 DEF Leads
  <2>7. Last(p) \in B
    <3>1. Last(p) \in DOMAIN h BY <1>9
    <3> QED BY <3>1, <2>3
  <2>8. B \in SUBSET DOMAIN h OBVIOUS
  <2> HIDE DEF B
  <2> QED BY <2>6, <2>7, <2>8 DEF Sound, Trees, NoCycle
<1>24. \A r \in D : ~g[r].ref BY <1>1, <1>17
<1>25. Trees(g, gd, o) BY <1>18, <1>19, <1>20, <1>21, <1>22, <1>23 DEF Trees
<1> QED BY <1>1, <1>24, <1>25 DEF g, gd, D

(* Members of what callers come to are come to.                            *)
LEMMA MembersKept ==
  ASSUME NEW h, NEW hd, NEW owner, Sound(h, hd, owner),
         NEW p \in Kept(h, hd, owner), NEW z \in Members(h, p)
  PROVE  z \in Kept(h, hd, owner) /\ z \in DOMAIN h
<1>1. h[p].child # None
  <2>1. h[p].child \in DOMAIN h BY FromIsOfHeap DEF Members
  <2> QED BY <2>1, CellType DEF Sound, Trees
<1>2. PICK q \in DOMAIN h : Members(h, p) = {y \in DOMAIN h : owner[y] = q} BY <1>1, ListIsOwned
<1>3. q # None BY CellType DEF Sound, Trees
<1> QED BY <1>2, <1>3 DEF Kept

(* The path that is only its beginning.                                    *)
LEMMA OneLong ==
  ASSUME NEW S, NEW x \in S
  PROVE  /\ <<x>> \in Seq(S) /\ <<x>> # <<>> /\ Front(<<x>>) = <<>> /\ Last(<<x>>) = x
         /\ Len(<<x>>) = 1 /\ <<x>>[1] = x /\ <<x>> \in [1..1 -> S]
<1> DEFINE e == <<>>
<1>1. e \in Seq(S) /\ Append(e, x) = <<x>> OBVIOUS
<1> HIDE DEF e
<1>2. Front(<<x>>) = e /\ Last(<<x>>) = x BY <1>1, AppendParts
<1> QED BY <1>2 DEF e

(* The paths of a deep copy and the one path of a shallow one.              *)
LEMMA PathIs ==
  ASSUME NEW h, IsFiniteSet(DOMAIN h), NEW x
  PROVE  \A p : p \in Paths(h, x) <=>
           /\ p \in Seq(DOMAIN h) /\ Len(p) \in 1..Cardinality(DOMAIN h) /\ p[1] = x
           /\ \A i \in 2..Len(p) : p[i] \in Members(h, p[i - 1])
<1> DEFINE N == Cardinality(DOMAIN h)  D == DOMAIN h
<1>1. N \in Nat BY FS_CardinalityType
<1>2. ASSUME NEW n \in 1..N, NEW p \in [1..n -> D] PROVE p \in Seq(D) /\ Len(p) = n
  <2>1. n \in Nat BY <1>1
  <2> HIDE DEF D, N
  <2> QED BY <2>1
<1>3. ASSUME NEW p \in Seq(D) PROVE p \in [1..Len(p) -> D] BY LenProperties
<1> HIDE DEF D, N
<1>4. Paths(h, x) = {p \in UNION {[1..n -> D] : n \in 1..N} :
                       p[1] = x /\ \A i \in 2..Len(p) : p[i] \in Members(h, p[i - 1])}
  BY DEF Paths, D, N
<1>5. ASSUME NEW p
      PROVE  (\E n \in 1..N : p \in [1..n -> D]) <=> p \in Seq(D) /\ Len(p) \in 1..N
  BY <1>2, <1>3
<1>6. ASSUME NEW p
      PROVE  p \in Paths(h, x) <=> /\ p \in Seq(D) /\ Len(p) \in 1..N /\ p[1] = x
                                   /\ \A i \in 2..Len(p) : p[i] \in Members(h, p[i - 1])
  BY <1>4, <1>5
<1> QED BY <1>6 DEF D, N

(* The paths of a deep copy can be followed,                               *)
LEMMA PathsAre ==
  ASSUME NEW h, NEW hd, NEW owner, Sound(h, hd, owner), NEW x \in Kept(h, hd, owner)
  PROVE  PathsFrom(h, Kept(h, hd, owner), x, Paths(h, x))
<1> DEFINE K == Kept(h, hd, owner)  P == Paths(h, x)  N == Cardinality(DOMAIN h)
           Goes(p) == \A i \in 2..Len(p) : p[i] \in Members(h, p[i - 1])
<1>1. IsFiniteSet(DOMAIN h) BY ItemAssumption, FS_Subset DEF Sound, Trees, Typed
<1>2. N \in Nat /\ 1 \in 1..N
  <2>1. DOMAIN h # {} BY DEF Kept
  <2>2. N \in Nat /\ N # 0 BY <1>1, <2>1, FS_CardinalityType, FS_EmptySet
  <2> QED BY <2>2
<1>3. K \subseteq DOMAIN h BY DEF Kept
<1>4. \A p : p \in P <=> p \in Seq(DOMAIN h) /\ Len(p) \in 1..N /\ p[1] = x /\ Goes(p)
  BY <1>1, PathIs
<1>5. \A y \in K : \A z \in Members(h, y) : z \in K BY MembersKept
<1>6. x \in K OBVIOUS
<1> HIDE DEF K, P, N
<1>7. <<x>> \in P
  <2>1. x \in DOMAIN h BY <1>3, <1>6
  <2>2. Goes(<<x>>) OBVIOUS
  <2> HIDE DEF Goes
  <2> QED BY <2>1, <2>2, <1>2, <1>4, OneLong
<1>8. ASSUME NEW p \in P PROVE p \in Seq(K)
  <2> DEFINE T == {i \in 1..Len(p) : p[i] \notin K}
  <2>1. /\ p \in Seq(DOMAIN h) /\ Len(p) \in Nat /\ p[1] = x /\ Goes(p)
        /\ p \in [1..Len(p) -> DOMAIN h]
    <3>1. p \in Seq(DOMAIN h) /\ p[1] = x /\ Goes(p) BY <1>4
    <3> QED BY <3>1, LenProperties
  <2>2. T = {}
    <3> SUFFICES ASSUME T # {} PROVE FALSE OBVIOUS
    <3>1. T \in SUBSET Nat BY <2>1
    <3>2. PICK i \in T : \A j \in T : i <= j
      <4> HIDE DEF T
      <4> QED BY <3>1, LeastNumber
    <3>3. i # 1 /\ i \in 2..Len(p) /\ i - 1 \in 1..Len(p) /\ ~(i <= i - 1) BY <2>1, <1>6
    <3>4. p[i - 1] \in K BY <3>2, <3>3
    <3>5. p[i] \in Members(h, p[i - 1]) BY <3>3, <2>1
    <3> QED BY <3>4, <3>5, <1>5
  <2>3. \A i \in 1..Len(p) : p[i] \in K BY <2>2
  <2>4. p \in [1..Len(p) -> K] BY <2>1, <2>3
  <2> QED BY <2>1, <2>4
<1>9. ASSUME NEW p \in P
      PROVE  /\ p # <<>>
             /\ Front(p) = <<>> => p = <<x>>
             /\ Front(p) # <<>> =>
                  /\ Front(p) \in P
                  /\ Last(p) \in Members(h, Last(Front(p)))
                  /\ \A z \in Members(h, Last(Front(p))) : z \in K /\ Append(Front(p), z) \in P
  <2> DEFINE f == Front(p)  l == Last(p)  n == Len(p)  D == DOMAIN h
  <2>1. p \in Seq(D) /\ n \in 1..N /\ p[1] = x /\ Goes(p) BY <1>4
  <2>2. p # <<>> /\ n \in Nat BY <2>1, <1>2, LenProperties
  <2>3. f \in Seq(D) /\ l \in D /\ p = Append(f, l) /\ Len(f) + 1 = n
    BY <2>1, <2>2, PathParts
  <2>4. Len(f) \in Nat /\ n = Len(f) + 1 BY <2>3, LenProperties
  <2> HIDE DEF f, l, D
  <2>5. ASSUME NEW v \in D
        PROVE  /\ Append(f, v) \in Seq(D) /\ Len(Append(f, v)) = n
               /\ \A i \in 1..Len(f) : Append(f, v)[i] = f[i]
               /\ Append(f, v)[n] = v
    BY <2>3, <2>4, AppendProperties
  <2>6. (\A i \in 1..Len(f) : p[i] = f[i]) /\ p[n] = l BY <2>3, <2>5
  <2>7. CASE f = <<>>
    <3>1. n = 1 /\ Len(<<x>>) = 1 /\ <<x>>[1] = x BY <2>7, <2>4
    <3>2. x \in D /\ <<x>> \in Seq(D) BY <1>3, <1>6 DEF D
    <3>3. \A i \in 1..1 : p[i] = <<x>>[i] BY <2>1, <3>1
    <3>4. p = <<x>> BY <2>1, <3>1, <3>2, <3>3, SeqEqual
    <3> QED BY <2>2, <2>7, <3>4 DEF f
  <2>8. CASE f # <<>>
    <3>1. Len(f) # 0 BY <2>3, <2>8, EmptySeq
    <3>2. Len(f) \in 1..N /\ n \in 2..n /\ n - 1 = Len(f) BY <3>1, <2>1, <2>4, <1>2
    <3>3. Last(f) = f[Len(f)] BY DEF Last
    <3>4. Last(f) = p[n - 1] BY <3>2, <3>3, <2>6
    <3>5. l \in Members(h, Last(f)) BY <3>2, <3>4, <2>1, <2>6
    <3>6. f[1] = x BY <3>2, <2>1, <2>6
    <3>7. ASSUME NEW i \in 2..Len(f) PROVE f[i] \in Members(h, f[i - 1])
      <4>1. i \in 2..n /\ i \in 1..Len(f) /\ i - 1 \in 1..Len(f) BY <2>4
      <4>2. p[i] \in Members(h, p[i - 1]) BY <4>1, <2>1
      <4> QED BY <4>1, <4>2, <2>6
    <3>8. Goes(f) BY <3>7
    <3>9. f \in P
      <4> HIDE DEF Goes
      <4> QED BY <3>2, <3>6, <3>8, <2>3, <1>4 DEF D
    <3>10. f \in Seq(K) BY <3>9, <1>8
    <3>11. Last(f) \in K BY <3>10, <2>8, PathParts
    <3>12. ASSUME NEW z \in Members(h, Last(f)) PROVE z \in K /\ Append(f, z) \in P
      <4> DEFINE s == Append(f, z)
      <4>1. z \in K /\ z \in D BY <3>11, <1>5, <1>3 DEF D
      <4>2. /\ s \in Seq(D) /\ Len(s) = n /\ (\A i \in 1..Len(f) : s[i] = f[i]) /\ s[n] = z
        BY <4>1, <2>5
      <4> HIDE DEF s
      <4>3. s[1] = x BY <4>2, <3>2, <3>6
      <4>4. ASSUME NEW i \in 2..n PROVE s[i] \in Members(h, s[i - 1])
        <5>1. CASE i = n
          <6>1. s[i - 1] = f[Len(f)] BY <5>1, <3>2, <4>2
          <6>2. s[i - 1] = Last(f) BY <6>1, <3>3
          <6>3. s[i] = z BY <5>1, <4>2
          <6> QED BY <6>2, <6>3
        <5>2. CASE i # n
          <6>1. i \in 2..Len(f) /\ i \in 1..Len(f) /\ i - 1 \in 1..Len(f) BY <5>2, <2>4
          <6>2. s[i] = f[i] /\ s[i - 1] = f[i - 1] BY <6>1, <4>2
          <6> QED BY <6>1, <6>2, <3>7
        <5> QED BY <5>1, <5>2
      <4>5. Goes(s) BY <4>2, <4>4
      <4>6. s \in P
        <5> HIDE DEF Goes
        <5> QED BY <4>2, <4>3, <4>5, <2>1, <1>4 DEF D
      <4> QED BY <4>1, <4>6 DEF s
    <3> QED BY <3>5, <3>9, <3>12, <2>2, <2>8 DEF f, l
  <2> QED BY <2>7, <2>8
<1>10. P \subseteq Seq(K) BY <1>8
<1>11. PathsFrom(h, K, x, P) BY <1>3, <1>7, <1>9, <1>10 DEF PathsFrom
<1> QED BY <1>11 DEF K, P

(* and so can the one of a shallow copy.                                   *)
LEMMA OnePathIs ==
  ASSUME NEW h, NEW hd, NEW owner, Sound(h, hd, owner), NEW x \in Kept(h, hd, owner)
  PROVE  PathsFrom(h, Kept(h, hd, owner), x, {<<x>>})
<1> DEFINE K == Kept(h, hd, owner)
<1>1. K \subseteq DOMAIN h BY DEF Kept
<1>2. <<x>> \in Seq(K) /\ <<x>> # <<>> /\ Front(<<x>>) = <<>> BY OneLong
<1> HIDE DEF K
<1>3. PathsFrom(h, K, x, {<<x>>}) BY <1>1, <1>2 DEF PathsFrom
<1> QED BY <1>3 DEF K

(* cJSON_Duplicate.                                                        *)
LEMMA DuplicateSound ==
  ASSUME NEW owner, Sound(heap, held, owner), NEW x \in Reached, NEW recurse \in BOOLEAN,
         NEW new \in Copies(x, recurse), Duplicate(x, recurse, new)
  PROVE  HeapOK'
<1> DEFINE P == Copied(x, recurse)  g == Copy(heap, P, new)  gd == {new[<<x>>]}
<1>1. x \in Kept(heap, held, owner) BY ReachedAre DEF Sound
<1>2. PathsFrom(heap, Kept(heap, held, owner), x, P)
  BY <1>1, PathsAre, OnePathIs DEF Copied
<1>3. new \in [P -> Item \ Live] BY DEF Copies
<1>4. IsInjective(new) /\ heap' = Extended(heap, g) /\ held' = held \cup gd BY DEF Duplicate
<1> HIDE DEF P
<1>5. new \in [P -> Item] BY <1>3
<1>6. /\ \E o : Trees(g, gd, o)
      /\ DOMAIN g = {new[p] : p \in P}
      /\ \A r \in DOMAIN g : ~g[r].ref
  BY <1>2, <1>4, <1>5, CopyTrees
<1> HIDE DEF g, gd
<1>7. DOMAIN heap \cap DOMAIN g = {} BY <1>3, <1>6 DEF Live
<1>8. \E o : Sound(Extended(heap, g), held \cup gd, o) BY <1>6, <1>7, NewTrees
<1> QED BY <1>4, <1>8 DEF HeapOK

(* cJSON_ReplaceItemInObject, with and without memory for the key.         *)
LEMMA ReplaceKeyedSound ==
  ASSUME NEW owner, Sound(heap, held, owner), NEW p \in Changeable, NEW y \in Addable(p),
         NEW n \in Name, NEW s \in BOOLEAN, NEW enough \in BOOLEAN,
         ReplaceItemInObject(p, n, y, s, enough)
  PROVE  HeapOK'
<1> DEFINE x == GetObjectItem(heap, p, n, s)  m == IF enough THEN n ELSE None
           h == [heap EXCEPT ![y].name = m]
<1>1. y \in DOMAIN heap BY AddableIs DEF Sound, Trees, Typed
<1>2. SamePointers(heap, h)
  <2> DEFINE D == DOMAIN heap
  <2>1. heap \in [D -> Cell] /\ y \in D BY <1>1 DEF Sound, Trees, Typed
  <2>2. m \in Name \cup {None} OBVIOUS
  <2> HIDE DEF D, m
  <2> QED BY <2>1, <2>2, Renamed
<1>3. \/ enough /\ x # None /\ Replace(h, p, x, y)
      \/ heap' = h /\ held' = held
  BY DEF ReplaceItemInObject
<1> HIDE DEF h
<1>4. CASE x # None /\ Replace(h, p, x, y)
  <2>1. x \in Members(heap, p)
    BY <1>4, GetObjectItemIs DEF Sound, Trees, Typed
  <2> HIDE DEF x
  <2> QED BY <2>1, <1>2, <1>4, ReplaceSound
<1>5. CASE heap' = h /\ held' = held
  <2>1. Sound(h, held, owner) BY <1>2, SamePointersSound
  <2> QED BY <1>5, <2>1 DEF HeapOK
<1> QED BY <1>3, <1>4, <1>5

(* What programs do that only build trees.                                 *)
LEMMA BuildSound ==
  ASSUME IInv, NEW owner, Sound(heap, held, owner), Build
  PROVE  HeapOK'
<1>1. program.names \subseteq Name /\ program.values \subseteq Value BY KindsAre
<1>2. ASSUME NEW x \in Item \ Live, NEW v \in program.values, CreateValue(x, v) PROVE HeapOK'
  BY <1>1, <1>2, CreateSound DEF CreateValue, Kinds
<1>3. ASSUME NEW x \in Item \ Live, NEW k \in Kinds \ {"value"}, CreateContainer(x, k)
      PROVE  HeapOK'
  BY <1>3, CreateSound DEF CreateContainer
<1>4. ASSUME NEW p \in Changeable, NEW x \in Addable(p), AddItemToArray(p, x) PROVE HeapOK'
  BY <1>4, AddSound
<1>5. ASSUME NEW p \in Changeable, NEW x \in Addable(p), NEW n \in program.names,
             AddItemToObject(p, n, x)
      PROVE  HeapOK'
  BY <1>1, <1>5, AddKeyedSound
<1> QED BY <1>2, <1>3, <1>4, <1>5 DEF Build

(* What other programs do.                                                 *)
LEMMA ChangeSound ==
  ASSUME IInv, NEW owner, Sound(heap, held, owner), Change
  PROVE  HeapOK'
<1>1. program.names \subseteq Name /\ program.values \subseteq Value BY KindsAre
<1>2. ASSUME NEW v \in program.values, NEW w \in program.values, NEW x \in Item \ Live,
             NEW y \in Item \ Live, NEW z \in Item \ Live,
             CreateArrayOf(<<v, w>>, <<x, y, z>>)
      PROVE  HeapOK'
  BY <1>1, <1>2, CreateArraySound
<1>3. ASSUME NEW p \in Changeable, NEW x \in Addable(p),
             NEW i \in 1..(Cardinality(Members(heap, p)) + 1), InsertItemInArray(p, i, x)
      PROVE  HeapOK'
  BY <1>3, InsertSound
<1>4. ASSUME NEW p \in Changeable, NEW x \in Addable(p), NEW y \in Members(heap, p),
             Replace(heap, p, y, x)
      PROVE  HeapOK'
  <2>1. SamePointers(heap, heap) BY DEF SamePointers, Sound, Trees, Typed
  <2> QED BY <1>4, <2>1, ReplaceSound
<1>5. ASSUME NEW p \in Changeable, NEW x \in Addable(p), NEW n \in program.names,
             NEW s \in BOOLEAN, NEW enough \in BOOLEAN, ReplaceItemInObject(p, n, x, s, enough)
      PROVE  HeapOK'
  BY <1>1, <1>5, ReplaceKeyedSound
<1>6. ASSUME NEW p \in Changeable, NEW x \in Members(heap, p),
             heap' = Unlink(heap, p, x), held' = held \cup {x}
      PROVE  HeapOK'
  BY <1>6, DetachSound DEF HeapOK
<1>7. ASSUME NEW p \in Changeable, NEW x \in Members(heap, p), DeleteItem(p, x) PROVE HeapOK'
  BY <1>7, DeleteItemSound
<1>8. ASSUME NEW p \in Changeable, NEW n \in program.names, NEW s \in BOOLEAN,
             DetachItemFromObject(p, n, s)
      PROVE  HeapOK'
  <2> DEFINE x == GetObjectItem(heap, p, n, s)
  <2>1. x # None /\ heap' = Unlink(heap, p, x) /\ held' = held \cup {x}
    BY <1>8 DEF DetachItemFromObject
  <2>2. x \in Members(heap, p)
    <3>1. DOMAIN heap \subseteq Item BY DEF Sound, Trees, Typed
    <3> QED BY <2>1, <3>1, GetObjectItemIs
  <2> HIDE DEF x
  <2> QED BY <1>6, <2>1, <2>2
<1>9. ASSUME NEW p \in Changeable, NEW n \in program.names, NEW x \in Item \ Live,
             NEW k \in Kinds, NEW v \in program.values \cup {None}, AddNewToObject(p, n, x, k, v)
      PROVE  HeapOK'
  BY <1>1, <1>9, AddNewSound
<1>10. ASSUME NEW p \in Changeable, NEW y \in Reached, NEW x \in Item \ Live,
              NEW n \in program.names \cup {None}, NEW enough \in BOOLEAN,
              AddReference(p, n, y, x, enough)
       PROVE  HeapOK'
  BY <1>1, <1>10, AddReferenceSound
<1>11. ASSUME NEW y \in Reached, NEW x \in Item \ Live, CreateReference(y, x) PROVE HeapOK'
  BY <1>11, CreateReferenceSound
<1>12. ASSUME NEW x \in held, Delete(x) PROVE HeapOK'
  BY <1>12, DeleteSound
<1>13. ASSUME NEW x \in Reached, NEW recurse \in BOOLEAN, NEW new \in Copies(x, recurse),
              Duplicate(x, recurse, new)
       PROVE  HeapOK'
  BY <1>13, DuplicateSound
<1>14. CASE \E v, w \in program.values, x, y, z \in Item \ Live :
              CreateArrayOf(<<v, w>>, <<x, y, z>>)
  BY <1>2, <1>14
<1>15. ASSUME NEW p \in Changeable, NEW x \in Addable(p),
         \/ \E i \in 1..(Cardinality(Members(heap, p)) + 1) : InsertItemInArray(p, i, x)
         \/ \E y \in Members(heap, p) : Replace(heap, p, y, x)
         \/ \E n \in program.names, s, enough \in BOOLEAN : ReplaceItemInObject(p, n, x, s, enough)
       PROVE HeapOK'
  BY <1>3, <1>4, <1>5, <1>15
<1>16. ASSUME NEW p \in Changeable, NEW x \in Members(heap, p), Detach(p, x) \/ DeleteItem(p, x)
       PROVE  HeapOK'
  BY <1>6, <1>7, <1>16 DEF Detach
<1> QED BY <1>8, <1>9, <1>10, <1>11, <1>12, <1>13, <1>14, <1>15, <1>16 DEF Change

(* The empty heap.                                                         *)
LEMMA InitSound == Init => IInv
<1> SUFFICES ASSUME Init PROVE IInv OBVIOUS
<1> DEFINE e == [y \in {} |-> None]
<1>1. DOMAIN heap = {} /\ heap \in [{} -> Cell] /\ held = {} BY DEF Init
<1>2. e \in [{} -> {} \cup {None}] /\ DOMAIN e = {} OBVIOUS
<1> HIDE DEF e
<1>3. Sound(heap, held, e)
  BY <1>1, <1>2 DEF Sound, Trees, Typed, RootsApart, NextLinks, ChildLinks, Placed, NoCycle,
                    References
<1> QED BY <1>3 DEF Init, IInv, HeapOK

(* No call breaks the invariant.                                           *)
LEMMA IInvInductive == IInv /\ [Next]_vars => IInv'
<1> SUFFICES ASSUME IInv, [Next]_vars PROVE IInv' OBVIOUS
<1>1. PICK owner : Sound(heap, held, owner) BY DEF IInv, HeapOK
<1>2. CASE Next
  <2>1. HeapOK'
    <3>1. Build \/ Change BY <1>2 DEF Next
    <3> QED BY <3>1, <1>1, BuildSound, ChangeSound
  <2>2. program' = program BY <1>2 DEF Next
  <2> QED BY <2>1, <2>2 DEF IInv
<1>3. CASE UNCHANGED vars
  BY <1>1, <1>3 DEF IInv, HeapOK, vars
<1> QED BY <1>2, <1>3

(* The invariant implies what is said of the heap.                         *)
LEMMA IInvIsSound == IInv => TypeOK /\ HeapIsSound
<1> SUFFICES ASSUME IInv PROVE TypeOK /\ HeapIsSound OBVIOUS
<1>1. PICK owner : Sound(heap, held, owner) BY DEF IInv, HeapOK
<1>2. TypeOK BY <1>1 DEF IInv, TypeOK, Sound, Trees, Typed, Live
<1>3. HeapIsSound BY <1>1, SoundHeap
<1> QED BY <1>2, <1>3

(* After any sequence of calls that keep the contract of the library, some  *)
(* of them failing for want of memory, all that a caller can follow from    *)
(* an item it holds is of the type the model gives it, properly linked and  *)
(* not freed, and only references that a failed call loses are left over.   *)
THEOREM HeapStaysSound == Spec => [](TypeOK /\ HeapIsSound)
<1>1. Init => IInv BY InitSound
<1>2. IInv /\ [Next]_vars => IInv' BY IInvInductive
<1>3. IInv => TypeOK /\ HeapIsSound BY IInvIsSound
<1> QED BY <1>1, <1>2, <1>3, PTL DEF Spec
------------------------------------------------------------------------------
(* Ids: what the loops over their bytes compute.                           *)

(* Quotient and remainder.                                                 *)
LEMMA DivisionIs ==
  ASSUME NEW a \in Nat, NEW B \in Nat \ {0}
  PROVE  /\ a \div B \in Nat /\ a % B \in Nat /\ a % B < B
         /\ (a \div B) * B + (a % B) = a
OBVIOUS

(* f are the values that shifting n to the right byte by byte goes through. *)
ShiftsOut(f, n, high) ==
  /\ f \in [0..high -> Nat]
  /\ \A i \in 0..high : f[i] = IF i = 0 THEN n ELSE f[i - 1] \div Base

(* Shifting byte by byte is defined for every byte of the id.              *)
LEMMA ShiftedIs ==
  ASSUME NEW n \in Nat
  PROVE  /\ Shifted(n) \in [0..Width -> Nat] /\ Shifted(n)[0] = n
         /\ \A i \in 1..Width : Shifted(n)[i] = Shifted(n)[i - 1] \div Base
<1>0. Width \in Nat \ {0, 1} /\ Base \in Nat \ {0, 1} BY WidthAssumption
<1> DEFINE S == {k \in 0..Width : \E f : ShiftsOut(f, n, k)}
           Body(f) == [i \in 0..Width |-> IF i = 0 THEN n ELSE f[i - 1] \div Base]
           f0 == CHOOSE f : f = Body(f)
<1>1. 0 \in S
  <2> DEFINE f == [i \in 0..0 |-> n]
  <2>1. ShiftsOut(f, n, 0) BY DEF ShiftsOut
  <2> HIDE DEF f
  <2> QED BY <2>1, <1>0
<1>2. ASSUME NEW k \in 0..(Width - 1), k \in S PROVE k + 1 \in S
  <2>1. PICK f : ShiftsOut(f, n, k) BY <1>2
  <2> DEFINE g == [i \in 0..(k + 1) |-> IF i = k + 1 THEN f[k] \div Base ELSE f[i]]
  <2>2. k \in Nat /\ k + 1 \in 0..Width BY <1>0
  <2>3. f[k] \div Base \in Nat
    <3>1. f[k] \in Nat BY <2>1, <2>2 DEF ShiftsOut
    <3> QED BY <3>1, <1>0, DivisionIs
  <2>4. g \in [0..(k + 1) -> Nat] BY <2>1, <2>2, <2>3 DEF ShiftsOut
  <2>5. ASSUME NEW i \in 0..(k + 1)
        PROVE  g[i] = IF i = 0 THEN n ELSE g[i - 1] \div Base
    <3>1. CASE i = k + 1
      <4>1. i # 0 /\ i - 1 = k /\ k \in 0..(k + 1) /\ k # k + 1 BY <2>2, <3>1
      <4> QED BY <3>1, <4>1
    <3>2. CASE i # k + 1
      <4>1. i \in 0..k /\ (i # 0 => i - 1 \in 0..(k + 1) /\ i - 1 # k + 1) BY <2>2, <3>2
      <4> QED BY <3>2, <4>1, <2>1 DEF ShiftsOut
    <3> QED BY <3>1, <3>2
  <2>6. ShiftsOut(g, n, k + 1)
    <3> HIDE DEF g
    <3> QED BY <2>4, <2>5 DEF ShiftsOut
  <2> QED BY <2>2, <2>6
<1>3. S = 0..Width
  <2> HIDE DEF S
  <2>1. S \in SUBSET (0..Width) BY DEF S
  <2> QED BY <2>1, <1>0, <1>1, <1>2, UpTo
<1>4. PICK f : ShiftsOut(f, n, Width)
  <2>1. Width \in 0..Width BY <1>0
  <2>2. Width \in S BY <2>1, <1>3
  <2> QED BY <2>2
<1>5. f = Body(f) BY <1>4 DEF ShiftsOut
<1>6. f0 = Body(f0) BY <1>5
<1>7. Shifted(n) = f0 BY DEF Shifted
<1> HIDE DEF f0
<1>8. f0[0] = n /\ \A i \in 1..Width : f0[i] = f0[i - 1] \div Base
  <2>1. \A i \in 0..Width : f0[i] = IF i = 0 THEN n ELSE f0[i - 1] \div Base BY <1>6
  <2>2. 0 \in 0..Width /\ \A i \in 1..Width : i \in 0..Width /\ i # 0 BY <1>0
  <2> QED BY <2>1, <2>2
<1>9. \A i \in 0..Width : f0[i] \in Nat
  <2> DEFINE T == {i \in 0..Width : f0[i] \in Nat}
  <2>1. 0 \in T BY <1>0, <1>8
  <2>2. ASSUME NEW k \in 0..(Width - 1), k \in T PROVE k + 1 \in T
    <3>1. k + 1 \in 1..Width /\ (k + 1) - 1 = k BY <1>0
    <3>2. f0[k + 1] = f0[k] \div Base BY <3>1, <1>8
    <3>3. f0[k] \in Nat BY <2>2
    <3>4. f0[k + 1] \in Nat BY <3>2, <3>3, <1>0, DivisionIs
    <3> QED BY <3>1, <3>4, <1>0
  <2>3. T = 0..Width
    <3> HIDE DEF T
    <3>1. T \in SUBSET (0..Width) BY DEF T
    <3> QED BY <3>1, <1>0, <2>1, <2>2, UpTo
  <2> QED BY <2>3
<1>10. f0 \in [0..Width -> Nat] BY <1>6, <1>9
<1> QED BY <1>7, <1>8, <1>10

(* What is left of each shift is a byte.                                   *)
LEMMA BytesType ==
  ASSUME NEW n \in Nat
  PROVE  Bytes(n) \in [1..Width -> Byte]
<1>1. ASSUME NEW i \in 1..Width PROVE Shifted(n)[i - 1] % Base \in Byte
  <2>1. i - 1 \in 0..Width BY WidthAssumption
  <2>2. Shifted(n)[i - 1] \in Nat BY <2>1, ShiftedIs
  <2> QED BY <2>2, WidthAssumption, DivisionIs DEF Byte
<1> QED BY <1>1 DEF Bytes

(* The loop of convertIntoPhysicalValues shifts in what was shifted out.   *)
LEMMA NumberOfBytes ==
  ASSUME NEW n \in Nat, Shifted(n)[Width] = 0
  PROVE  Number(Bytes(n)) = n
<1>0. Width \in Nat \ {0, 1} /\ Base \in Nat \ {0, 1} BY WidthAssumption
<1> DEFINE Body(f) == [i \in 1..(Width + 1) |->
                         IF i = Width + 1 THEN 0 ELSE f[i + 1] * Base + Bytes(n)[i]]
           f0 == CHOOSE f : f = Body(f)
           out == [i \in 1..(Width + 1) |-> Shifted(n)[i - 1]]
<1>1. out = Body(out)
  <2>1. ASSUME NEW i \in 1..(Width + 1)
        PROVE out[i] = IF i = Width + 1 THEN 0 ELSE out[i + 1] * Base + Bytes(n)[i]
    <3>1. CASE i = Width + 1
      <4>1. (Width + 1) - 1 = Width /\ Width + 1 \in 1..(Width + 1) BY <1>0
      <4> QED BY <3>1, <4>1
    <3>2. CASE i # Width + 1
      <4>1. i \in 1..Width /\ i + 1 \in 1..(Width + 1) /\ (i + 1) - 1 = i
            /\ i - 1 \in 0..Width BY <1>0, <3>2
      <4>2. Shifted(n)[i - 1] \in Nat /\ Shifted(n)[i] = Shifted(n)[i - 1] \div Base
        BY <4>1, ShiftedIs
      <4>3. out[i + 1] = Shifted(n)[i] BY <4>1
      <4>4. Bytes(n)[i] = Shifted(n)[i - 1] % Base BY <4>1 DEF Bytes
      <4>5. Shifted(n)[i - 1]
              = (Shifted(n)[i - 1] \div Base) * Base + (Shifted(n)[i - 1] % Base)
        BY <4>2, <1>0, DivisionIs
      <4> QED BY <3>2, <4>2, <4>3, <4>4, <4>5
    <3> QED BY <3>1, <3>2
  <2> QED BY <2>1
<1>2. f0 = Body(f0) BY <1>1
<1>3. Number(Bytes(n)) = f0[1] BY DEF Number
<1> HIDE DEF f0, out
<1> DEFINE T == {k \in 0..Width : f0[Width + 1 - k] = out[Width + 1 - k]}
<1>4. 0 \in T
  <2>1. Width + 1 - 0 = Width + 1 /\ Width + 1 \in 1..(Width + 1) BY <1>0
  <2> QED BY <2>1, <1>0, <1>1, <1>2
<1>5. ASSUME NEW k \in 0..(Width - 1), k \in T PROVE k + 1 \in T
  <2> DEFINE i == Width - k
  <2>1. i \in 1..(Width + 1) /\ i # Width + 1 /\ i + 1 = Width + 1 - k
        /\ i = Width + 1 - (k + 1) /\ k + 1 \in 0..Width BY <1>0
  <2> HIDE DEF i
  <2>2. f0[i + 1] = out[i + 1] BY <1>5, <2>1
  <2>3. f0[i] = f0[i + 1] * Base + Bytes(n)[i] BY <1>2, <2>1
  <2>4. out[i] = out[i + 1] * Base + Bytes(n)[i] BY <1>1, <2>1
  <2>5. f0[i] = out[i] BY <2>2, <2>3, <2>4
  <2> QED BY <2>1, <2>5
<1>6. T = 0..Width
  <2> HIDE DEF T
  <2>1. T \in SUBSET (0..Width) BY DEF T
  <2> QED BY <2>1, <1>0, <1>4, <1>5, UpTo
<1>7. Width \in T /\ Width + 1 - Width = 1 BY <1>0, <1>6
<1>8. f0[1] = out[1] BY <1>7
<1>9. out[1] = n
  <2>1. 1 \in 1..(Width + 1) /\ 1 - 1 = 0 BY <1>0
  <2> QED BY <2>1, ShiftedIs DEF out
<1> QED BY <1>3, <1>8, <1>9

(* What the invariant says of every form: the id is still the one of the   *)
(* factory.                                                                *)
IdInv ==
  /\ kind \in {0, 1} /\ uid \in Uid
  /\ form \in {"factory", "packet", "number", "row", "table", "command"}
  /\ form = "packet" => value = <<kind>> \o Bytes(uid)
  /\ form \in {"number", "row", "table"} => value = uid
  /\ form = "command" => kind = 0 /\ \E l \in {0, 1} : value = Bytes(uid) \o <<l>>

(* An id survives its bytes and a double.                                  *)
LEMMA IdOK == \A n \in Uid : /\ n \in Nat /\ Number(Bytes(n)) = n /\ Double(n) = n
                             /\ Bytes(n) \in Seq(Byte) /\ Len(Bytes(n)) = Width
<1> SUFFICES ASSUME NEW n \in Uid
             PROVE /\ n \in Nat /\ Number(Bytes(n)) = n /\ Double(n) = n
                   /\ Bytes(n) \in Seq(Byte) /\ Len(Bytes(n)) = Width
  OBVIOUS
<1>1. n \in Nat /\ Shifted(n)[Width] = 0 /\ n < 2 ^ Mantissa BY UidAssumption
<1>2. Double(n) = n BY <1>1 DEF Double
<1>3. Bytes(n) \in [1..Width -> Byte] BY <1>1, BytesType
<1>4. Bytes(n) \in Seq(Byte) /\ Len(Bytes(n)) = Width BY <1>3, WidthAssumption
<1> QED BY <1>1, <1>2, <1>4, NumberOfBytes

(* The id in a packet and in a command.                                    *)
LEMMA PacketParts ==
  ASSUME NEW b \in Seq(Byte), Len(b) = Width, NEW l \in {0, 1}
  PROVE  /\ SubSeq(<<l>> \o b, 2, Width + 1) = b
         /\ SubSeq(b \o <<l>>, 1, Width) = b
         /\ \A i \in 2..Width : SubSeq(<<l>> \o b, 1, Width)[i] = b[i - 1]
<1>0. Width \in Nat \ {0, 1} BY WidthAssumption
<1>1. b \in Seq(Byte \cup {0, 1}) /\ <<l>> \in Seq(Byte \cup {0, 1}) OBVIOUS
<1>2. SubSeq(<<l>> \o b, 2, Width + 1) = b BY <1>0, <1>1
<1>3. SubSeq(b \o <<l>>, 1, Width) = b BY <1>0, <1>1
<1>4. \A i \in 2..Width : SubSeq(<<l>> \o b, 1, Width)[i] = b[i - 1] BY <1>0, <1>1
<1> QED BY <1>2, <1>3, <1>4

(* No conversion changes the id.                                           *)
LEMMA IdInvInductive == IdSpec => []IdInv
<1>1. IdInit => IdInv BY DEF IdInit, IdInv
<1>2. IdInv /\ [IdNext]_idVars => IdInv'
  <2> SUFFICES ASSUME IdInv, [IdNext]_idVars PROVE IdInv' OBVIOUS
  <2> USE DEF IdInv
  <2>1. CASE SendPacket BY <2>1 DEF SendPacket, To
  <2>2. CASE Convert
    <3>1. value = <<kind>> \o Bytes(uid) BY <2>2 DEF Convert
    <3>2. SubSeq(value, 2, Width + 1) = Bytes(uid) BY <3>1, IdOK, PacketParts
    <3>3. value' = uid BY <2>2, <3>2, IdOK DEF Convert, To
    <3> QED BY <2>2, <3>3 DEF Convert, To
  <2>3. CASE Register BY <2>3 DEF Register, To
  <2>4. CASE AnswerSensor BY <2>4 DEF AnswerSensor, To
  <2>5. CASE AnswerDevice BY <2>5, IdOK DEF AnswerDevice, To
  <2>6. CASE Regulate BY <2>6 DEF Regulate, To
  <2>7. CASE UNCHANGED idVars BY <2>7 DEF idVars
  <2> QED BY <2>1, <2>2, <2>3, <2>4, <2>5, <2>6, <2>7 DEF IdNext
<1> QED BY <1>1, <1>2, PTL DEF IdSpec

(* Whatever ids the nodes have been given, and however many bytes of how   *)
(* many values they have, as long as no bit is lost in a double and the    *)
(* manufacturer's two bytes differ: a command reaches the end device whose *)
(* announcement registered it and no other, the id of a sensor comes back  *)
(* as it was sent, and what a node sends is no end device's address.       *)
THEOREM IdsComeHome == IdSpec => []ComesHome
<1>1. IdInv => ComesHome
  <2> SUFFICES ASSUME IdInv PROVE ComesHome OBVIOUS
  <2>0. uid \in Uid BY DEF IdInv
  <2>1. ASSUME form = "command" PROVE Addressed(value) = {uid}
    <3>1. PICK l \in {0, 1} : value = Bytes(uid) \o <<l>> BY <2>1 DEF IdInv
    <3>2. SubSeq(value, 1, Width) = Bytes(uid) BY <3>1, <2>0, IdOK, PacketParts
    <3>3. ASSUME NEW u \in Uid, Bytes(u) = Bytes(uid) PROVE u = uid
      BY <2>0, <3>3, IdOK
    <3> QED BY <2>0, <3>2, <3>3 DEF Addressed
  <2>2. ASSUME form = "table", kind = 1 PROVE value = uid BY <2>2 DEF IdInv
  <2>3. ASSUME form = "packet" PROVE Addressed(value) = {}
    <3>1. value = <<kind>> \o Bytes(uid) /\ kind \in {0, 1} BY <2>3 DEF IdInv
    <3>2. Width \in 2..Width BY WidthAssumption
    <3>3. SubSeq(value, 1, Width)[Width] = Bytes(uid)[Width - 1]
      BY <3>1, <3>2, <2>0, IdOK, PacketParts
    <3>4. \A u \in Uid : Bytes(u)[Width] # Bytes(uid)[Width - 1] BY <2>0, UidAssumption
    <3> QED BY <3>3, <3>4 DEF Addressed
  <2> QED BY <2>1, <2>2, <2>3 DEF ComesHome
<1> QED BY <1>1, IdInvInductive, PTL
-------------------------------------------------------------------------------
Digit == 0..15 \cup {Bad}

(* Four digits are a number of 16 bits, or 0 if one is no digit.           *)
LEMMA Hex4Type ==
  ASSUME NEW d \in [1..4 -> Digit]
  PROVE  Hex4(d) \in Nat /\ Hex4(d) <= 65535
<1>1. CASE \E k \in 1..4 : d[k] = Bad BY <1>1 DEF Hex4
<1>2. CASE ~\E k \in 1..4 : d[k] = Bad
  <2>1. \A k \in 1..4 : d[k] \in Nat /\ d[k] <= 15
    BY <1>2 DEF Digit
  <2>2. Hex4(d) = ((d[1] * 16 + d[2]) * 16 + d[3]) * 16 + d[4] BY <1>2 DEF Hex4
  <2>4. d[1] * 16 + d[2] \in Nat /\ d[1] * 16 + d[2] <= 255 BY <2>1
  <2>5. (d[1] * 16 + d[2]) * 16 + d[3] \in Nat /\ (d[1] * 16 + d[2]) * 16 + d[3] <= 4095
    BY <2>1, <2>4
  <2> QED BY <2>1, <2>2, <2>5
<1> QED BY <1>1, <1>2

(* The bytes of a character, and that they decode to it, by their number.  *)
LEMMA OneByte ==
  ASSUME NEW cp \in Nat, cp <= 127
  PROVE  /\ Utf8Length(cp) = 1 /\ Utf8(cp) = <<cp>>
<1>1. Utf8Length(cp) = 1 BY DEF Utf8Length
<1>2. \A k \in 1..1 : k = 1 OBVIOUS
<1>3. FirstByteMark[1] + ((cp \div SixBits[1 - 1 + 1]) % BelowMark[1]) = cp
  BY DEF FirstByteMark, SixBits, BelowMark
<1> QED BY <1>1, <1>2, <1>3 DEF Utf8

(* The same of two bytes,                                                  *)
LEMMA TwoBytes ==
  ASSUME NEW cp \in Nat, cp >= 128, cp <= 2047
  PROVE  /\ Utf8Length(cp) = 2 /\ Len(Utf8(cp)) = 2
         /\ Utf8(cp)[1] = 192 + (cp \div 64) /\ Utf8(cp)[2] = 128 + (cp % 64)
<1>1. Utf8Length(cp) = 2 BY DEF Utf8Length
<1>2. FirstByteMark[2] + ((cp \div SixBits[2 - 1 + 1]) % BelowMark[2]) = 192 + (cp \div 64)
  BY DEF FirstByteMark, SixBits, BelowMark
<1>3. 128 + ((cp \div SixBits[2 - 2 + 1]) % 64) = 128 + (cp % 64) BY DEF SixBits
<1>4. /\ DOMAIN Utf8(cp) = 1..2
      /\ Utf8(cp)[1] = 192 + (cp \div 64)
      /\ Utf8(cp)[2] = 128 + (cp % 64)
  BY <1>1, <1>2, <1>3 DEF Utf8
<1>5. Utf8(cp) = <<Utf8(cp)[1], Utf8(cp)[2]>>
  <2>1. Utf8(cp) = [k \in 1..2 |-> Utf8(cp)[k]] BY <1>1 DEF Utf8
  <2> QED BY <2>1, <1>4
<1>6. Len(Utf8(cp)) = 2 BY <1>5
<1> QED BY <1>1, <1>4, <1>6

(* of three                                                                *)
LEMMA ThreeBytes ==
  ASSUME NEW cp \in Nat, cp >= 2048, cp <= 65535
  PROVE  /\ Utf8Length(cp) = 3 /\ Len(Utf8(cp)) = 3
         /\ Utf8(cp)[1] = 224 + (cp \div 4096)
         /\ Utf8(cp)[2] = 128 + ((cp \div 64) % 64) /\ Utf8(cp)[3] = 128 + (cp % 64)
<1>1. Utf8Length(cp) = 3 BY DEF Utf8Length
<1>2. FirstByteMark[3] + ((cp \div SixBits[3 - 1 + 1]) % BelowMark[3]) = 224 + (cp \div 4096)
  BY DEF FirstByteMark, SixBits, BelowMark
<1>3. 128 + ((cp \div SixBits[3 - 2 + 1]) % 64) = 128 + ((cp \div 64) % 64) BY DEF SixBits
<1>4. 128 + ((cp \div SixBits[3 - 3 + 1]) % 64) = 128 + (cp % 64) BY DEF SixBits
<1>5. /\ DOMAIN Utf8(cp) = 1..3
      /\ Utf8(cp)[1] = 224 + (cp \div 4096)
      /\ Utf8(cp)[2] = 128 + ((cp \div 64) % 64)
      /\ Utf8(cp)[3] = 128 + (cp % 64)
  BY <1>1, <1>2, <1>3, <1>4 DEF Utf8
<1>6. Utf8(cp) = <<Utf8(cp)[1], Utf8(cp)[2], Utf8(cp)[3]>>
  <2>1. Utf8(cp) = [k \in 1..3 |-> Utf8(cp)[k]] BY <1>1 DEF Utf8
  <2> QED BY <2>1, <1>5
<1>7. Len(Utf8(cp)) = 3 BY <1>6
<1> QED BY <1>1, <1>5, <1>7

(* and of four.                                                            *)
LEMMA FourBytes ==
  ASSUME NEW cp \in Nat, cp >= 65536, cp <= 1114111
  PROVE  /\ Utf8Length(cp) = 4 /\ Len(Utf8(cp)) = 4
         /\ Utf8(cp)[1] = 240 + (cp \div 262144)
         /\ Utf8(cp)[2] = 128 + ((cp \div 4096) % 64)
         /\ Utf8(cp)[3] = 128 + ((cp \div 64) % 64) /\ Utf8(cp)[4] = 128 + (cp % 64)
<1>1. Utf8Length(cp) = 4 BY DEF Utf8Length
<1>2. FirstByteMark[4] + ((cp \div SixBits[4 - 1 + 1]) % BelowMark[4]) = 240 + (cp \div 262144)
  BY DEF FirstByteMark, SixBits, BelowMark
<1>3. 128 + ((cp \div SixBits[4 - 2 + 1]) % 64) = 128 + ((cp \div 4096) % 64) BY DEF SixBits
<1>4. 128 + ((cp \div SixBits[4 - 3 + 1]) % 64) = 128 + ((cp \div 64) % 64) BY DEF SixBits
<1>5. 128 + ((cp \div SixBits[4 - 4 + 1]) % 64) = 128 + (cp % 64) BY DEF SixBits
<1>6. /\ DOMAIN Utf8(cp) = 1..4
      /\ Utf8(cp)[1] = 240 + (cp \div 262144)
      /\ Utf8(cp)[2] = 128 + ((cp \div 4096) % 64)
      /\ Utf8(cp)[3] = 128 + ((cp \div 64) % 64)
      /\ Utf8(cp)[4] = 128 + (cp % 64)
  BY <1>1, <1>2, <1>3, <1>4, <1>5 DEF Utf8
<1>7. Utf8(cp) = <<Utf8(cp)[1], Utf8(cp)[2], Utf8(cp)[3], Utf8(cp)[4]>>
  <2>1. Utf8(cp) = [k \in 1..4 |-> Utf8(cp)[k]] BY <1>1 DEF Utf8
  <2> QED BY <2>1, <1>6
<1>8. Len(Utf8(cp)) = 4 BY <1>7
<1> QED BY <1>1, <1>6, <1>8

(* A reader of UTF-8 gets the character back, and it needs the bytes.      *)
LEMMA DecodesBack ==
  ASSUME NEW cp \in Nat, cp <= 1114111, WrittenBytes = Utf8(cp)
  PROVE  /\ Decoded = cp
         /\ \A k \in 2..Len(WrittenBytes) : Continues(WrittenBytes[k])
         /\ cp >= <<0, 128, 2048, 65536>>[Len(WrittenBytes)]
<1> DEFINE b == WrittenBytes
<1>1. CASE cp <= 127
  <2>1. Len(b) = 1 /\ b[1] = cp BY <1>1, OneByte
  <2> HIDE DEF b
  <2>2. Decoded = cp BY <1>1, <2>1 DEF Decoded, b
  <2> QED BY <1>1, <2>1, <2>2 DEF b
<1>2. CASE cp >= 128 /\ cp <= 2047
  <2>1. Len(b) = 2 /\ b[1] = 192 + (cp \div 64) /\ b[2] = 128 + (cp % 64)
    BY <1>2, TwoBytes
  <2> HIDE DEF b
  <2>2. b[1] \div 32 = 6 /\ (b[1] % 32) * 64 + (b[2] % 64) = cp BY <1>2, <2>1
  <2>3. b[2] \div 64 = 2 BY <1>2, <2>1
  <2>4. Decoded = cp BY <2>1, <2>2 DEF Decoded, b
  <2> QED BY <1>2, <2>1, <2>3, <2>4 DEF b, Continues
<1>3. CASE cp >= 2048 /\ cp <= 65535
  <2>1. Len(b) = 3 /\ b[1] = 224 + (cp \div 4096) /\ b[2] = 128 + ((cp \div 64) % 64)
        /\ b[3] = 128 + (cp % 64)
    BY <1>3, ThreeBytes
  <2> HIDE DEF b
  <2>2. b[1] \div 16 = 14 BY <1>3, <2>1
  <2>3. ((b[1] % 16) * 64 + (b[2] % 64)) * 64 + (b[3] % 64) = cp BY <1>3, <2>1
  <2>4. b[2] \div 64 = 2 /\ b[3] \div 64 = 2 BY <1>3, <2>1
  <2>5. Decoded = cp BY <2>1, <2>2, <2>3 DEF Decoded, b
  <2> QED BY <1>3, <2>1, <2>4, <2>5 DEF b, Continues
<1>4. CASE cp >= 65536 /\ cp <= 1114111
  <2>1. Len(b) = 4 /\ b[1] = 240 + (cp \div 262144) /\ b[2] = 128 + ((cp \div 4096) % 64)
        /\ b[3] = 128 + ((cp \div 64) % 64) /\ b[4] = 128 + (cp % 64)
    BY <1>4, FourBytes
  <2> HIDE DEF b
  <2>2. b[1] \div 8 = 30 BY <1>4, <2>1
  <2>3. (((b[1] % 8) * 64 + (b[2] % 64)) * 64 + (b[3] % 64)) * 64 + (b[4] % 64) = cp
    BY <1>4, <2>1
  <2>4. b[2] \div 64 = 2 /\ b[3] \div 64 = 2 /\ b[4] \div 64 = 2 BY <1>4, <2>1
  <2>5. Decoded = cp BY <2>1, <2>2, <2>3 DEF Decoded, b
  <2> QED BY <1>4, <2>1, <2>4, <2>5 DEF b, Continues
<1> QED BY <1>1, <1>2, <1>3, <1>4

EscapeInv ==
  /\ firstUnit \in [1..4 -> Digit]
  /\ secondUnit \in {<<>>} \cup [1..4 -> Digit]
  /\ written \in {<<>>, <<Utf16ToUtf8(firstUnit, secondUnit)>>}

(* The escapes stay as they were read, and what is written is theirs.      *)
LEMMA EscapeInvInductive == EscapeSpec => []EscapeInv
<1>1. EscapeInit => EscapeInv
  BY DigitsAssumption, FollowersAssumption DEF EscapeInit, EscapeInv, Digit
<1>2. EscapeInv /\ [EscapeNext]_escapeVars => EscapeInv'
  BY DEF EscapeInv, EscapeNext, ParseEscape, escapeVars
<1> QED BY <1>1, <1>2, PTL DEF EscapeSpec

(* Of any digits and whatever follows them: utf16_literal_to_utf8 refuses  *)
(* exactly the halves of surrogate pairs, and otherwise writes the one     *)
(* shortest UTF-8 encoding of the character the escapes name.              *)
THEOREM EscapesAreEncoded == EscapeSpec => []EncodesTheCharacter
<1>1. EscapeInv => EncodesTheCharacter
  <2> SUFFICES ASSUME EscapeInv, written # <<>> PROVE EncodesTheCharacter
    BY DEF EncodesTheCharacter
  <2> DEFINE u == Hex4(firstUnit)
             v == Hex4(secondUnit)
             half == Low(u) \/ (High(u) /\ (secondUnit = <<>> \/ ~Low(v)))
             cp == IF High(u) THEN (u - 55296) * 1024 + (v - 56320) + 65536 ELSE u
  <2>1. written[1] = Utf16ToUtf8(firstUnit, secondUnit) BY DEF EscapeInv
  <2>2. u \in Nat /\ u <= 65535 BY Hex4Type DEF EscapeInv
  <2>3. secondUnit # <<>> => v \in Nat /\ v <= 65535 BY Hex4Type DEF EscapeInv
  <2>4. CASE half
    <3>1. written[1] = Refused
      <4>1. CASE Low(u) BY <4>1, <2>1 DEF Utf16ToUtf8
      <4>2. CASE High(u) /\ (secondUnit = <<>> \/ ~Low(v)) BY <4>2, <2>1 DEF Utf16ToUtf8
      <4> QED BY <2>4, <4>1, <4>2
    <3> QED BY <2>4, <3>1 DEF EncodesTheCharacter
  <2>5. CASE ~half
    <3>1. cp \in Nat /\ cp <= 1114111 /\ WrittenBytes = Utf8(cp)
      <4>1. CASE High(u)
        <5>1. secondUnit # <<>> /\ Low(v) /\ ~Low(u) BY <2>5, <4>1
        <5>2. v \in Nat /\ v >= 56320 /\ v <= 57343 BY <5>1, <2>3 DEF Low
        <5>3. u \in Nat /\ u >= 55296 /\ u <= 56319 BY <4>1, <2>2 DEF High
        <5>4. WrittenBytes = Utf8(Pair(u, v))
          BY <5>1, <4>1, <2>1 DEF Utf16ToUtf8, WrittenBytes
        <5> HIDE DEF u, v
        <5>5. u % 1024 = u - 55296 /\ v % 1024 = v - 56320 BY <5>2, <5>3
        <5>6. Pair(u, v) = cp BY <5>2, <5>3, <5>5, <4>1 DEF Pair
        <5>7. cp \in Nat /\ cp <= 1114111 BY <5>2, <5>3, <4>1
        <5> QED BY <5>4, <5>6, <5>7
      <4>2. CASE ~High(u)
        <5>1. WrittenBytes = Utf8(u) BY <2>5, <4>2, <2>1 DEF Utf16ToUtf8, WrittenBytes
        <5> QED BY <5>1, <4>2, <2>2
      <4> QED BY <4>1, <4>2
    <3> HIDE DEF cp
    <3>2. /\ Decoded = cp
          /\ \A k \in 2..Len(WrittenBytes) : Continues(WrittenBytes[k])
          /\ cp >= <<0, 128, 2048, 65536>>[Len(WrittenBytes)]
      BY <3>1, DecodesBack
    <3> QED BY <2>5, <3>2 DEF EncodesTheCharacter, cp
  <2> QED BY <2>4, <2>5
<1> QED BY <1>1, EscapeInvInductive, PTL
==============================================================================
