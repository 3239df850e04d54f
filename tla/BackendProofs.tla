---------------------------- MODULE BackendProofs ----------------------------
(***************************************************************************)
(* Theorems about the backend: the ingestion of readings, for any number   *)
(* of boards, nodes and posts; the offline mark, for any number of sensors *)
(* and runs; and the answer to a controller that asks for its zones, for   *)
(* any zones, sensors, devices and limits.                                 *)
(*                                                                         *)
(* AllOrNothing is not inductive: that a transaction inserts a controller  *)
(* or a node only when there is none rests on what its own SELECT found,   *)
(* and on nobody else having changed that since.  PostsAreCurrent says so  *)
(* of every step a post can be at, OneRegistersANode that the lock on the  *)
(* key keeps two posts from inserting the same node.                       *)
(*                                                                         *)
(* OnePushPerSilence rests on three facts that hold while runs neither     *)
(* overlap nor fail: there is one run; a sensor whose owner was told is    *)
(* marked or is about to be, so that the query of the next run does not    *)
(* list it; and nobody was told of what a run still has on its list.       *)
(*                                                                         *)
(* UntouchedIsExact speaks of finished answers.  It holds of each part of  *)
(* an answer from the moment it is put in (PartsAreExact), because what    *)
(* changes afterwards is dirty; of the reading already while the devices   *)
(* of its zone are still asked for; and the parts are those of the zones   *)
(* listed and no longer to be done (PartsOfListed).                        *)
(***************************************************************************)
EXTENDS Ingestion, SensorHealth, Provisioning, WellFoundedInduction,
        SequenceTheorems, FiniteSetTheorems, TLAPS

(* What a post has found is still so.                                      *)
PostIsCurrent(b) ==
  /\ post[b].at \in {"board", "addBoard"} => ~post[b].newBoard
  /\ post[b].at = "addBoard" => rowsOf[b] = 0
  /\ post[b].at \in {"body", "node", "addNode", "write"} =>
       (post[b].newBoard <=> rowsOf[b] = 0)
  /\ post[b].at \notin {"none", "write"} => ~post[b].newNode
  /\ post[b].at = "write" =>
       (post[b].newNode <=> owner[post[b].node] = Unregistered)

PostsAreCurrent == \A b \in Board : PostIsCurrent(b)

Registers(b) == post[b].at = "write" /\ post[b].newNode

OneRegistersANode ==
  \A b, c \in Board :
    Registers(b) /\ Registers(c) /\ post[b].node = post[c].node => b = c

PostInv == TypeOK /\ AllOrNothing /\ PostsAreCurrent /\ OneRegistersANode

USE DEF Node, None, Unregistered

LEMMA PostTypes ==
  ASSUME TypeOK, NEW b \in Board, post[b].at # "none"
  PROVE  /\ post[b] \in Post
         /\ post[b].node \in Node
  BY DEF TypeOK, Post

LEMMA InitPostInv == Init => PostInv
  BY PostsAssumption DEF Init, PostInv, TypeOK, AllOrNothing, PostsAreCurrent,
     PostIsCurrent, OneRegistersANode, Registers

(* A step that moves the post of one board and leaves the tables alone.    *)
LEMMA MoveKeepsPostInv ==
  ASSUME PostInv, UNCHANGED tables, NEW b \in Board,
         NEW p \in Post \cup {None}, post' = [post EXCEPT ![b] = p],
         posts' \in [Board -> 0..MaxPosts], PostIsCurrent(b)',
         Registers(b)' => ~Registers(b) /\ ~Locked(b) /\ p.node = post[b].node
  PROVE  PostInv'
<1>1. TypeOK' BY DEF PostInv, TypeOK, tables
<1>2. AllOrNothing' BY DEF PostInv, AllOrNothing, tables
<1>3. PostsAreCurrent'
  BY DEF PostInv, PostsAreCurrent, PostIsCurrent, TypeOK, tables
<1>4. OneRegistersANode'
  <2> SUFFICES ASSUME NEW c \in Board, NEW d \in Board,
                      Registers(c)', Registers(d)',
                      (post[c].node = post[d].node)', c # d
               PROVE  FALSE
    BY DEF OneRegistersANode
  <2>1. \A e \in Board \ {b} : post'[e] = post[e]
    BY DEF PostInv, TypeOK
  <2>2. CASE c # b /\ d # b
    BY <2>1, <2>2 DEF PostInv, OneRegistersANode, Registers
  <2>3. CASE c = b
    BY <2>1, <2>3 DEF PostInv, TypeOK, Registers, Locked
  <2>4. CASE d = b
    BY <2>1, <2>4 DEF PostInv, TypeOK, Registers, Locked
  <2> QED BY <2>2, <2>3, <2>4
<1> QED BY <1>1, <1>2, <1>3, <1>4 DEF PostInv

LEMMA StepKeepsPostInv == PostInv /\ [Next]_vars => PostInv'
<1> SUFFICES ASSUME PostInv, [Next]_vars PROVE PostInv'
  OBVIOUS
<1> USE DEF PostInv
<1>1. ASSUME NEW b \in Board, Receive(b) PROVE PostInv'
  <2>1. PICK n \in Node, ok \in BOOLEAN :
          post' = [post EXCEPT ![b] =
                     [at |-> "board", node |-> n, complete |-> ok,
                      newBoard |-> FALSE, newNode |-> FALSE]]
    BY <1>1 DEF Receive, Next1
  <2>2. posts' \in [Board -> 0..MaxPosts]
    BY <1>1, PostsAssumption DEF Receive, TypeOK
  <2> QED
    BY <1>1, <2>1, <2>2, MoveKeepsPostInv
    DEF Receive, Post, PostIsCurrent, Registers, TypeOK
<1>2. ASSUME NEW b \in Board, SelectBoard(b) PROVE PostInv'
  <2>1. post[b] \in Post BY <1>2, PostTypes DEF SelectBoard
  <2>2. PostIsCurrent(b) BY DEF PostsAreCurrent
  <2> QED
    BY <1>2, <2>1, <2>2, MoveKeepsPostInv
    DEF SelectBoard, Goto, Post, PostIsCurrent, Registers, TypeOK, tables
<1>3. ASSUME NEW b \in Board, InsertBoard(b) PROVE PostInv'
  <2>1. post[b] \in Post BY <1>3, PostTypes DEF InsertBoard
  <2>2. PostIsCurrent(b) BY DEF PostsAreCurrent
  <2> QED
    BY <1>3, <2>1, <2>2, MoveKeepsPostInv
    DEF InsertBoard, Post, PostIsCurrent, Registers, TypeOK, tables
<1>4. ASSUME NEW b \in Board,
             Refuse(b) \/ InsertFails(b) \/ Break(b)
      PROVE PostInv'
  BY <1>4, MoveKeepsPostInv
  DEF Refuse, InsertFails, Break, Next1, PostIsCurrent, Registers, TypeOK
<1>5. ASSUME NEW b \in Board, Accept(b) PROVE PostInv'
  <2>1. post[b] \in Post BY <1>5, PostTypes DEF Accept
  <2>2. PostIsCurrent(b) BY DEF PostsAreCurrent
  <2> QED
    BY <1>5, <2>1, <2>2, MoveKeepsPostInv
    DEF Accept, Goto, Post, PostIsCurrent, Registers, TypeOK, tables
<1>6. ASSUME NEW b \in Board, SelectNode(b) PROVE PostInv'
  <2>1. post[b] \in Post BY <1>6, PostTypes DEF SelectNode
  <2>2. PostIsCurrent(b) BY DEF PostsAreCurrent
  <2> QED
    BY <1>6, <2>1, <2>2, MoveKeepsPostInv
    DEF SelectNode, Goto, Post, PostIsCurrent, Registers, TypeOK, tables
<1>7. ASSUME NEW b \in Board, InsertNode(b) PROVE PostInv'
  <2>1. post[b] \in Post BY <1>7, PostTypes DEF InsertNode
  <2>2. PostIsCurrent(b) BY DEF PostsAreCurrent
  <2> QED
    BY <1>7, <2>1, <2>2, MoveKeepsPostInv
    DEF InsertNode, Post, PostIsCurrent, Registers, TypeOK, tables
<1>8. ASSUME NEW b \in Board, Write(b) PROVE PostInv'
  <2> DEFINE n == post[b].node
  <2>1. post[b] \in Post /\ n \in Node BY <1>8, PostTypes DEF Write
  <2>2. PostIsCurrent(b) BY DEF PostsAreCurrent
  <2>3. /\ post' = [post EXCEPT ![b] = None]
        /\ \A c \in Board \ {b} : rowsOf'[c] = rowsOf[c]
        /\ rowsOf'[b] = IF rowsOf[b] = 0 THEN 1 ELSE rowsOf[b]
        /\ owner'[n] # Unregistered
        /\ owner[n] # Unregistered => owner'[n] = owner[n]
        /\ owner[n] = Unregistered => owner'[n] = b
        /\ \A m \in Node \ {n} : owner'[m] = owner[m]
        /\ \A s \in Sensor \ {n} : readings'[s] = readings[s]
    BY <1>8, <2>1, <2>2, BoardAssumption
    DEF Write, Next1, TypeOK, PostIsCurrent, Post
  <2>4. TypeOK'
    BY <1>8, <2>1 DEF Write, Next1, TypeOK, Post
  <2>5. AllOrNothing'
    BY <2>1, <2>3 DEF AllOrNothing, TypeOK
  <2>6. PostsAreCurrent'
    <3> SUFFICES ASSUME NEW c \in Board, c # b PROVE PostIsCurrent(c)'
      BY <2>3 DEF PostsAreCurrent, PostIsCurrent, TypeOK
    <3>1. PostIsCurrent(c) /\ post'[c] = post[c]
      BY <2>3 DEF PostsAreCurrent, TypeOK
    <3>2. post[c].at = "write" => post[c].node \in Node
      BY PostTypes
    <3>3. CASE post[c].at = "write" /\ post[c].node = n
      BY <1>8, <2>2, <2>3, <3>1, <3>2, <3>3
      DEF Write, PostIsCurrent, OneRegistersANode, Registers
    <3>4. CASE ~(post[c].at = "write" /\ post[c].node = n)
      BY <2>3, <3>1, <3>2, <3>4 DEF PostIsCurrent
    <3> QED BY <3>3, <3>4
  <2>7. OneRegistersANode'
    BY <2>3 DEF OneRegistersANode, Registers, TypeOK
  <2> QED BY <2>4, <2>5, <2>6, <2>7
<1>9. ASSUME NEW s \in Sensor, GoOffline(s) PROVE PostInv'
  BY <1>9 DEF GoOffline, TypeOK, AllOrNothing, PostsAreCurrent,
     PostIsCurrent, OneRegistersANode, Registers
<1>10. CASE UNCHANGED vars
  BY <1>10 DEF vars, tables, TypeOK, AllOrNothing, PostsAreCurrent,
     PostIsCurrent, OneRegistersANode, Registers
<1> QED
  BY <1>1, <1>2, <1>3, <1>4, <1>5, <1>6, <1>7, <1>8, <1>9, <1>10
  DEF Next, Step

(* The inductive invariant holds of every behaviour.                       *)
THEOREM PostInvHolds == Spec => []PostInv
  BY InitPostInv, StepKeepsPostInv, PTL DEF Spec

(* The rows and the posts under way have the form the code gives them, and *)
(* no board makes more posts than the bound.                               *)
THEOREM PostTypesHold == Spec => []TypeOK
  BY PostInvHolds, PTL DEF PostInv

(* Whatever posts are refused, fail or break off, and however those of     *)
(* several boards interleave, a controller has at most one row, nodes name *)
(* controllers that exist and readings belong to nodes that exist.         *)
THEOREM NothingIsHalfDone == Spec => []AllOrNothing
  BY PostInvHolds, PTL DEF PostInv

(* A node never changes hands: POST /htl-logs writes its owner only when   *)
(* it inserts it.                                                          *)
THEOREM NodesStay == Spec => FirstComeFirstServed
<1>1. PostInv /\ [Next]_vars =>
        [\A n \in Node : owner[n] # Unregistered => owner'[n] = owner[n]]_vars
  <2> SUFFICES ASSUME PostInv, Next, NEW n \in Node, owner[n] # Unregistered
               PROVE  owner'[n] = owner[n]
    OBVIOUS
  <2>1. CASE \E b \in Board : Write(b)
    <3>1. PICK b \in Board : Write(b) BY <2>1
    <3>2. PostIsCurrent(b) /\ post[b].at = "write"
      BY <3>1 DEF Write, PostInv, PostsAreCurrent
    <3> QED
      BY <3>1, <3>2 DEF Write, PostIsCurrent, PostInv, TypeOK
  <2>2. CASE ~\E b \in Board : Write(b)
    BY <2>2 DEF Next, Step, Receive, SelectBoard, InsertBoard, Refuse, Accept,
       SelectNode, InsertNode, InsertFails, Break, GoOffline, tables
  <2> QED BY <2>1, <2>2
<1> QED BY <1>1, PostInvHolds, PTL DEF Spec, FirstComeFirstServed
-------------------------------------------------------------------------------
(* The offline mark.                                                       *)

OneRun == \A v, w \in Sweeps : sweep[v] # <<>> /\ sweep[w] # <<>> => v = w

BeingMarked(s) == \E w \in Sweeps : pushed[w] /\ Head(sweep[w]) = s

ToldAreMarked == \A s \in Sensors : told[s] => is_offline[s] \/ BeingMarked(s)

(* The first of the list has been announced when pushed is set.            *)
Untold(w) ==
  \A i \in 1..Len(sweep[w]) : (i = 1 => ~pushed[w]) => ~told[sweep[w][i]]

InOrder == ~disorder => OneRun /\ ToldAreMarked /\ \A w \in Sweeps : Untold(w)

HealthInv == HealthTypeOK /\ InOrder
-------------------------------------------------------------------------------
LEMMA HeadTail ==
  ASSUME NEW S, NEW s \in Seq(S), s # <<>>
  PROVE  /\ Head(s) = s[1] /\ Head(s) \in S /\ Len(s) \in Nat \ {0}
         /\ Tail(s) \in Seq(S)
         /\ Len(Tail(s)) = Len(s) - 1
         /\ \A k \in 1..Len(s) - 1 : Tail(s)[k] = s[k + 1]
  BY HeadTailProperties, EmptySeq

(* The list of a run that begins: silent sensors, each once.               *)
LEMMA ListOfSilent ==
  ASSUME NEW list \in SetToSeqs(Silent)
  PROVE  /\ list \in Seq(Sensors) /\ IsInjective(list)
         /\ \A i \in 1..Len(list) : list[i] \in Silent
<1>1. Silent \subseteq Sensors BY DEF Silent
<1>2. IsFiniteSet(Silent) BY <1>1, SensorsAssumption, FS_Subset
<1>3. Cardinality(Silent) \in Nat BY <1>2, FS_CardinalityType
<1> DEFINE n == Cardinality(Silent)
<1>4. /\ list \in [1..n -> Silent]
      /\ \A i, j \in 1..n : i # j => list[i] # list[j]
  BY DEF SetToSeqs
<1>5. n \in Nat BY <1>3
<1> HIDE DEF n
<1>6. list \in Seq(Sensors) /\ Len(list) = n BY <1>1, <1>4, <1>5
<1>7. IsInjective(list) BY <1>4 DEF IsInjective
<1> QED BY <1>4, <1>6, <1>7

LEMMA EmptyList ==
  ASSUME NEW S
  PROVE  <<>> \in Seq(S) /\ IsInjective(<<>>)
  BY DEF IsInjective

(* What a run has left when it is done with the first of its list.         *)
LEMMA RestOfList ==
  ASSUME NEW S, NEW s \in Seq(S), s # <<>>, IsInjective(s)
  PROVE  Tail(s) \in Seq(S) /\ IsInjective(Tail(s))
<1>1. /\ Len(s) \in Nat \ {0} /\ Tail(s) \in Seq(S) /\ Len(Tail(s)) = Len(s) - 1
      /\ \A k \in 1..Len(s) - 1 : Tail(s)[k] = s[k + 1]
  BY HeadTail
<1>2. DOMAIN Tail(s) = 1..Len(s) - 1 /\ DOMAIN s = 1..Len(s) BY <1>1
<1>3. ASSUME NEW a \in 1..Len(s) - 1, NEW b \in 1..Len(s) - 1, Tail(s)[a] = Tail(s)[b]
      PROVE  a = b
  <2>1. s[a + 1] = s[b + 1] BY <1>1, <1>3
  <2>2. a + 1 \in 1..Len(s) /\ b + 1 \in 1..Len(s) BY <1>1
  <2>3. a + 1 = b + 1 BY <1>2, <2>1, <2>2 DEF IsInjective
  <2> QED BY <2>3
<1> QED BY <1>1, <1>2, <1>3 DEF IsInjective

LEMMA OldestIsAge == MaxAge \in 0..MaxAge /\ 0 \in 0..MaxAge
  BY AgeAssumption

LEMMA InitHealthInv == HealthInit => HealthInv
<1> SUFFICES ASSUME HealthInit PROVE HealthInv OBVIOUS
<1>1. HealthTypeOK BY OldestIsAge, EmptyList DEF HealthInit, HealthTypeOK
<1>2. InOrder BY DEF HealthInit, InOrder, OneRun, ToldAreMarked, Untold
<1> QED BY <1>1, <1>2 DEF HealthInv
-------------------------------------------------------------------------------
LEMMA HealthTypeStep == HealthTypeOK /\ [HealthNext]_healthVars => HealthTypeOK'
<1> SUFFICES ASSUME HealthTypeOK, [HealthNext]_healthVars PROVE HealthTypeOK'
  OBVIOUS
<1>1. CASE Tick
  <2>1. age' \in [Sensors -> 0..MaxAge]
    BY <1>1, AgeAssumption DEF Tick, HealthTypeOK
  <2> QED BY <1>1, <2>1 DEF Tick, HealthTypeOK
<1>2. ASSUME NEW s \in Sensors, StoreReading(s) PROVE HealthTypeOK'
  BY <1>2 DEF StoreReading, HealthTypeOK
<1>3. ASSUME NEW s \in Sensors, CommitReading(s) PROVE HealthTypeOK'
  BY <1>3, OldestIsAge DEF CommitReading, HealthTypeOK
<1>4. ASSUME NEW w \in Sweeps, BeginSweep(w) PROVE HealthTypeOK'
  <2> PICK list \in SetToSeqs(Silent) : sweep' = [sweep EXCEPT ![w] = list]
    BY <1>4 DEF BeginSweep
  <2>1. list \in Seq(Sensors) /\ IsInjective(list) BY ListOfSilent
  <2>2. ~pushed[w] BY <1>4 DEF BeginSweep, HealthTypeOK
  <2> QED BY <1>4, <2>1, <2>2 DEF BeginSweep, HealthTypeOK
<1>5. ASSUME NEW w \in Sweeps, Push(w) PROVE HealthTypeOK'
  <2>1. Head(sweep[w]) \in Sensors BY <1>5, HeadTail DEF Push, HealthTypeOK
  <2> QED BY <1>5, <2>1 DEF Push, HealthTypeOK
<1>6. ASSUME NEW w \in Sweeps, MarkOffline(w) PROVE HealthTypeOK'
  <2>1. sweep[w] \in Seq(Sensors) /\ sweep[w] # <<>> /\ IsInjective(sweep[w])
    BY <1>6 DEF MarkOffline, HealthTypeOK
  <2>2. Tail(sweep[w]) \in Seq(Sensors) /\ IsInjective(Tail(sweep[w]))
    BY <2>1, RestOfList
  <2> QED BY <1>6, <2>2 DEF MarkOffline, HealthTypeOK
<1>7. ASSUME NEW w \in Sweeps, SweepFails(w) PROVE HealthTypeOK'
  BY <1>7, EmptyList DEF SweepFails, HealthTypeOK
<1>8. CASE UNCHANGED healthVars BY <1>8 DEF healthVars, HealthTypeOK
<1> QED BY <1>1, <1>2, <1>3, <1>4, <1>5, <1>6, <1>7, <1>8 DEF HealthNext, Continue

LEMMA OrderStep == HealthInv /\ [HealthNext]_healthVars => InOrder'
<1> SUFFICES ASSUME HealthInv, [HealthNext]_healthVars, ~disorder' PROVE InOrder'
  BY DEF InOrder
<1> USE DEF HealthInv
<1>0. /\ \A w \in Sweeps : sweep[w] \in Seq(Sensors)
      /\ \A w \in Sweeps : pushed[w] => sweep[w] # <<>>
  BY DEF HealthTypeOK
<1>1. CASE Tick
  BY <1>1 DEF Tick, InOrder, OneRun, ToldAreMarked, BeingMarked, Untold
<1>2. ASSUME NEW s \in Sensors, StoreReading(s) PROVE InOrder'
  BY <1>2 DEF StoreReading, InOrder, OneRun, ToldAreMarked, BeingMarked, Untold
<1>3. ASSUME NEW s \in Sensors, CommitReading(s) PROVE InOrder'
  <2>1. OneRun' /\ ToldAreMarked'
    BY <1>3 DEF CommitReading, InOrder, OneRun, ToldAreMarked, BeingMarked,
       HealthTypeOK
  <2>2. ASSUME NEW w \in Sweeps PROVE Untold(w)'
    <3>1. \A x \in Sensors : told'[x] => told[x]
      BY <1>3 DEF CommitReading, HealthTypeOK
    <3>2. \A i \in 1..Len(sweep[w]) : sweep[w][i] \in Sensors
      BY <1>0, ElementOfSeq
    <3>3. Untold(w) BY <1>3 DEF CommitReading, InOrder
    <3> QED BY <1>3, <3>1, <3>2, <3>3 DEF CommitReading, Untold
  <2> QED BY <2>1, <2>2 DEF InOrder
<1>4. ASSUME NEW w \in Sweeps, BeginSweep(w) PROVE InOrder'
  <2> PICK list \in SetToSeqs(Silent) : sweep' = [sweep EXCEPT ![w] = list]
    BY <1>4 DEF BeginSweep
  <2>1. ~disorder /\ \A v \in Sweeps : sweep[v] = <<>>
    BY <1>4 DEF BeginSweep
  <2>2. /\ sweep'[w] = list /\ \A v \in Sweeps \ {w} : sweep'[v] = <<>>
        /\ \A v \in Sweeps : ~pushed[v]
        /\ pushed' = pushed /\ told' = told /\ is_offline' = is_offline
    BY <1>0, <1>4, <2>1 DEF BeginSweep, HealthTypeOK
  <2>3. OneRun' BY <2>2 DEF OneRun
  <2>4. \A s \in Sensors : told[s] => is_offline[s]
    BY <2>1, <2>2 DEF InOrder, ToldAreMarked, BeingMarked
  <2>5. ToldAreMarked' BY <2>2, <2>4 DEF ToldAreMarked
  <2>6. ASSUME NEW v \in Sweeps PROVE Untold(v)'
    <3>1. CASE v = w
      BY <2>2, <2>4, <3>1, ListOfSilent DEF Untold, Silent
    <3>2. CASE v # w BY <2>2, <3>2 DEF Untold
    <3> QED BY <3>1, <3>2
  <2> QED BY <2>3, <2>5, <2>6 DEF InOrder
<1>5. ASSUME NEW w \in Sweeps, Push(w) PROVE InOrder'
  <2>0. ~disorder BY <1>5 DEF Push
  <2> DEFINE s == Head(sweep[w])
  <2>1. /\ sweep[w] # <<>> /\ s = sweep[w][1] /\ s \in Sensors
        /\ Len(sweep[w]) \in Nat \ {0}
    BY <1>0, <1>5, HeadTail DEF Push
  <2>2. /\ pushed'[w] /\ \A v \in Sweeps \ {w} : pushed'[v] = pushed[v]
        /\ told'[s] /\ \A x \in Sensors \ {s} : told'[x] = told[x]
        /\ sweep' = sweep /\ is_offline' = is_offline
    BY <1>5, <2>1 DEF Push, HealthTypeOK
  <2>3. OneRun' BY <2>0, <2>2 DEF OneRun, InOrder
  <2>4. ToldAreMarked'
    <3> SUFFICES ASSUME NEW x \in Sensors, told'[x]
                 PROVE  is_offline'[x] \/ BeingMarked(x)'
      BY DEF ToldAreMarked
    <3>1. CASE x = s BY <2>2, <3>1 DEF BeingMarked
    <3>2. CASE x # s
      <4>1. is_offline[x] \/ BeingMarked(x)
        BY <2>0, <2>2, <3>2 DEF InOrder, ToldAreMarked
      <4>2. BeingMarked(x) => BeingMarked(x)'
        BY <2>2 DEF BeingMarked
      <4> QED BY <2>2, <4>1, <4>2
    <3> QED BY <3>1, <3>2
  <2>5. ASSUME NEW v \in Sweeps PROVE Untold(v)'
    <3>1. CASE v = w
      <4>1. ASSUME NEW i \in 1..Len(sweep[w]), i # 1 PROVE ~told'[sweep[w][i]]
        <5>1. ~told[sweep[w][i]] BY <2>0, <4>1 DEF InOrder, Untold
        <5>2. sweep[w][i] # sweep[w][1]
          <6>1. DOMAIN sweep[w] = 1..Len(sweep[w]) BY <1>0
          <6>2. 1 \in 1..Len(sweep[w]) BY <2>1
          <6>3. IsInjective(sweep[w]) BY DEF HealthTypeOK
          <6> QED BY <4>1, <6>1, <6>2, <6>3 DEF IsInjective
        <5>3. sweep[w][i] \in Sensors BY <1>0, ElementOfSeq
        <5> QED BY <2>1, <2>2, <5>1, <5>2, <5>3
      <4> QED BY <2>2, <3>1, <4>1 DEF Untold
    <3>2. CASE v # w
      <4>1. sweep[v] = <<>> BY <2>0, <2>1, <3>2 DEF InOrder, OneRun
      <4> QED BY <2>2, <4>1 DEF Untold
    <3> QED BY <3>1, <3>2
  <2> QED BY <2>3, <2>4, <2>5 DEF InOrder
<1>6. ASSUME NEW w \in Sweeps, MarkOffline(w) PROVE InOrder'
  <2>0. ~disorder BY <1>6 DEF MarkOffline
  <2> DEFINE s == Head(sweep[w])
  <2>1. /\ pushed[w] /\ sweep[w] # <<>> /\ s \in Sensors
        /\ sweep[w] \in Seq(Sensors) /\ Len(sweep[w]) \in Nat \ {0}
    BY <1>0, <1>6, HeadTail DEF MarkOffline
  <2>2. /\ sweep'[w] = Tail(sweep[w]) /\ ~pushed'[w]
        /\ \A v \in Sweeps \ {w} : sweep'[v] = sweep[v] /\ pushed'[v] = pushed[v]
        /\ is_offline'[s] /\ \A x \in Sensors : is_offline[x] => is_offline'[x]
        /\ told' = told
    BY <1>6, <2>1 DEF MarkOffline, HealthTypeOK
  <2>3. \A v \in Sweeps \ {w} : sweep[v] = <<>>
    BY <2>0, <2>1 DEF InOrder, OneRun
  <2>4. OneRun' BY <2>2, <2>3 DEF OneRun
  <2>5. ToldAreMarked'
    <3> SUFFICES ASSUME NEW x \in Sensors, told[x]
                 PROVE  is_offline'[x]
      BY <2>2 DEF ToldAreMarked
    <3>1. is_offline[x] \/ x = s
      BY <1>0, <2>0, <2>3 DEF InOrder, ToldAreMarked, BeingMarked
    <3> QED BY <2>2, <3>1
  <2>6. ASSUME NEW v \in Sweeps PROVE Untold(v)'
    <3>1. CASE v = w
      <4>1. /\ Len(Tail(sweep[w])) = Len(sweep[w]) - 1
            /\ \A k \in 1..Len(sweep[w]) - 1 : Tail(sweep[w])[k] = sweep[w][k + 1]
        BY <2>1, HeadTail
      <4>2. ASSUME NEW i \in 1..Len(sweep[w]) - 1 PROVE ~told[sweep[w][i + 1]]
        <5>1. i + 1 \in 1..Len(sweep[w]) /\ i + 1 # 1 BY <2>1
        <5>2. Untold(w) BY <2>0 DEF InOrder
        <5> QED BY <5>1, <5>2 DEF Untold
      <4>3. /\ told' = told /\ sweep'[v] = Tail(sweep[w])
            /\ Len(sweep'[v]) = Len(sweep[w]) - 1
        BY <2>2, <3>1, <4>1
      <4>4. ASSUME NEW i \in 1..Len(sweep'[v]) PROVE ~told'[sweep'[v][i]]
        BY <4>1, <4>2, <4>3
      <4> QED BY <4>4 DEF Untold
    <3>2. CASE v # w BY <2>2, <2>3, <3>2 DEF Untold
    <3> QED BY <3>1, <3>2
  <2> QED BY <2>4, <2>5, <2>6 DEF InOrder
<1>7. ASSUME NEW w \in Sweeps, SweepFails(w) PROVE InOrder'
  BY <1>7 DEF SweepFails
<1>8. CASE UNCHANGED healthVars
  BY <1>8 DEF healthVars, InOrder, OneRun, ToldAreMarked, BeingMarked, Untold
<1> QED BY <1>1, <1>2, <1>3, <1>4, <1>5, <1>6, <1>7, <1>8 DEF HealthNext, Continue
-------------------------------------------------------------------------------
(* The inductive invariant holds of every behaviour.                       *)
THEOREM HealthInvHolds == HealthSpec => []HealthInv
<1>1. HealthInv /\ [HealthNext]_healthVars => HealthInv'
  BY HealthTypeStep, OrderStep DEF HealthInv
<1> QED BY InitHealthInv, <1>1, PTL DEF HealthSpec

(* The runs' lists name sensors, each once, and a run that has pushed has  *)
(* one to mark.                                                            *)
THEOREM MarkTypesHold == HealthSpec => []HealthTypeOK
<1>1. HealthInv => HealthTypeOK BY DEF HealthInv
<1> QED BY HealthInvHolds, <1>1, PTL

(* Runs that neither overlap nor fail send one push for a silence.         *)
THEOREM OneSilenceOnePush == HealthSpec => OnePushPerSilence
<1>1. HealthInv /\ [HealthNext]_healthVars =>
        [\A w \in Sweeps : Push(w) /\ ~disorder => ~told[Head(sweep[w])]]_healthVars
  <2> SUFFICES ASSUME HealthInv, NEW w \in Sweeps, Push(w), ~disorder
               PROVE  ~told[Head(sweep[w])]
    OBVIOUS
  <2>1. sweep[w] \in Seq(Sensors) /\ sweep[w] # <<>> /\ ~pushed[w]
    BY DEF HealthInv, HealthTypeOK, Push
  <2>2. Head(sweep[w]) = sweep[w][1] /\ 1 \in 1..Len(sweep[w])
    BY <2>1, HeadTail
  <2>3. Untold(w) BY DEF HealthInv, InOrder
  <2> QED BY <2>1, <2>2, <2>3 DEF Untold
<1> QED BY HealthInvHolds, <1>1, PTL DEF HealthSpec, OnePushPerSilence

------------------------------------------------------------------------------
(* The answer to a controller.                                             *)

Under == request.at \in {"next", "devices", "answered"}
Todo == IF request.at = "answered" THEN {}
        ELSE IF request.at = "next" THEN request.todo
        ELSE request.todo \cup {request.zone}

PartsOfListed ==
  Under => /\ request.listed \subseteq Zone
           /\ Todo \subseteq request.listed
           /\ DOMAIN result = request.listed \ Todo
           /\ request.at = "devices" => request.zone \notin request.todo

Exact(d, z, q) ==
  IF deviceZone[d] # z \/ limits[d][q] = Unlimited THEN {}
  ELSE {[device |-> d, up |-> OrZero(limits[d][q].up),
         down |-> OrZero(limits[d][q].down)]}

OfDevice(d, entries) == {e \in entries : e.device = d}

(* The reading r is the latest of the zone.                                *)
IsLatest(r, z) ==
  IF r.sensor = 0
    THEN \A s \in Sensor : sensorZone[s] = z => newest[s].time = 0
    ELSE /\ sensorZone[r.sensor] = z /\ newest[r.sensor].value = r.value
         /\ \A s \in Sensor : sensorZone[s] = z =>
              newest[s].time <= newest[r.sensor].time

ReadingIn(s) == s = 0 \/ s \in Sensor

PartsAreExact ==
  Under =>
    /\ \A z \in DOMAIN result :
         /\ \A d \in Device \ dirty, q \in Quantity :
              OfDevice(d, result[z].devices[q]) = Exact(d, z, q)
         /\ ReadingIn(result[z].reading.sensor)
         /\ dirty \cap Sensor = {} => IsLatest(result[z].reading, z)
    /\ request.at = "devices" =>
         /\ ReadingIn(request.reading.sensor)
         /\ dirty \cap Sensor = {} => IsLatest(request.reading, request.zone)

TablesOK == /\ zones \subseteq Zone
            /\ sensorZone \in [Sensor -> Zone \cup {NoZone}]
            /\ deviceZone \in [Device -> Zone \cup {NoZone}]
            /\ limits \in [Device -> [Quantity -> Limits]]
            /\ newest \in [Sensor -> [time : 0..MaxWrites, value : Value \cup {0}]]
            /\ writes \in 0..MaxWrites

AnswerInv == TablesOK /\ PartsOfListed /\ PartsAreExact
(* Of numbers there is a least: < is well-founded.                         *)
LEMMA LeastNumber ==
  ASSUME NEW T \in SUBSET Nat, T # {}
  PROVE  \E x \in T : \A y \in T : x <= y
<1> DEFINE R == {p \in Nat \X Nat : p[1] < p[2]}
<1>1. IsWellFoundedOn(R, Nat)
  <2>1. R = OpToRel(<, Nat) BY DEF OpToRel
  <2> QED BY <2>1, NatLessThanWellFounded
<1> HIDE DEF R
<1>2. PICK x \in T : \A y \in T : ~(<<y, x>> \in R) BY <1>1, WFMin
<1>3. ASSUME NEW y \in T PROVE x <= y
  <2>1. ~(y < x) BY <1>2 DEF R
  <2> QED BY <2>1
<1> QED BY <1>3

(* Of bounded numbers there is a largest.                                  *)
LEMMA LargestNumber ==
  ASSUME NEW N \in Nat, NEW T \in SUBSET (0..N), T # {}
  PROVE  \E x \in T : \A y \in T : y <= x
<1> DEFINE U == {N - t : t \in T}
<1>1. U \in SUBSET Nat /\ U # {}
  <2>1. \A t \in T : t \in Int /\ 0 <= t /\ t <= N OBVIOUS
  <2>2. \A t \in T : N - t \in Nat BY <2>1
  <2>3. PICK t \in T : TRUE OBVIOUS
  <2>4. N - t \in U BY <2>3
  <2> QED BY <2>2, <2>4
<1> HIDE DEF U
<1>2. PICK u \in U : \A v \in U : u <= v BY <1>1, LeastNumber
<1>3. PICK x \in T : u = N - x BY DEF U
<1>4. ASSUME NEW y \in T PROVE y <= x
  <2>1. N - x <= N - y BY <1>2, <1>3 DEF U
  <2> QED BY <2>1
<1> QED BY <1>4
-------------------------------------------------------------------------------
LEMMA LatestIsLatest ==
  ASSUME TablesOK, NEW z \in Zone
  PROVE  ReadingIn(Latest(z).sensor) /\ IsLatest(Latest(z), z)
<1> DEFINE here == {s \in Sensor : sensorZone[s] = z /\ newest[s].time > 0}
           Newest(s) == \A t \in here : newest[t].time <= newest[s].time
           best == CHOOSE s \in here : Newest(s)
<1>0. \A s \in Sensor : newest[s].time \in 0..MaxWrites BY DEF TablesOK
<1>1. CASE here = {}
  <2>1. Latest(z) = NoReading BY <1>1 DEF Latest
  <2>2. \A s \in Sensor : sensorZone[s] = z => newest[s].time = 0
    BY <1>0, <1>1, WritesAssumption
  <2> QED BY <2>1, <2>2 DEF NoReading, IsLatest, ReadingIn
<1>2. CASE here # {}
  <2> DEFINE T == {newest[s].time : s \in here}
  <2>1. T \in SUBSET (0..MaxWrites) /\ T # {} BY <1>0, <1>2
  <2>2. PICK x \in T : \A y \in T : y <= x
    <3> HIDE DEF T
    <3> QED BY <2>1, LargestNumber, WritesAssumption
  <2>3. \E s \in here : Newest(s) BY <2>2
  <2>4. best \in here /\ Newest(best) BY <2>3
  <2>5. Latest(z) = [sensor |-> best, value |-> newest[best].value]
    BY <1>2 DEF Latest
  <2> HIDE DEF best
  <2>6. best \in Sensor /\ best # 0 /\ sensorZone[best] = z /\ newest[best].time > 0
    BY <2>4, SensorAssumption
  <2>7. ASSUME NEW s \in Sensor, sensorZone[s] = z
        PROVE  newest[s].time <= newest[best].time
    <3>1. CASE newest[s].time > 0 BY <2>4, <2>7, <3>1
    <3>2. CASE ~(newest[s].time > 0)
      BY <1>0, <2>6, <2>7, <3>2, WritesAssumption
    <3> QED BY <3>1, <3>2
  <2> QED BY <2>5, <2>6, <2>7 DEF IsLatest, ReadingIn
<1> QED BY <1>1, <1>2

(* What the SELECT of the devices lists of one device.                     *)
LEMMA ListedIsExact ==
  ASSUME NEW z, NEW q \in Quantity, NEW d \in Device
  PROVE  OfDevice(d, Listed(z, q)) = Exact(d, z, q)
BY DEF OfDevice, Listed, Exact
-------------------------------------------------------------------------------
LEMMA InitAnswerInv == AnswerInit => AnswerInv
<1> SUFFICES ASSUME AnswerInit PROVE AnswerInv OBVIOUS
<1>1. Unlimited \in Limits BY DEF Unlimited, Limits
<1>2. TablesOK BY <1>1, WritesAssumption DEF AnswerInit, TablesOK
<1>3. ~Under BY DEF AnswerInit, Idle, Under
<1> QED BY <1>2, <1>3 DEF AnswerInv, PartsOfListed, PartsAreExact

(* A write that leaves what concerns the zones' readings and the devices   *)
(* that are not dirty.                                                     *)
LEMMA WriteStep ==
  ASSUME AnswerInv, AnyWrite
  PROVE  AnswerInv'
<1>0. /\ request' = request /\ result' = result
      /\ writes' \in 0..MaxWrites /\ dirty \subseteq dirty'
  BY WritesAssumption
     DEF AnyWrite, LogReading, MoveSensor, MoveDevice, UpdateParams, AssignController,
         Wrote, AnswerInv, TablesOK
<1>1. TablesOK'
  <2>1. ASSUME NEW s \in Sensor, NEW v \in Value, LogReading(s, v) PROVE TablesOK'
    <3>1. writes + 1 \in 0..MaxWrites
      BY <2>1, WritesAssumption DEF LogReading, Wrote, AnswerInv, TablesOK
    <3> QED BY <1>0, <2>1, <3>1 DEF LogReading, AnswerInv, TablesOK
  <2>2. ASSUME NEW s \in Sensor, NEW z \in Zone \cup {NoZone}, MoveSensor(s, z)
        PROVE  TablesOK'
    BY <1>0, <2>2 DEF MoveSensor, AnswerInv, TablesOK
  <2>3. ASSUME NEW d \in Device, NEW z \in Zone \cup {NoZone}, MoveDevice(d, z)
        PROVE  TablesOK'
    BY <1>0, <2>3 DEF MoveDevice, AnswerInv, TablesOK
  <2>4. ASSUME NEW d \in Device, NEW new \in [Quantity -> Limits], UpdateParams(d, new)
        PROVE  TablesOK'
    BY <1>0, <2>4 DEF UpdateParams, AnswerInv, TablesOK
  <2>5. ASSUME NEW z \in Zone, AssignController(z) PROVE TablesOK'
    BY <1>0, <2>5 DEF AssignController, AnswerInv, TablesOK
  <2> QED BY <2>1, <2>2, <2>3, <2>4, <2>5 DEF AnyWrite
<1>2. \A d \in Device \ dirty' : deviceZone'[d] = deviceZone[d] /\ limits'[d] = limits[d]
  BY DEF AnyWrite, LogReading, MoveSensor, MoveDevice, UpdateParams, AssignController,
         Wrote, AnswerInv, TablesOK
<1>3. dirty' \cap Sensor = {} => /\ dirty \cap Sensor = {}
                                 /\ sensorZone' = sensorZone /\ newest' = newest
  BY DEF AnyWrite, LogReading, MoveSensor, MoveDevice, UpdateParams, AssignController,
         Wrote
<1>4. PartsOfListed' BY <1>0 DEF AnswerInv, PartsOfListed, Under, Todo
<1>5. PartsAreExact'
  <2>1. \A d \in Device \ dirty' : \A z, q : Exact(d, z, q)' = Exact(d, z, q)
    BY <1>2 DEF Exact
  <2>2. dirty' \cap Sensor = {} => \A r, z : IsLatest(r, z)' = IsLatest(r, z)
    BY <1>3 DEF IsLatest
  <2>3. Device \ dirty' \subseteq Device \ dirty BY <1>0
  <2>4. CASE ~Under BY <1>0, <2>4 DEF PartsAreExact, Under
  <2>5. CASE Under
    <3>1. ASSUME NEW z \in DOMAIN result, NEW d \in Device \ dirty', NEW q \in Quantity
          PROVE  OfDevice(d, result'[z].devices[q]) = Exact(d, z, q)'
      BY <1>0, <2>1, <2>3, <2>5, <3>1 DEF AnswerInv, PartsAreExact
    <3>2. ASSUME NEW z \in DOMAIN result
          PROVE  /\ ReadingIn(result'[z].reading.sensor)
                 /\ dirty' \cap Sensor = {} => IsLatest(result[z].reading, z)'
      BY <1>0, <1>3, <2>2, <2>5, <3>2 DEF AnswerInv, PartsAreExact
    <3>3. request.at = "devices" =>
            /\ ReadingIn(request'.reading.sensor)
            /\ dirty' \cap Sensor = {} => IsLatest(request.reading, request.zone)'
      BY <1>0, <1>3, <2>2, <2>5 DEF AnswerInv, PartsAreExact
    <3> QED BY <1>0, <3>1, <3>2, <3>3 DEF PartsAreExact, OfDevice, IsLatest
  <2> QED BY <2>4, <2>5
<1> QED BY <1>1, <1>4, <1>5 DEF AnswerInv

(* The part of a zone is put into the answer.                              *)
LEMMA SelectDevicesStep ==
  ASSUME AnswerInv, SelectDevices
  PROVE  AnswerInv'
<1> DEFINE z == request.zone
           part == [reading |-> request.reading,
                    devices |-> [q \in Quantity |-> Listed(z, q)]]
<1>1. /\ Under /\ Todo = request.todo \cup {z} /\ z \notin request.todo
      /\ request.listed \subseteq Zone /\ Todo \subseteq request.listed
      /\ DOMAIN result = request.listed \ Todo
  BY DEF AnswerInv, PartsOfListed, Under, Todo, SelectDevices
<1>2. /\ DOMAIN result' = DOMAIN result \cup {z}
      /\ result'[z] = part
      /\ \A y \in DOMAIN result \ {z} : result'[y] = result[y]
      /\ request'.at = "next" /\ request'.todo = request.todo
      /\ request'.listed = request.listed
      /\ UNCHANGED <<rows, writes, dirty>>
  BY DEF SelectDevices
<1>3. TablesOK' BY <1>2 DEF AnswerInv, TablesOK, rows
<1>4. PartsOfListed'
  <2>1. Todo' = request.todo /\ Under' BY <1>2 DEF Todo, Under
  <2> QED BY <1>1, <1>2, <2>1 DEF PartsOfListed
<1>5. PartsAreExact'
  <2>1. ASSUME NEW d, NEW y, NEW q PROVE Exact(d, y, q)' = Exact(d, y, q)
    BY <1>2 DEF Exact, rows
  <2>2. ASSUME NEW r, NEW y PROVE IsLatest(r, y)' = IsLatest(r, y)
    BY <1>2 DEF IsLatest, rows
  <2>3. ASSUME NEW y \in DOMAIN result'
        PROVE  /\ \A d \in Device \ dirty, q \in Quantity :
                    OfDevice(d, result'[y].devices[q]) = Exact(d, y, q)
               /\ ReadingIn(result'[y].reading.sensor)
               /\ dirty \cap Sensor = {} => IsLatest(result'[y].reading, y)
    <3>1. CASE y = z
      <4>1. result'[y].reading = request.reading
        BY <1>2, <3>1
      <4>2. \A q \in Quantity : result'[y].devices[q] = Listed(z, q) BY <1>2, <3>1
      <4>3. /\ ReadingIn(request.reading.sensor)
            /\ dirty \cap Sensor = {} => IsLatest(request.reading, z)
        BY <1>1 DEF AnswerInv, PartsAreExact, SelectDevices
      <4> QED BY <3>1, <4>1, <4>2, <4>3, ListedIsExact
    <3>2. CASE y # z
      <4>1. y \in DOMAIN result /\ result'[y] = result[y] BY <1>2, <2>3, <3>2
      <4> QED BY <1>1, <4>1 DEF AnswerInv, PartsAreExact
    <3> QED BY <3>1, <3>2
  <2>4. \A y \in DOMAIN result' :
          /\ \A d \in Device \ dirty', q \in Quantity :
               OfDevice(d, result'[y].devices[q]) = Exact(d, y, q)'
          /\ ReadingIn(result'[y].reading.sensor)
          /\ dirty' \cap Sensor = {} => IsLatest(result[y].reading, y)'
    BY <1>2, <2>1, <2>3, <2>2 DEF IsLatest, rows
  <2> QED BY <1>2, <2>4 DEF PartsAreExact
<1> QED BY <1>3, <1>4, <1>5 DEF AnswerInv

(* The other steps of a request.                                           *)
LEMMA RequestStep ==
  ASSUME AnswerInv, Announce \/ SetToken \/ RefuseController \/ SelectZones \/ SelectReading
                 \/ Answer \/ Fail \/ UNCHANGED answerVars
  PROVE  AnswerInv'
<1> USE DEF rows
<1>1. TablesOK'
  BY DEF AnswerInv, TablesOK, Announce, SetToken, RefuseController, SelectZones, SelectReading,
         Answer, Fail, answerVars
<1>2. PartsOfListed' /\ PartsAreExact'
  <2>1. CASE Announce \/ SetToken \/ UNCHANGED answerVars
    BY <2>1 DEF Announce, SetToken, answerVars, AnswerInv, PartsOfListed, PartsAreExact, Under,
                Todo, Exact, OfDevice, IsLatest
  <2>2. CASE RefuseController \/ Fail
    <3>1. ~Under' BY <2>2 DEF RefuseController, Fail, Idle, Under
    <3> QED BY <3>1 DEF PartsOfListed, PartsAreExact
  <2>3. CASE SelectZones
    <3>1. /\ request'.at = "next" /\ request'.todo = zones /\ request'.listed = zones
          /\ DOMAIN result' = {}
      BY <2>3 DEF SelectZones
    <3>2. zones \subseteq Zone BY DEF AnswerInv, TablesOK
    <3> QED BY <3>1, <3>2 DEF PartsOfListed, PartsAreExact, Under, Todo
  <2>4. CASE SelectReading
    <3>1. PICK z \in request.todo :
            request' = [at |-> "devices", todo |-> request.todo \ {z},
                        listed |-> request.listed, zone |-> z, reading |-> Latest(z)]
      BY <2>4 DEF SelectReading
    <3>2. /\ request.at = "next" /\ Under /\ Todo = request.todo
          /\ request.listed \subseteq Zone /\ request.todo \subseteq request.listed
          /\ DOMAIN result = request.listed \ Todo
      BY <2>4 DEF SelectReading, AnswerInv, PartsOfListed, Under, Todo
    <3>3. /\ request'.at = "devices" /\ request'.todo = request.todo \ {z}
          /\ request'.listed = request.listed /\ request'.zone = z
          /\ request'.reading = Latest(z)
          /\ Under'
      BY <3>1 DEF Under
    <3>4. Todo' = Todo BY <3>2, <3>3 DEF Todo
    <3>5. UNCHANGED <<rows, writes, result, dirty>> BY <2>4 DEF SelectReading
    <3>6. PartsOfListed' BY <3>2, <3>3, <3>4, <3>5 DEF PartsOfListed
    <3>7. ReadingIn(Latest(z).sensor) /\ IsLatest(Latest(z), z)
      BY <3>2, LatestIsLatest DEF AnswerInv
    <3>8. /\ ReadingIn(request'.reading.sensor)
          /\ IsLatest(request.reading, request.zone)'
      BY <3>3, <3>5, <3>7 DEF IsLatest
    <3>9. \A y \in DOMAIN result :
            /\ \A d \in Device \ dirty, q \in Quantity :
                 OfDevice(d, result[y].devices[q]) = Exact(d, y, q)
            /\ ReadingIn(result[y].reading.sensor)
            /\ dirty \cap Sensor = {} => IsLatest(result[y].reading, y)
      BY <3>2 DEF AnswerInv, PartsAreExact
    <3>10. \A y \in DOMAIN result' :
            /\ \A d \in Device \ dirty', q \in Quantity :
                 OfDevice(d, result[y].devices[q])' = Exact(d, y, q)'
            /\ ReadingIn(result[y].reading.sensor)'
            /\ dirty' \cap Sensor = {} => IsLatest(result[y].reading, y)'
      BY <3>5, <3>9 DEF OfDevice, Exact, IsLatest, ReadingIn
    <3>11. PartsAreExact' BY <3>8, <3>10 DEF PartsAreExact
    <3> QED BY <3>6, <3>11
  <2>5. CASE Answer
    <3>1. /\ request.at = "next" /\ request.todo = {}
          /\ request'.at = "answered" /\ request'.listed = request.listed
          /\ UNCHANGED <<rows, writes, result, dirty>>
      BY <2>5 DEF Answer
    <3>2. Under /\ Under' /\ Todo = {} /\ Todo' = {} BY <3>1 DEF Under, Todo
    <3>3. PartsOfListed' BY <3>1, <3>2 DEF AnswerInv, PartsOfListed
    <3>4. PartsAreExact'
      BY <3>1, <3>2 DEF AnswerInv, PartsAreExact, OfDevice, Exact, IsLatest, ReadingIn
    <3> QED BY <3>3, <3>4
  <2> QED BY <2>1, <2>2, <2>3, <2>4, <2>5
<1> QED BY <1>1, <1>2 DEF AnswerInv
-------------------------------------------------------------------------------
THEOREM AnswerInvHolds == AnswerSpec => []AnswerInv
<1>1. AnswerInv /\ [AnswerNext]_answerVars => AnswerInv'
  BY WriteStep, SelectDevicesStep, RequestStep DEF AnswerNext, Request
<1> QED BY InitAnswerInv, <1>1, PTL DEF AnswerSpec

(* What nobody touched is exact in every answer, whatever the rest did.    *)
THEOREM AnswersAreExact == AnswerSpec => []UntouchedIsExact
<1>1. AnswerInv => UntouchedIsExact
  <2> SUFFICES ASSUME AnswerInv, request.at = "answered"
               PROVE  DeviceIsExact /\ ReadingIsTheZones
    BY DEF UntouchedIsExact
  <2>1. Under /\ Todo = {} BY DEF Under, Todo
  <2>2. DOMAIN result = request.listed BY <2>1 DEF AnswerInv, PartsOfListed
  <2>3. DeviceIsExact
    BY <2>1, <2>2 DEF AnswerInv, PartsAreExact, DeviceIsExact, OfDevice, Exact
  <2>4. ReadingIsTheZones
    BY <2>1, <2>2 DEF AnswerInv, PartsAreExact, ReadingIsTheZones, IsLatest
  <2> QED BY <2>3, <2>4
<1> QED BY AnswerInvHolds, <1>1, PTL
==============================================================================
