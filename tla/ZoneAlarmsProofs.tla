--------------------------- MODULE ZoneAlarmsProofs ---------------------------
(***************************************************************************)
(* Theorems about the alarms of a zone, for any metrics and delays and any *)
(* number of checks.                                                       *)
(*                                                                         *)
(* TracksReadings speaks of the moments when no check is under way.  In    *)
(* between, the metrics that a check is past are settled, and of those     *)
(* still ahead of it the check knows what the database has: it read it,    *)
(* and as long as checks do not overlap nobody else writes it.             *)
(***************************************************************************)
EXTENDS ZoneAlarms, SequenceTheorems, TLAPS

(* How many metrics the check is past, and what it knows of the m-th.      *)
Past(c) == Len(Metrics) - Len(check[c])
Ahead(c) == Past(c) + 1 .. Len(Metrics)
JobAt(c, m) == check[c][m - Past(c)]
Pushes(c, m) == pushing[c] /\ m = Past(c) + 1

Trusted(m) == disorder # "failure" /\ (m = 1 \/ disorder = "none")

Settled(t) == /\ since[t] = None <=> streak[t] = None
              /\ since[t] <= streak[t]
              /\ active[t] => streak[t] >= Delay[t]

(* The record of the metric is what the database has; only the alarm that  *)
(* is being announced has become active since.                             *)
Knows(c, m) ==
  LET t == Metrics[m] j == JobAt(c, m)
  IN /\ j.metric = t
     /\ j.broken <=> streak[t] # None
     /\ j.since = since[t]
     /\ j.active <=> active[t] /\ ~Pushes(c, m)

(* The metric was settled before the reading that the check is about.      *)
WasSettled(c, m) ==
  LET t == Metrics[m]
  IN IF Pushes(c, m) THEN Settled(t)
     ELSE streak[t] # None => /\ since[t] <= streak[t]
                              /\ active[t] => streak[t] >= Delay[t]

Announcing(c) ==
  pushing[c] => /\ active[Head(check[c]).metric]
                /\ ~attempted[Head(check[c]).metric]

InOrder ==
  disorder # "overlap" =>
    /\ \A c, d \in Checks : check[c] # <<>> /\ check[d] # <<>> => c = d
    /\ \A c \in Checks : \A m \in Ahead(c) :
         Knows(c, m) /\ (Trusted(m) => WasSettled(c, m))
    /\ \A m \in 1..Len(Metrics) :
         Trusted(m) /\ (\A c \in Checks : m \notin Ahead(c)) =>
           Settled(Metrics[m])
    /\ \A t \in Metric : attempted[t] => active[t]
    /\ \A c \in Checks : Announcing(c)

IInv == TypeOK /\ RaisedIsAnnounced /\ InOrder
-------------------------------------------------------------------------------
LEMMA LengthIsNat == Len(Metrics) \in Nat
  BY MetricsAssumption

LEMMA HeadTail ==
  ASSUME NEW S, NEW s \in Seq(S), s # <<>>
  PROVE  /\ Head(s) = s[1] /\ Head(s) \in S /\ Len(s) \in Nat \ {0}
         /\ Tail(s) \in Seq(S)
         /\ Len(Tail(s)) = Len(s) - 1
         /\ \A k \in 1..Len(s) - 1 : Tail(s)[k] = s[k + 1]
  BY HeadTailProperties, EmptySeq

(* What is at the head of a check under way.                               *)
LEMMA AtHead ==
  ASSUME TypeOK, NEW c \in Checks, check[c] # <<>>
  PROVE  /\ Past(c) \in Nat /\ Past(c) + 1 \in Ahead(c)
         /\ Ahead(c) \subseteq 1..Len(Metrics)
         /\ Head(check[c]) = JobAt(c, Past(c) + 1)
         /\ Head(check[c]) \in Job
         /\ Tail(check[c]) \in Seq(Job)
         /\ Len(Tail(check[c])) = Len(check[c]) - 1
<1>1. check[c] \in Seq(Job) /\ Len(check[c]) <= Len(Metrics) BY DEF TypeOK
<1>2. Len(check[c]) \in Nat \ {0} BY <1>1, HeadTail
<1>3. Past(c) \in Nat /\ Past(c) + 1 \in Ahead(c)
  BY <1>1, <1>2, LengthIsNat DEF Past, Ahead
<1>4. (Past(c) + 1) - Past(c) = 1 BY <1>3
<1> QED BY <1>1, <1>3, <1>4, HeadTail DEF JobAt, Ahead

(* The check goes on to its next metric.                                   *)
LEMMA Advance ==
  ASSUME TypeOK, NEW c \in Checks, check[c] # <<>>, NextMetric(c)
  PROVE  /\ Past(c)' = Past(c) + 1
         /\ Ahead(c)' = Ahead(c) \ {Past(c) + 1}
         /\ \A m \in Ahead(c)' : JobAt(c, m)' = JobAt(c, m)
         /\ \A d \in Checks \ {c} : check'[d] = check[d]
<1>1. /\ check[c] \in Seq(Job) /\ Len(check[c]) \in Nat \ {0}
      /\ Len(check[c]) <= Len(Metrics)
  BY HeadTail DEF TypeOK
<1>2. check'[c] = Tail(check[c]) /\ \A d \in Checks \ {c} : check'[d] = check[d]
  BY DEF NextMetric, TypeOK
<1>3. Past(c)' = Past(c) + 1 /\ Past(c) \in Nat
  <2> DEFINE n == Len(check[c])
             all == Len(Metrics)
  <2>1. Past(c)' = all - (n - 1) /\ Past(c) = all - n
    BY <1>1, <1>2, HeadTail DEF Past
  <2>2. n \in Nat \ {0} /\ all \in Nat /\ n <= all BY <1>1, LengthIsNat
  <2> HIDE DEF n, all
  <2> QED BY <2>1, <2>2
<1>4. Ahead(c)' = Ahead(c) \ {Past(c) + 1}
  BY <1>3, LengthIsNat DEF Ahead
<1>5. ASSUME NEW m \in Ahead(c)' PROVE JobAt(c, m)' = JobAt(c, m)
  <2>0. m \in Past(c) + 2 .. Len(Metrics)
    BY <1>3, <1>4, LengthIsNat DEF Ahead
  <2>1. m - (Past(c) + 1) \in 1..Len(check[c]) - 1
    BY <1>1, <1>3, <2>0, LengthIsNat DEF Past
  <2>2. (m - (Past(c) + 1)) + 1 = m - Past(c)
    BY <1>3, <2>0
  <2> QED BY <1>1, <1>2, <1>3, <2>1, <2>2, HeadTail DEF JobAt
<1> QED BY <1>2, <1>3, <1>4, <1>5

(* The records of a new check are in the order of Metrics.                 *)
LEMMA Selected ==
  ASSUME NEW f \in [1..Len(Metrics) -> Job]
  PROVE  f \in Seq(Job) /\ Len(f) = Len(Metrics)
  BY MetricsAssumption

LEMMA MetricsAreMetric ==
  /\ \A m \in 1..Len(Metrics) : Metrics[m] \in Metric
  /\ \A t \in Metric : \E m \in 1..Len(Metrics) : t = Metrics[m]
  BY DEF Metric

LEMMA AgeTypes ==
  None \in Age /\ 0 \in Age /\ \A a \in Age : Older(a) \in Age
  BY DelayAssumption DEF Age, None, Older

LEMMA OlderOrder ==
  ASSUME NEW a \in Age
  PROVE  /\ Older(a) = None <=> a = None
         /\ \A b \in Age : a <= b => Older(a) <= Older(b)
         /\ \A d \in 0..MaxDelay : a >= d => Older(a) >= d
  BY DelayAssumption DEF Age, Older, None
-------------------------------------------------------------------------------
(* A second changes nothing in a check but the ages.                        *)
LEMMA TickJobs ==
  ASSUME TypeOK, Tick, NEW c \in Checks
  PROVE  /\ check'[c] \in Seq(Job) /\ Len(check'[c]) = Len(check[c])
         /\ check[c] = <<>> <=> check'[c] = <<>>
         /\ \A i \in 1..Len(check[c]) :
              /\ check[c][i] \in Job
              /\ check'[c][i] = [check[c][i] EXCEPT !.since = Older(@)]
<1>1. /\ check[c] \in Seq(Job) /\ Len(check[c]) \in Nat
      /\ DOMAIN check[c] = 1..Len(check[c])
      /\ \A i \in 1..Len(check[c]) : check[c][i] \in Job
  BY DEF TypeOK
<1>2. check'[c] = [m \in 1..Len(check[c]) |->
                     [check[c][m] EXCEPT !.since = Older(@)]]
  BY <1>1 DEF Tick
<1>3. \A m \in 1..Len(check[c]) :
        [check[c][m] EXCEPT !.since = Older(@)] \in Job
  BY <1>1, AgeTypes DEF Job
<1>4. check'[c] \in Seq(Job) /\ Len(check'[c]) = Len(check[c])
  BY <1>1, <1>2, <1>3
<1>5. check[c] = <<>> <=> check'[c] = <<>>
  BY <1>1, <1>4, EmptySeq
<1> QED BY <1>1, <1>2, <1>4, <1>5

LEMMA TypesStep == TypeOK /\ [Next]_vars => TypeOK'
<1> SUFFICES ASSUME TypeOK, [Next]_vars PROVE TypeOK'
  OBVIOUS
<1>1. ASSUME NEW c \in Checks, Select(c) PROVE TypeOK'
  <2>1. PICK broken \in [Metric -> BOOLEAN] :
          /\ check' = [check EXCEPT ![c] =
               [m \in 1..Len(Metrics) |->
                 [metric |-> Metrics[m], broken |-> broken[Metrics[m]],
                  since |-> since[Metrics[m]], active |-> active[Metrics[m]]]]]
          /\ streak' = [m \in Metric |->
               IF ~broken[m] THEN None
               ELSE IF streak[m] = None THEN 0 ELSE streak[m]]
    BY <1>1 DEF Select
  <2>2. check'[c] \in Seq(Job) /\ Len(check'[c]) = Len(Metrics)
    BY <2>1, Selected, MetricsAreMetric DEF TypeOK, Job
  <2>3. check' \in [Checks -> Seq(Job)]
    BY <2>1, <2>2 DEF TypeOK
  <2>4. streak' \in [Metric -> Age]
    BY <2>1, DelayAssumption DEF TypeOK, Age, None
  <2>5. \A d \in Checks \ {c} : check'[d] = check[d]
    BY <2>1 DEF TypeOK
  <2>6. pushing' = pushing /\ ~pushing[c]
    BY <1>1 DEF Select, TypeOK
  <2>7. \A d \in Checks : /\ Len(check'[d]) <= Len(Metrics)
                          /\ pushing'[d] => check'[d] # <<>>
    BY <2>2, <2>5, <2>6, LengthIsNat DEF TypeOK
  <2> QED BY <1>1, <2>3, <2>4, <2>7 DEF Select, TypeOK
<1>2. ASSUME NEW c \in Checks, Clear(c) \/ Start(c) \/ Pass(c)
      PROVE  TypeOK'
  <2>1. check[c] # <<>> /\ ~pushing[c] /\ NextMetric(c)
    BY <1>2 DEF Clear, Start, Pass, Evaluating
  <2>2. /\ Head(check[c]) \in Job /\ Tail(check[c]) \in Seq(Job)
        /\ Len(Tail(check[c])) = Len(check[c]) - 1
    BY <2>1, AtHead
  <2>3. /\ check' \in [Checks -> Seq(Job)]
        /\ \A d \in Checks : Len(check'[d]) <= Len(Metrics)
        /\ \A d \in Checks : pushing[d] => check'[d] # <<>>
    BY <2>1, <2>2, MetricsAssumption DEF NextMetric, TypeOK
  <2>4. Head(check[c]).metric \in Metric BY <2>2 DEF Job
  <2>5. /\ since' \in [Metric -> Age] /\ active' \in [Metric -> BOOLEAN]
        /\ attempted' \in [Metric -> BOOLEAN]
        /\ UNCHANGED <<pushing, streak, disorder>>
    <3>1. /\ since \in [Metric -> Age] /\ active \in [Metric -> BOOLEAN]
          /\ attempted \in [Metric -> BOOLEAN]
      BY DEF TypeOK
    <3>2. CASE Clear(c) BY <2>4, <3>1, <3>2, AgeTypes DEF Clear
    <3>3. CASE Start(c) BY <2>4, <3>1, <3>3, AgeTypes DEF Start
    <3>4. CASE Pass(c) BY <3>1, <3>4 DEF Pass
    <3> QED BY <1>2, <3>2, <3>3, <3>4
  <2> QED BY <2>3, <2>5 DEF TypeOK
<1>3. ASSUME NEW c \in Checks, Raise(c) PROVE TypeOK'
  <2>1. Head(check[c]) \in Job /\ check[c] # <<>>
    BY <1>3, AtHead DEF Raise, Evaluating
  <2> QED BY <1>3, <2>1 DEF Raise, TypeOK, Job
<1>4. ASSUME NEW c \in Checks, PushSucceeds(c) PROVE TypeOK'
  <2>1. check[c] # <<>> /\ pushing[c]
    BY <1>4 DEF PushSucceeds, Attempt, TypeOK
  <2>2. /\ Head(check[c]) \in Job /\ Tail(check[c]) \in Seq(Job)
        /\ Len(Tail(check[c])) = Len(check[c]) - 1
    BY <2>1, AtHead
  <2>3. /\ check' \in [Checks -> Seq(Job)]
        /\ \A d \in Checks : Len(check'[d]) <= Len(Metrics)
        /\ \A d \in Checks : pushing'[d] => check'[d] # <<>>
    BY <1>4, <2>1, <2>2, MetricsAssumption
    DEF PushSucceeds, Attempt, NextMetric, TypeOK
  <2> QED BY <1>4, <2>2, <2>3 DEF PushSucceeds, Attempt, TypeOK, Job
<1>5. ASSUME NEW c \in Checks, PushFails(c) PROVE TypeOK'
  <2>1. check[c] # <<>> /\ pushing[c]
    BY <1>5 DEF PushFails, Attempt, TypeOK
  <2>2. Head(check[c]) \in Job /\ <<>> \in Seq(Job) /\ Len(<<>>) = 0
    BY <2>1, AtHead
  <2>3. /\ check' \in [Checks -> Seq(Job)]
        /\ \A d \in Checks : Len(check'[d]) <= Len(Metrics)
        /\ \A d \in Checks : pushing'[d] => check'[d] # <<>>
    BY <1>5, <2>1, <2>2, MetricsAssumption DEF PushFails, Attempt, TypeOK
  <2> QED BY <1>5, <2>2, <2>3 DEF PushFails, Attempt, TypeOK, Job
<1>6. ASSUME NEW c \in Checks, QueryFails(c) PROVE TypeOK'
  <2>1. ~pushing[c] /\ <<>> \in Seq(Job) /\ Len(<<>>) = 0
    BY <1>6 DEF QueryFails, Evaluating
  <2>2. /\ check' \in [Checks -> Seq(Job)]
        /\ \A d \in Checks : Len(check'[d]) <= Len(Metrics)
        /\ \A d \in Checks : pushing'[d] => check'[d] # <<>>
    BY <1>6, <2>1, MetricsAssumption DEF QueryFails, TypeOK
  <2> QED BY <1>6, <2>2 DEF QueryFails, TypeOK
<1>7. ASSUME Tick PROVE TypeOK'
  <2>1. \A d \in Checks :
          /\ check'[d] \in Seq(Job) /\ Len(check'[d]) = Len(check[d])
          /\ check'[d] = <<>> => check[d] = <<>>
    BY <1>7, TickJobs
  <2>2. check' \in [Checks -> Seq(Job)]
    BY <1>7, <2>1 DEF Tick
  <2>3. since' \in [Metric -> Age] /\ streak' \in [Metric -> Age]
    BY <1>7, AgeTypes DEF Tick, TypeOK
  <2> QED BY <1>7, <2>1, <2>2, <2>3 DEF Tick, TypeOK
<1>8. CASE UNCHANGED vars
  BY <1>8 DEF vars, TypeOK
<1> QED BY <1>1, <1>2, <1>3, <1>4, <1>5, <1>6, <1>7, <1>8 DEF Next, Step
-------------------------------------------------------------------------------
LEMMA AnnouncedStep ==
  TypeOK /\ RaisedIsAnnounced /\ [Next]_vars => RaisedIsAnnounced'
<1> SUFFICES ASSUME TypeOK, RaisedIsAnnounced, [Next]_vars,
                    NEW m \in Metric, active'[m]
             PROVE  \/ attempted'[m]
                    \/ \E c \in Checks : pushing'[c] /\ Head(check'[c]).metric = m
  BY DEF RaisedIsAnnounced
<1>0. \A c \in Checks : check[c] # <<>> => Head(check[c]).metric \in Metric
  BY AtHead DEF Job
<1>1. ASSUME NEW c \in Checks,
             Select(c) \/ Clear(c) \/ Start(c) \/ Pass(c) \/ QueryFails(c)
      PROVE  active[m] /\ (attempted[m] => attempted'[m])
  BY <1>0, <1>1
  DEF Select, Clear, Start, Pass, QueryFails, Evaluating, TypeOK
<1>2. ASSUME NEW c \in Checks,
             Select(c) \/ Clear(c) \/ Start(c) \/ Pass(c) \/ QueryFails(c),
             NEW d \in Checks, pushing[d]
      PROVE  pushing'[d] /\ check'[d] = check[d]
  BY <1>2
  DEF Select, Clear, Start, Pass, QueryFails, Evaluating, NextMetric, TypeOK
<1>3. ASSUME NEW c \in Checks, Raise(c)
      PROVE  \/ attempted'[m]
             \/ \E d \in Checks : pushing'[d] /\ Head(check'[d]).metric = m
  <2>1. /\ check[c] # <<>> /\ ~pushing[c] /\ check' = check
        /\ pushing' = [pushing EXCEPT ![c] = TRUE]
        /\ active' = [active EXCEPT ![Head(check[c]).metric] = TRUE]
        /\ attempted' = attempted
    BY <1>3 DEF Raise, Evaluating
  <2>2. CASE m = Head(check[c]).metric
    BY <2>1, <2>2 DEF TypeOK
  <2>3. CASE m # Head(check[c]).metric
    <3>1. active[m] BY <1>0, <2>1, <2>3 DEF TypeOK
    <3> QED BY <2>1, <3>1 DEF RaisedIsAnnounced, TypeOK
  <2> QED BY <2>2, <2>3
<1>4. ASSUME NEW c \in Checks, PushSucceeds(c) \/ PushFails(c)
      PROVE  \/ attempted'[m]
             \/ \E d \in Checks : pushing'[d] /\ Head(check'[d]).metric = m
  <2>1. /\ check[c] # <<>> /\ active' = active
        /\ attempted' = [attempted EXCEPT ![Head(check[c]).metric] = TRUE]
        /\ \A d \in Checks \ {c} : pushing'[d] = pushing[d] /\ check'[d] = check[d]
    BY <1>4 DEF PushSucceeds, PushFails, Attempt, NextMetric, TypeOK
  <2>2. attempted[m] => attempted'[m]
    BY <1>0, <2>1 DEF TypeOK
  <2>3. m = Head(check[c]).metric => attempted'[m]
    BY <2>1 DEF TypeOK
  <2> QED BY <2>1, <2>2, <2>3 DEF RaisedIsAnnounced
<1>5. ASSUME Tick
      PROVE  \/ attempted'[m]
             \/ \E d \in Checks : pushing'[d] /\ Head(check'[d]).metric = m
  <2>1. active' = active /\ attempted' = attempted /\ pushing' = pushing
    BY <1>5 DEF Tick
  <2>2. ASSUME NEW d \in Checks, pushing[d]
        PROVE  Head(check'[d]).metric = Head(check[d]).metric
    <3>1. check[d] # <<>> /\ check[d] \in Seq(Job) BY <2>2 DEF TypeOK
    <3>2. check'[d] # <<>> /\ check'[d] \in Seq(Job)
      BY <1>5, <3>1, TickJobs
    <3>3. /\ Head(check[d]) = check[d][1] /\ 1 \in 1..Len(check[d])
          /\ Head(check'[d]) = check'[d][1]
      BY <3>1, <3>2, HeadTail
    <3>4. /\ check[d][1] \in Job
          /\ check'[d][1] = [check[d][1] EXCEPT !.since = Older(@)]
      BY <1>5, <3>3, TickJobs
    <3> QED BY <3>3, <3>4 DEF Job
  <2> QED BY <2>1, <2>2 DEF RaisedIsAnnounced
<1>6. CASE UNCHANGED vars
  BY <1>6 DEF vars, RaisedIsAnnounced
<1> QED
  BY <1>1, <1>2, <1>3, <1>4, <1>5, <1>6 DEF Next, Step, RaisedIsAnnounced
-------------------------------------------------------------------------------
(* Only the check under way, if any, has metrics ahead of it.              *)
LEMMA OnlyOneAhead ==
  ASSUME TypeOK, InOrder, disorder # "overlap",
         NEW c \in Checks, check[c] # <<>>, NEW d \in Checks \ {c}
  PROVE  check[d] = <<>> /\ Ahead(d) = {}
<1>1. check[d] = <<>> BY DEF InOrder
<1>2. Past(d) = Len(Metrics) BY <1>1, LengthIsNat DEF Past
<1> QED BY <1>1, <1>2, LengthIsNat DEF Ahead

(* The check goes on after it has settled its metric.                      *)
LEMMA MoveOn ==
  ASSUME TypeOK, TypeOK', InOrder, disorder # "overlap",
         NEW c \in Checks, check[c] # <<>>, NextMetric(c),
         NEW t, t = Head(check[c]).metric,
         disorder' = disorder, streak' = streak,
         pushing' \in [Checks -> BOOLEAN], ~pushing'[c],
         \A d \in Checks \ {c} : pushing'[d] = pushing[d],
         \A u \in Metric \ {t} : /\ since'[u] = since[u]
                                /\ active'[u] = active[u]
                                /\ attempted'[u] = attempted[u],
         Trusted(Past(c) + 1) => Settled(t)',
         attempted'[t] => active'[t]
  PROVE  InOrder'
<1> DEFINE m0 == Past(c) + 1
<1>1. /\ m0 \in Ahead(c) /\ Ahead(c) \subseteq 1..Len(Metrics)
      /\ Head(check[c]) = JobAt(c, m0) /\ Past(c) \in Nat
  BY AtHead
<1>2. t = Metrics[m0] /\ Knows(c, m0)
  BY <1>1 DEF InOrder, Knows
<1>3. \A m \in 1..Len(Metrics) \ {m0} : Metrics[m] \in Metric \ {t}
  BY <1>1, <1>2, MetricsAssumption, MetricsAreMetric
<1>4. /\ Past(c)' = m0 /\ Ahead(c)' = Ahead(c) \ {m0}
      /\ \A m \in Ahead(c)' : JobAt(c, m)' = JobAt(c, m)
      /\ \A d \in Checks \ {c} : check'[d] = check[d]
  BY Advance
<1>5. \A d \in Checks \ {c} :
        check[d] = <<>> /\ check'[d] = <<>> /\ Ahead(d) = {} /\ Ahead(d)' = {}
  BY <1>4, OnlyOneAhead DEF Ahead, Past
<1>6. \A m : Trusted(m)' <=> Trusted(m)
  BY DEF Trusted
<1>7. \A m \in 1..Len(Metrics) \ {m0} : Settled(Metrics[m])' <=> Settled(Metrics[m])
  BY <1>3 DEF Settled
<1>8. ASSUME NEW m \in Ahead(c)'
      PROVE  Knows(c, m)' /\ (Trusted(m)' => WasSettled(c, m)')
  <2>1. /\ m \in Ahead(c) /\ m \in 1..Len(Metrics) \ {m0}
        /\ JobAt(c, m)' = JobAt(c, m)
    BY <1>1, <1>4
  <2>2. Knows(c, m) /\ (Trusted(m) => WasSettled(c, m))
    BY <2>1 DEF InOrder
  <2>3. ~Pushes(c, m) /\ ~Pushes(c, m)'
    BY <2>1 DEF Pushes
  <2>4. /\ since'[Metrics[m]] = since[Metrics[m]]
        /\ active'[Metrics[m]] = active[Metrics[m]]
    BY <1>3, <2>1
  <2> QED BY <1>6, <2>1, <2>2, <2>3, <2>4 DEF Knows, WasSettled
<1>9. ASSUME NEW m \in 1..Len(Metrics), Trusted(m)',
             \A d \in Checks : m \notin Ahead(d)'
      PROVE  Settled(Metrics[m])'
  <2>1. CASE m = m0 BY <1>2, <1>6, <1>9, <2>1
  <2>2. CASE m # m0
    BY <1>4, <1>5, <1>6, <1>7, <1>9, <2>2 DEF InOrder
  <2> QED BY <2>1, <2>2
<1>10. \A u \in Metric : attempted'[u] => active'[u]
  BY DEF InOrder
<1>11. \A d \in Checks : Announcing(d)'
  BY <1>5 DEF Announcing, TypeOK
<1> QED BY <1>5, <1>8, <1>9, <1>10, <1>11 DEF InOrder
LEMMA NothingAhead ==
  ASSUME NEW c, check[c] = <<>>
  PROVE  Past(c) = Len(Metrics) /\ Ahead(c) = {}
<1>1. Past(c) = Len(Metrics) BY LengthIsNat DEF Past
<1> QED BY <1>1, LengthIsNat DEF Ahead

LEMMA SelectInOrder ==
  ASSUME TypeOK, TypeOK', InOrder, NEW c \in Checks, Select(c),
         disorder' # "overlap"
  PROVE  InOrder'
<1>1. Idle /\ disorder' = disorder /\ disorder # "overlap"
  BY DEF Select
<1>2. PICK broken \in [Metric -> BOOLEAN] :
        /\ check' = [check EXCEPT ![c] =
             [m \in 1..Len(Metrics) |->
               [metric |-> Metrics[m], broken |-> broken[Metrics[m]],
                since |-> since[Metrics[m]], active |-> active[Metrics[m]]]]]
        /\ streak' = [m \in Metric |->
             IF ~broken[m] THEN None
             ELSE IF streak[m] = None THEN 0 ELSE streak[m]]
  BY DEF Select
<1>3. since' = since /\ active' = active /\ pushing' = pushing /\ attempted' = attempted
  BY DEF Select
<1>4. \A d \in Checks : check[d] = <<>> /\ ~pushing[d]
  BY <1>1 DEF Idle, TypeOK
<1>5. \A d \in Checks : Past(d) = Len(Metrics)
  BY <1>4, LengthIsNat DEF Past
<1>6. \A d \in Checks \ {c} : check'[d] = <<>>
  BY <1>2, <1>4 DEF TypeOK
<1>7. \A d \in Checks \ {c} : Past(d)' = Len(Metrics)
  BY <1>6, LengthIsNat DEF Past
<1>8. \A d \in Checks : Ahead(d) = {} /\ (d # c => Ahead(d)' = {})
  BY <1>5, <1>7, LengthIsNat DEF Ahead
<1>9. Len(check'[c]) = Len(Metrics)
  BY <1>2, LengthIsNat DEF TypeOK
<1>10. Past(c)' = 0 /\ Ahead(c)' = 1..Len(Metrics)
  BY <1>9, LengthIsNat DEF Past, Ahead
<1>11. ASSUME NEW m \in 1..Len(Metrics)
       PROVE  Knows(c, m)' /\ (Trusted(m)' => WasSettled(c, m)')
  <2> DEFINE t == Metrics[m]
  <2>1. t \in Metric BY MetricsAreMetric
  <2>2. Trusted(m)' => Settled(t)
    BY <1>1, <1>8 DEF InOrder, Trusted
  <2>3. m - 0 = m BY LengthIsNat
  <2>4. JobAt(c, m)' = [metric |-> t, broken |-> broken[t],
                        since |-> since[t], active |-> active[t]]
    BY <1>2, <1>10, <2>3 DEF JobAt, TypeOK
  <2>5. ~Pushes(c, m)' BY <1>3, <1>4 DEF Pushes
  <2>6. /\ since[t] \in Age /\ streak[t] \in Age
        /\ streak'[t] = IF ~broken[t] THEN None
                        ELSE IF streak[t] = None THEN 0 ELSE streak[t]
    BY <1>2, <2>1 DEF TypeOK
  <2>7. broken[t] <=> streak'[t] # None
    BY <1>2, <2>1, <2>6 DEF None
  <2>8. Knows(c, m)'
    BY <1>3, <2>4, <2>5, <2>7 DEF Knows
  <2>9. Delay[t] \in 0..MaxDelay BY <2>1, DelayAssumption
  <2>10. ASSUME Trusted(m)', streak'[t] # None
         PROVE  since[t] <= streak'[t] /\ (active[t] => streak'[t] >= Delay[t])
    BY <2>2, <2>6, <2>7, <2>9, <2>10, DelayAssumption DEF Settled, None, Age
  <2> QED BY <1>3, <2>5, <2>8, <2>10 DEF WasSettled
<1>12. \A m \in 1..Len(Metrics) : m \in Ahead(c)' BY <1>10
<1>13. \A u \in Metric : attempted'[u] => active'[u]
  BY <1>1, <1>3 DEF InOrder
<1>14. \A d \in Checks : Announcing(d)'
  BY <1>3, <1>4 DEF Announcing
<1> QED
  BY <1>6, <1>8, <1>10, <1>11, <1>12, <1>13, <1>14 DEF InOrder

(* What a check knows of the metric at its head.                           *)
LEMMA HeadKnown ==
  ASSUME TypeOK, InOrder, disorder # "overlap",
         NEW c \in Checks, check[c] # <<>>, NEW j, j = Head(check[c]),
         NEW t, t = j.metric
  PROVE  /\ t \in Metric /\ j \in Job
         /\ since[t] \in Age /\ streak[t] \in Age /\ Delay[t] \in 0..MaxDelay
         /\ Past(c) + 1 \in 1..Len(Metrics) /\ t = Metrics[Past(c) + 1]
         /\ j.broken <=> streak[t] # None
         /\ j.since = since[t]
         /\ j.active <=> active[t] /\ ~pushing[c]
         /\ Trusted(Past(c) + 1) =>
              IF pushing[c] THEN Settled(t)
              ELSE streak[t] # None => /\ since[t] <= streak[t]
                                       /\ active[t] => streak[t] >= Delay[t]
<1> DEFINE m0 == Past(c) + 1
<1>1. /\ m0 \in Ahead(c) /\ m0 \in 1..Len(Metrics)
      /\ j = JobAt(c, m0) /\ j \in Job
  BY AtHead
<1>2. Knows(c, m0) /\ (Trusted(m0) => WasSettled(c, m0))
  BY <1>1 DEF InOrder
<1>3. t \in Metric BY <1>1 DEF Job
<1>4. t = Metrics[m0] BY <1>1, <1>2 DEF Knows
<1>5. Pushes(c, m0) <=> pushing[c] BY DEF Pushes
<1> QED
  BY <1>1, <1>2, <1>3, <1>4, <1>5, DelayAssumption
  DEF Knows, WasSettled, TypeOK

LEMMA ClearStartPassInOrder ==
  ASSUME TypeOK, TypeOK', InOrder, NEW c \in Checks,
         Clear(c) \/ Start(c) \/ Pass(c), disorder' # "overlap"
  PROVE  InOrder'
<1>1. /\ check[c] # <<>> /\ ~pushing[c] /\ NextMetric(c)
      /\ disorder' = disorder /\ streak' = streak /\ pushing' = pushing
  BY DEF Clear, Start, Pass, Evaluating
<1>0. PICK j, t : j = Head(check[c]) /\ t = j.metric
  OBVIOUS
<1>2. /\ t \in Metric /\ j \in Job
      /\ since[t] \in Age /\ streak[t] \in Age /\ Delay[t] \in 0..MaxDelay
      /\ j.broken <=> streak[t] # None
      /\ j.since = since[t]
      /\ j.active <=> active[t]
      /\ Trusted(Past(c) + 1) /\ streak[t] # None =>
           since[t] <= streak[t] /\ (active[t] => streak[t] >= Delay[t])
  BY <1>0, <1>1, HeadKnown
<1>3. \A u \in Metric \ {t} : /\ since'[u] = since[u]
                             /\ active'[u] = active[u]
                             /\ attempted'[u] = attempted[u]
  BY <1>0, <1>2 DEF Clear, Start, Pass, TypeOK
<1>4. attempted[t] => active[t]
  BY <1>1, <1>2 DEF InOrder
<1>5. CASE Clear(c)
  <2>1. /\ streak'[t] = None /\ since'[t] = None
        /\ active'[t] = FALSE /\ attempted'[t] = FALSE
    BY <1>0, <1>1, <1>2, <1>5 DEF Clear, TypeOK
  <2>2. Settled(t)' BY <2>1 DEF Settled, None
  <2> QED BY <1>0, <1>1, <1>3, <2>1, <2>2, MoveOn DEF TypeOK
<1>6. CASE Start(c)
  <2>1. /\ streak[t] # None /\ since'[t] = 0 /\ active' = active
        /\ attempted' = attempted
    BY <1>0, <1>1, <1>2, <1>6 DEF Start, TypeOK
  <2>2. Trusted(Past(c) + 1) => Settled(t)'
    BY <1>1, <1>2, <2>1, DelayAssumption DEF Settled, None, Age
  <2> QED BY <1>0, <1>1, <1>3, <1>4, <2>1, <2>2, MoveOn DEF TypeOK
<1>7. CASE Pass(c)
  <2>1. /\ since' = since /\ active' = active /\ attempted' = attempted
        /\ \/ streak[t] = None /\ ~active[t] /\ since[t] = None
           \/ streak[t] # None /\ since[t] # None
    BY <1>0, <1>1, <1>2, <1>7 DEF Pass
  <2>2. Trusted(Past(c) + 1) => Settled(t)'
    BY <1>1, <1>2, <2>1 DEF Settled, None
  <2> QED BY <1>0, <1>1, <1>3, <1>4, <2>1, <2>2, MoveOn DEF TypeOK
<1> QED BY <1>5, <1>6, <1>7
LEMMA PushSucceedsInOrder ==
  ASSUME TypeOK, TypeOK', InOrder, NEW c \in Checks, PushSucceeds(c),
         disorder' # "overlap"
  PROVE  InOrder'
<1>1. /\ check[c] # <<>> /\ pushing[c] /\ NextMetric(c)
      /\ disorder' = disorder /\ streak' = streak
      /\ since' = since /\ active' = active
      /\ pushing' = [pushing EXCEPT ![c] = FALSE]
      /\ attempted' = [attempted EXCEPT ![Head(check[c]).metric] = TRUE]
  BY DEF PushSucceeds, Attempt, TypeOK
<1>2. PICK j, t : j = Head(check[c]) /\ t = j.metric
  OBVIOUS
<1>3. Trusted(Past(c) + 1) => Settled(t)
  BY <1>1, <1>2, HeadKnown
<1>4. active[t]
  BY <1>1, <1>2 DEF InOrder, Announcing
<1>5. Trusted(Past(c) + 1) => Settled(t)'
  BY <1>1, <1>3 DEF Settled
<1>6. /\ \A d \in Checks \ {c} : pushing'[d] = pushing[d]
      /\ ~pushing'[c] /\ pushing' \in [Checks -> BOOLEAN]
  BY <1>1 DEF TypeOK
<1>7. /\ \A u \in Metric \ {t} : attempted'[u] = attempted[u]
      /\ since' = since /\ active' = active
  BY <1>1, <1>2 DEF TypeOK
<1>8. active'[t] BY <1>4, <1>7
<1>9. disorder # "overlap" BY <1>1
<1>10. /\ t = Head(check[c]).metric /\ check[c] # <<>> /\ NextMetric(c)
       /\ disorder' = disorder /\ streak' = streak
       /\ attempted'[t] => active'[t]
       /\ \A u \in Metric \ {t} : /\ since'[u] = since[u]
                                /\ active'[u] = active[u]
                                /\ attempted'[u] = attempted[u]
  BY <1>1, <1>2, <1>7, <1>8
<1> QED BY <1>5, <1>6, <1>9, <1>10, MoveOn

LEMMA RaiseInOrder ==
  ASSUME TypeOK, TypeOK', InOrder, NEW c \in Checks, Raise(c),
         disorder' # "overlap"
  PROVE  InOrder'
<1> DEFINE m0 == Past(c) + 1
<1>1. /\ check[c] # <<>> /\ ~pushing[c] /\ check' = check
      /\ pushing' = [pushing EXCEPT ![c] = TRUE]
      /\ active' = [active EXCEPT ![Head(check[c]).metric] = TRUE]
      /\ since' = since /\ streak' = streak /\ attempted' = attempted
      /\ disorder' = disorder
  BY DEF Raise, Evaluating
<1>2. PICK j, t : j = Head(check[c]) /\ t = j.metric
  OBVIOUS
<1>3. /\ t \in Metric /\ m0 \in 1..Len(Metrics) /\ t = Metrics[m0]
      /\ since[t] \in Age /\ streak[t] \in Age /\ Delay[t] \in 0..MaxDelay
      /\ j.broken <=> streak[t] # None
      /\ j.since = since[t]
      /\ j.active <=> active[t]
      /\ Trusted(m0) /\ streak[t] # None => since[t] <= streak[t]
  BY <1>1, <1>2, HeadKnown
<1>4. ~active[t] /\ streak[t] # None /\ since[t] # None /\ since[t] >= Delay[t]
  BY <1>1, <1>2, <1>3 DEF Raise, Due
<1>5. ~attempted[t] BY <1>1, <1>3, <1>4 DEF InOrder
<1>6. \A m \in 1..Len(Metrics) \ {m0} : Metrics[m] \in Metric \ {t}
  BY <1>3, MetricsAssumption, MetricsAreMetric
<1>7. \A u \in Metric \ {t} : active'[u] = active[u]
  BY <1>1, <1>2 DEF TypeOK
<1>8. active'[t] BY <1>1, <1>2, <1>3 DEF TypeOK
<1>9. Trusted(m0) => Settled(t)'
  BY <1>1, <1>3, <1>4, DelayAssumption DEF Settled, Age
<1>10. \A d \in Checks : Ahead(d)' = Ahead(d)
  BY <1>1 DEF Past, Ahead
<1>11a. \A d \in Checks \ {c} : Ahead(d)' = {}
  BY <1>1, <1>10, OnlyOneAhead
<1>11b. Past(c)' = Past(c)
  BY <1>1 DEF Past
<1>11. m0 \in Ahead(c) /\ Ahead(c) \subseteq 1..Len(Metrics)
       /\ JobAt(c, m0) = j
  BY <1>1, <1>2, AtHead
<1>12. ASSUME NEW m \in Ahead(c)
       PROVE  Knows(c, m)' /\ (Trusted(m)' => WasSettled(c, m)')
  <2>1. JobAt(c, m)' = JobAt(c, m) /\ (Trusted(m)' <=> Trusted(m))
    BY <1>1, <1>11b DEF JobAt, Trusted
  <2>2. Knows(c, m) /\ (Trusted(m) => WasSettled(c, m))
    BY <1>1 DEF InOrder
  <2>3. Pushes(c, m)' <=> m = m0 BY <1>1, <1>11b DEF Pushes, TypeOK
  <2>4. ~Pushes(c, m) BY <1>1 DEF Pushes
  <2>5. CASE m = m0
    BY <1>1, <1>3, <1>4, <1>8, <1>9, <1>11, <2>1, <2>2, <2>3, <2>5
    DEF Knows, WasSettled
  <2>6. CASE m # m0
    <3>1. active'[Metrics[m]] = active[Metrics[m]]
      BY <1>6, <1>7, <1>11, <2>6
    <3> QED BY <1>1, <2>1, <2>2, <2>3, <2>4, <2>6, <3>1 DEF Knows, WasSettled
  <2> QED BY <2>5, <2>6
<1>13. ASSUME NEW m \in 1..Len(Metrics), Trusted(m)',
              \A d \in Checks : m \notin Ahead(d)'
       PROVE  Settled(Metrics[m])'
  <2>1. Trusted(m) BY <1>1, <1>13 DEF Trusted
  <2>2. \A d \in Checks : m \notin Ahead(d) BY <1>10, <1>13
  <2>3. m # m0 BY <1>11, <2>2
  <2>4. Settled(Metrics[m]) BY <1>1, <2>1, <2>2 DEF InOrder
  <2> QED BY <1>1, <1>6, <1>7, <2>3, <2>4 DEF Settled
<1>14. \A u \in Metric : attempted'[u] => active'[u]
  BY <1>1, <1>7, <1>8 DEF InOrder
<1>15. \A d \in Checks : Announcing(d)'
  <2>1. Announcing(c)' BY <1>1, <1>2, <1>5, <1>8 DEF Announcing
  <2>2. \A d \in Checks \ {c} : ~pushing'[d]
    BY <1>1, OnlyOneAhead DEF TypeOK
  <2> QED BY <2>1, <2>2 DEF Announcing
<1>16. \A d, e \in Checks : check'[d] # <<>> /\ check'[e] # <<>> => d = e
  BY <1>1 DEF InOrder
<1>17. \A d \in Checks : \A m \in Ahead(d)' :
         Knows(d, m)' /\ (Trusted(m)' => WasSettled(d, m)')
  BY <1>10, <1>11a, <1>12
<1> QED BY <1>13, <1>14, <1>15, <1>16, <1>17 DEF InOrder

LEMMA PushFailsInOrder ==
  ASSUME TypeOK, TypeOK', InOrder, NEW c \in Checks, PushFails(c),
         disorder' # "overlap"
  PROVE  InOrder'
<1>1. /\ check[c] # <<>> /\ pushing[c] /\ disorder # "overlap"
      /\ check' = [check EXCEPT ![c] = <<>>]
      /\ disorder' # "none" /\ streak' = streak
      /\ disorder' # "failure" => disorder # "failure"
      /\ since' = since /\ active' = active
      /\ pushing' = [pushing EXCEPT ![c] = FALSE]
      /\ attempted' = [attempted EXCEPT ![Head(check[c]).metric] = TRUE]
  BY DEF PushFails, Attempt, TypeOK
<1>2. PICK j, t : j = Head(check[c]) /\ t = j.metric
  OBVIOUS
<1>3. /\ t \in Metric /\ t = Metrics[Past(c) + 1]
      /\ Trusted(Past(c) + 1) => Settled(t)
      /\ Past(c) \in Nat
  BY <1>1, <1>2, HeadKnown, AtHead
<1>4. active[t] BY <1>1, <1>2 DEF InOrder, Announcing
<1>5. \A d \in Checks : check'[d] = <<>>
  BY <1>1, OnlyOneAhead DEF TypeOK
<1>6. \A d \in Checks : Ahead(d)' = {}
  <2>1. \A d \in Checks : Past(d)' = Len(Metrics)
    BY <1>5, LengthIsNat DEF Past
  <2> QED BY <2>1, LengthIsNat DEF Ahead
<1>7. ASSUME NEW m \in 1..Len(Metrics), Trusted(m)'
      PROVE  Settled(Metrics[m])'
  <2>1. m = 1 /\ Trusted(m) BY <1>1, <1>7 DEF Trusted
  <2>2. CASE Past(c) = 0
    BY <1>1, <1>3, <2>1, <2>2 DEF Settled
  <2>3. CASE Past(c) # 0
    <3>1. \A d \in Checks : m \notin Ahead(d)
      BY <1>1, <1>3, <2>1, <2>3, OnlyOneAhead, LengthIsNat DEF Ahead
    <3>2. Settled(Metrics[m]) BY <1>1, <2>1, <3>1 DEF InOrder
    <3> QED BY <1>1, <3>2 DEF Settled
  <2> QED BY <2>2, <2>3
<1>8. \A u \in Metric : attempted'[u] => active'[u]
  BY <1>1, <1>2, <1>3, <1>4 DEF InOrder, TypeOK
<1>9. \A d \in Checks : Announcing(d)'
  BY <1>5 DEF Announcing, TypeOK
<1> QED BY <1>5, <1>6, <1>7, <1>8, <1>9 DEF InOrder

LEMMA QueryFailsInOrder ==
  ASSUME TypeOK, TypeOK', InOrder, NEW c \in Checks, QueryFails(c),
         disorder' # "overlap"
  PROVE  InOrder'
<1>1. /\ check[c] # <<>> /\ ~pushing[c] /\ disorder # "overlap"
      /\ check' = [check EXCEPT ![c] = <<>>]
      /\ disorder' = "failure" /\ active' = active
      /\ pushing' = pushing /\ attempted' = attempted
  BY DEF QueryFails, Evaluating
<1>2. \A d \in Checks : check'[d] = <<>>
  BY <1>1, OnlyOneAhead DEF TypeOK
<1>3. \A d \in Checks : Ahead(d)' = {}
  <2>1. \A d \in Checks : Past(d)' = Len(Metrics)
    BY <1>2, LengthIsNat DEF Past
  <2> QED BY <2>1, LengthIsNat DEF Ahead
<1>4. \A m \in 1..Len(Metrics) : ~Trusted(m)'
  BY <1>1 DEF Trusted
<1>5. \A u \in Metric : attempted'[u] => active'[u]
  BY <1>1 DEF InOrder
<1>6. \A d \in Checks : Announcing(d)'
  BY <1>2 DEF Announcing, TypeOK
<1> QED BY <1>2, <1>3, <1>4, <1>5, <1>6 DEF InOrder

LEMMA TickInOrder ==
  ASSUME TypeOK, TypeOK', InOrder, Tick, disorder' # "overlap"
  PROVE  InOrder'
<1>1. /\ active' = active /\ pushing' = pushing /\ attempted' = attempted
      /\ disorder' = disorder
      /\ \A t \in Metric : /\ since'[t] = Older(since[t])
                          /\ streak'[t] = Older(streak[t])
  BY DEF Tick
<1>2. \A t \in Metric :
        /\ since[t] \in Age /\ streak[t] \in Age /\ Delay[t] \in 0..MaxDelay
  BY DelayAssumption DEF TypeOK
<1>3. ASSUME NEW t \in Metric
      PROVE  /\ since'[t] = None <=> since[t] = None
             /\ streak'[t] = None <=> streak[t] = None
             /\ since[t] <= streak[t] => since'[t] <= streak'[t]
             /\ streak[t] >= Delay[t] => streak'[t] >= Delay[t]
  BY <1>1, <1>2, OlderOrder
<1>4. \A c \in Checks : check[c] = <<>> <=> check'[c] = <<>>
  BY TickJobs
<1>5. ASSUME NEW c \in Checks PROVE Past(c)' = Past(c)
  <2>1. Len(check'[c]) = Len(check[c]) BY TickJobs
  <2> QED BY <2>1 DEF Past
<1>6. \A c \in Checks : Ahead(c)' = Ahead(c)
  BY <1>5 DEF Ahead
<1>7. ASSUME NEW m \in 1..Len(Metrics), Settled(Metrics[m])
      PROVE  Settled(Metrics[m])'
  BY <1>1, <1>3, <1>7, MetricsAreMetric DEF Settled
<1>8. ASSUME NEW c \in Checks, NEW m \in Ahead(c)
      PROVE  Knows(c, m)' /\ (Trusted(m)' => WasSettled(c, m)')
  <2> DEFINE t == Metrics[m]
  <2>1. /\ Len(check[c]) \in Nat /\ Len(check[c]) <= Len(Metrics)
        /\ Past(c) = Len(Metrics) - Len(check[c])
    BY DEF TypeOK, Past
  <2>2. m - Past(c) \in 1..Len(check[c]) /\ m \in 1..Len(Metrics)
    BY <2>1, LengthIsNat DEF Ahead
  <2>3. /\ JobAt(c, m) \in Job
        /\ JobAt(c, m)' = [JobAt(c, m) EXCEPT !.since = Older(@)]
    BY <1>5, <2>2, TickJobs DEF JobAt
  <2>4. t \in Metric BY <2>2, MetricsAreMetric
  <2>5. Knows(c, m) /\ (Trusted(m) => WasSettled(c, m))
    BY <1>1 DEF InOrder
  <2>6. (Pushes(c, m)' <=> Pushes(c, m)) /\ (Trusted(m)' <=> Trusted(m))
    BY <1>1, <1>5 DEF Pushes, Trusted
  <2>7. Knows(c, m)'
    BY <1>1, <1>3, <2>3, <2>4, <2>5, <2>6 DEF Knows, Job
  <2>8. Trusted(m) => WasSettled(c, m)'
    BY <1>1, <1>3, <1>7, <2>2, <2>4, <2>5, <2>6 DEF WasSettled
  <2> QED BY <2>6, <2>7, <2>8
<1>9. ASSUME NEW m \in 1..Len(Metrics), Trusted(m)',
             \A c \in Checks : m \notin Ahead(c)'
      PROVE  Settled(Metrics[m])'
  BY <1>1, <1>6, <1>7, <1>9 DEF InOrder, Trusted
<1>10. ASSUME NEW c \in Checks PROVE Announcing(c)'
  <2> SUFFICES ASSUME pushing[c]
               PROVE  /\ active[Head(check'[c]).metric]
                      /\ ~attempted[Head(check'[c]).metric]
    BY <1>1 DEF Announcing
  <2>1. check[c] # <<>> /\ check'[c] # <<>> BY <1>4 DEF TypeOK
  <2>2. /\ Head(check[c]) = check[c][1] /\ 1 \in 1..Len(check[c])
        /\ Head(check'[c]) = check'[c][1]
    BY <2>1, HeadTail DEF TypeOK
  <2>3. /\ check[c][1] \in Job
        /\ check'[c][1] = [check[c][1] EXCEPT !.since = Older(@)]
    BY <2>2, TickJobs
  <2>4. Head(check'[c]).metric = Head(check[c]).metric
    BY <2>2, <2>3 DEF Job
  <2> QED BY <1>1, <2>4 DEF InOrder, Announcing
<1>11. \A u \in Metric : attempted'[u] => active'[u]
  BY <1>1 DEF InOrder
<1>12. \A c, d \in Checks : check'[c] # <<>> /\ check'[d] # <<>> => c = d
  BY <1>1, <1>4 DEF InOrder
<1> QED BY <1>6, <1>8, <1>9, <1>10, <1>11, <1>12 DEF InOrder
-------------------------------------------------------------------------------
LEMMA InitIInv == Init => IInv
<1> SUFFICES ASSUME Init PROVE IInv
  OBVIOUS
<1>1. /\ \A c \in Checks : check[c] = <<>> /\ ~pushing[c]
      /\ \A t \in Metric : since[t] = None /\ streak[t] = None
                         /\ ~active[t] /\ ~attempted[t]
  BY DEF Init
<1>2. TypeOK
  BY <1>1, AgeTypes, LengthIsNat DEF Init, TypeOK
<1>3. RaisedIsAnnounced BY <1>1 DEF RaisedIsAnnounced
<1>5. \A c \in Checks : Ahead(c) = {}
  BY <1>1, NothingAhead
<1>6. \A m \in 1..Len(Metrics) : Settled(Metrics[m])
  BY <1>1, MetricsAreMetric DEF Settled, None
<1> QED BY <1>1, <1>2, <1>3, <1>5, <1>6 DEF IInv, InOrder, Announcing

LEMMA StepKeepsIInv == IInv /\ [Next]_vars => IInv'
<1> SUFFICES ASSUME IInv, [Next]_vars PROVE IInv'
  OBVIOUS
<1>1. TypeOK /\ TypeOK' /\ InOrder BY TypesStep DEF IInv
<1>2. RaisedIsAnnounced' BY AnnouncedStep DEF IInv
<1>3. InOrder'
  <2> SUFFICES ASSUME disorder' # "overlap" PROVE InOrder'
    BY DEF InOrder
  <2>1. CASE UNCHANGED vars
    BY <1>1, <2>1
    DEF vars, InOrder, Knows, WasSettled, Settled, Trusted, Announcing,
        Pushes, JobAt, Ahead, Past
  <2>2. CASE Next
    BY <1>1, <2>2, TickInOrder, SelectInOrder, ClearStartPassInOrder,
       RaiseInOrder, PushSucceedsInOrder, PushFailsInOrder, QueryFailsInOrder
    DEF Next, Step
  <2> QED BY <2>1, <2>2
<1> QED BY <1>1, <1>2, <1>3 DEF IInv

(* The inductive invariant holds of every behaviour.                       *)
THEOREM IInvHolds == Spec => []IInv
  BY InitIInv, StepKeepsIInv, PTL DEF Spec

THEOREM TypesHold == Spec => []TypeOK
  BY IInvHolds, PTL DEF IInv

(* Whatever checks overlap and pushes fail, no alarm is active that nobody *)
(* tried or is about to try to announce (zone_alarms.js:82-105).           *)
THEOREM NoSilentAlarm == Spec => []RaisedIsAnnounced
  BY IInvHolds, PTL DEF IInv

(* Checks that do not overlap keep the alarm state true to the readings,   *)
(* for any number of metrics and any delays (zone_alarms.js:61-138).       *)
THEOREM AlarmsTrackReadings == Spec => []TracksReadings
<1>1. IInv => TracksReadings
  <2> SUFFICES ASSUME IInv, Idle, disorder \in {"none", "refusal"},
                      NEW m \in 1..Len(Metrics), Trusted(m)
               PROVE  Settled(Metrics[m])
    BY DEF TracksReadings, Settled, Trusted
  <2>1. \A c \in Checks : Ahead(c) = {}
    BY NothingAhead DEF Idle
  <2> QED BY <2>1 DEF IInv, InOrder
<1> QED BY <1>1, IInvHolds, PTL

(* Checks that do not overlap push an alarm once.                          *)
THEOREM OneAlarmOnePush == Spec => OnePushPerAlarm
<1>1. IInv => \A c \in Checks : pushing[c] /\ disorder # "overlap" =>
                 ~attempted[Head(check[c]).metric]
  BY DEF IInv, InOrder, Announcing
<1>2. IInv /\ [Next]_vars =>
        [\A c \in Checks : pushing[c] /\ ~pushing'[c] /\ disorder # "overlap" =>
           ~attempted[Head(check[c]).metric]]_vars
  BY <1>1
<1> QED BY <1>2, IInvHolds, PTL DEF Spec, OnePushPerAlarm
===============================================================================
