----------------------------- MODULE ZoneAlarms -----------------------------
(***************************************************************************)
(* The alarms of one zone in the backend: checkZoneAlarms runs once per    *)
(* stored reading of a sensor of the zone, and nobody waits for it, so     *)
(* several checks of one zone may be under way.  Each reads the alarm      *)
(* state ONCE and then goes through the metrics one after the other, with  *)
(* an await (a database update or a push message) in each of them.         *)
(*                                                                         *)
(* Times are ages: the seconds since ..._alarm_since, None for NULL, and   *)
(* no more than MaxDelay, beyond which the code cannot tell them apart.    *)
(***************************************************************************)
EXTENDS Integers, Sequences

CONSTANTS Checks,       \* checks that may be under way at the same time
          Metrics,      \* <<"temp", "hum", "light">> in the order of the code
          Delay,        \* ..._alarm_delay_seconds of each metric
          MaxDelay      \* the longest delay

Metric == {Metrics[m] : m \in 1..Len(Metrics)}
None == -1

ASSUME MetricsAssumption ==
  /\ Len(Metrics) \in Nat
  /\ \A i, k \in 1..Len(Metrics) : Metrics[i] = Metrics[k] => i = k
ASSUME DelayAssumption ==
  MaxDelay \in Nat /\ Delay \in [Metric -> 0..MaxDelay]

Age == -1..MaxDelay

VARIABLES
  since,      \* Zone_alarm_states: age of ..._alarm_since
  active,     \* Zone_alarm_states: ..._alarm_active
  check,      \* what each check still has to do, <<>> for a finished one
  pushing,    \* the check is awaiting the push for its first metric
  streak,     \* ghost: age of the first of the latest readings in a row
              \* that were out of range, None after one in range
  attempted,  \* ghost: a push was attempted since the alarm was last cleared
  disorder    \* ghost: the worst so far: "overlap" once a check began during
              \* another one, else "failure" once an UPDATE failed, else
              \* "refusal" once a push was refused, else "none"

vars == <<since, active, check, pushing, streak, attempted, disorder>>

Job == [metric : Metric, broken : BOOLEAN, since : Age, active : BOOLEAN]

Init ==
  /\ since = [m \in Metric |-> None] /\ active = [m \in Metric |-> FALSE]
  /\ check = [c \in Checks |-> <<>>] /\ pushing = [c \in Checks |-> FALSE]
  /\ streak = [m \in Metric |-> None]
  /\ attempted = [m \in Metric |-> FALSE] /\ disorder = "none"

Idle == \A c \in Checks : check[c] = <<>>
-------------------------------------------------------------------------------
(* A reading was committed: SELECT the zone with its thresholds and alarm  *)
(* state.  broken says which metrics are outside their [min, max].         *)
Select(c) ==
  /\ check[c] = <<>>
  /\ \E broken \in [Metric -> BOOLEAN] :
       /\ check' = [check EXCEPT ![c] =
            [m \in 1..Len(Metrics) |->
               [metric |-> Metrics[m], broken |-> broken[Metrics[m]],
                since |-> since[Metrics[m]], active |-> active[Metrics[m]]]]]
       /\ streak' = [m \in Metric |->
            IF ~broken[m] THEN None
            ELSE IF streak[m] = None THEN 0 ELSE streak[m]]
  /\ disorder' = IF Idle THEN disorder ELSE "overlap"
  /\ UNCHANGED <<since, active, pushing, attempted>>

(* checkOneAlarm for the next metric, up to its database update.           *)
Evaluating(c) == check[c] # <<>> /\ ~pushing[c]
NextMetric(c) == check' = [check EXCEPT ![c] = Tail(@)]

(* Mutant: only ..._alarm_active is reset.                                 *)
ClearKeepsSince(c) ==
  /\ Evaluating(c)
  /\ LET j == Head(check[c]) IN
       /\ ~j.broken /\ (j.active \/ j.since # None)
       /\ active' = [active EXCEPT ![j.metric] = FALSE]
       /\ attempted' = [attempted EXCEPT ![j.metric] = FALSE]
  /\ NextMetric(c)
  /\ UNCHANGED <<since, pushing, streak, disorder>>

Clear(c) ==
  /\ Evaluating(c)
  /\ LET j == Head(check[c]) IN
       /\ ~j.broken /\ (j.active \/ j.since # None)
       /\ active' = [active EXCEPT ![j.metric] = FALSE]
       /\ since' = [since EXCEPT ![j.metric] = None]
       /\ attempted' = [attempted EXCEPT ![j.metric] = FALSE]
  /\ NextMetric(c)
  /\ UNCHANGED <<pushing, streak, disorder>>

(* Mutant: every reading out of range restarts the delay.                  *)
StartAgain(c) ==
  /\ Evaluating(c)
  /\ LET j == Head(check[c]) IN
       /\ j.broken /\ ~j.active
       /\ since' = [since EXCEPT ![j.metric] = 0]
  /\ NextMetric(c)
  /\ UNCHANGED <<active, pushing, streak, attempted, disorder>>

Start(c) ==
  /\ Evaluating(c)
  /\ LET j == Head(check[c]) IN
       /\ j.broken /\ j.since = None
       /\ since' = [since EXCEPT ![j.metric] = 0]
  /\ NextMetric(c)
  /\ UNCHANGED <<active, pushing, streak, attempted, disorder>>

(* Out of range for at least the delay, by the state this check has read.  *)
Due(j) == j.broken /\ j.since # None /\ j.since >= Delay[j.metric]

(* Mutant: without the !alreadyActive test.                                *)
RaiseAgain(c) ==
  /\ Evaluating(c)
  /\ LET j == Head(check[c]) IN
       /\ Due(j)
       /\ active' = [active EXCEPT ![j.metric] = TRUE]
  /\ pushing' = [pushing EXCEPT ![c] = TRUE]
  /\ UNCHANGED <<since, check, streak, attempted, disorder>>

(* Mutant: the UPDATE names the columns of every metric.                   *)
RaiseAll(c) ==
  /\ Evaluating(c)
  /\ Due(Head(check[c])) /\ ~Head(check[c]).active
  /\ active' = [m \in Metric |-> TRUE]
  /\ pushing' = [pushing EXCEPT ![c] = TRUE]
  /\ UNCHANGED <<since, check, streak, attempted, disorder>>

(* Raised in the database first, announced after that.                     *)
Raise(c) ==
  /\ Evaluating(c)
  /\ LET j == Head(check[c]) IN
       /\ Due(j) /\ ~j.active
       /\ active' = [active EXCEPT ![j.metric] = TRUE]
  /\ pushing' = [pushing EXCEPT ![c] = TRUE]
  /\ UNCHANGED <<since, check, streak, attempted, disorder>>

(* In range with nothing to clear, not out of range for long enough, or    *)
(* raised before.                                                          *)
Pass(c) ==
  /\ Evaluating(c)
  /\ LET j == Head(check[c]) IN
       \/ ~j.broken /\ ~j.active /\ j.since = None
       \/ j.broken /\ j.since # None /\ (j.since < Delay[j.metric] \/ j.active)
  /\ NextMetric(c)
  /\ UNCHANGED <<since, active, pushing, streak, attempted, disorder>>

Attempt(c) ==
  /\ pushing[c]
  /\ attempted' = [attempted EXCEPT ![Head(check[c]).metric] = TRUE]
  /\ pushing' = [pushing EXCEPT ![c] = FALSE]
  /\ UNCHANGED <<since, active, streak>>

PushSucceeds(c) == Attempt(c) /\ NextMetric(c) /\ UNCHANGED disorder

(* The exception ends the whole check: the other metrics are not looked at.*)
PushFails(c) ==
  /\ Attempt(c)
  /\ check' = [check EXCEPT ![c] = <<>>]
  /\ disorder' = IF disorder = "none" THEN "refusal" ELSE disorder

(* Clear, Start or Raise: what the head of the check has to update.        *)
Updates(j) ==
  \/ ~j.broken /\ (j.active \/ j.since # None)
  \/ j.broken /\ j.since = None
  \/ Due(j) /\ ~j.active

(* The UPDATE fails: nothing is written, and the exception ends the check. *)
(* A check whose SELECT fails has not begun.                               *)
QueryFails(c) ==
  /\ Evaluating(c) /\ Updates(Head(check[c]))
  /\ check' = [check EXCEPT ![c] = <<>>]
  /\ disorder' = IF disorder = "overlap" THEN disorder ELSE "failure"
  /\ UNCHANGED <<since, active, pushing, streak, attempted>>

(* A second passes, for the rows in memory as for those in the database.   *)
Older(a) == IF a = None \/ a = MaxDelay THEN a ELSE a + 1

Tick ==
  /\ since' = [m \in Metric |-> Older(since[m])]
  /\ streak' = [m \in Metric |-> Older(streak[m])]
  /\ check' = [c \in Checks |->
       [m \in DOMAIN check[c] |->
          [check[c][m] EXCEPT !.since = Older(@)]]]
  /\ UNCHANGED <<active, pushing, attempted, disorder>>
-------------------------------------------------------------------------------
Step(c) == Clear(c) \/ Start(c) \/ Raise(c) \/ Pass(c) \/ PushSucceeds(c)
             \/ PushFails(c) \/ QueryFails(c)

Next == Tick \/ \E c \in Checks : Select(c) \/ Step(c)

Spec == Init /\ [][Next]_vars

(* Time passes, and every await of a check is answered in the end, perhaps *)
(* by an exception.                                                        *)
FairSpec == Spec /\ WF_vars(Tick) /\ \A c \in Checks : WF_vars(Step(c))
-------------------------------------------------------------------------------
TypeOK ==
  /\ since \in [Metric -> Age] /\ active \in [Metric -> BOOLEAN]
  /\ check \in [Checks -> Seq(Job)] /\ pushing \in [Checks -> BOOLEAN]
  /\ \A c \in Checks : /\ Len(check[c]) <= Len(Metrics)
                       /\ pushing[c] => check[c] # <<>>
  /\ streak \in [Metric -> Age] /\ attempted \in [Metric -> BOOLEAN]
  /\ disorder \in {"none", "refusal", "failure", "overlap"}

(* As long as checks do not overlap and no UPDATE fails they keep the      *)
(* alarm state true to the readings: since is set exactly while readings   *)
(* are out of range and never tells of a longer time than that, so an      *)
(* alarm is active only if they have been out of range without a break for *)
(* the delay.  A refused push voids this for every metric but the first,   *)
(* which comes before any push of another.                                 *)
TracksReadings ==
  Idle /\ disorder \in {"none", "refusal"} =>
    \A m \in 1..Len(Metrics) : m = 1 \/ disorder = "none" =>
            LET t == Metrics[m] IN
              /\ since[t] = None <=> streak[t] = None
              /\ since[t] <= streak[t]
              /\ active[t] => streak[t] >= Delay[t]

(* As long as checks do not overlap the owner is notified at most once per *)
(* alarm, also when his push was refused.                                  *)
OnePushPerAlarm ==
  [][\A c \in Checks : pushing[c] /\ ~pushing'[c] /\ disorder # "overlap" =>
       ~attempted[Head(check[c]).metric]]_vars

(* However checks overlap and pushes fail, an alarm that stays active has  *)
(* had its push attempted, or a check is about to attempt it.              *)
RaisedIsAnnounced ==
  \A m \in Metric : active[m] =>
    \/ attempted[m]
    \/ \E c \in Checks : pushing[c] /\ Head(check[c]).metric = m

(* Readings keep coming.                                                   *)
Busy == ~Idle

(* The database goes through with every UPDATE from some time on.          *)
UpdatesWork == <>[][\A c \in Checks : ~QueryFails(c)]_vars

(* Every reading under way has metric m in range (out of range).           *)
AllReadings(m, broken) ==
  \A c \in Checks : \A i \in DOMAIN check[c] :
    check[c][i].metric = m => check[c][i].broken = broken

(* When all metrics are back in range for good, every alarm is cleared for *)
(* good, whatever overlapping checks and failed UPDATEs did before.        *)
AlarmsHeal ==
  (<>[](\A m \in Metric : AllReadings(m, FALSE)) /\ []<>Busy /\ UpdatesWork)
    => <>[](\A m \in Metric : ~active[m] /\ since[m] = None)

(* A metric that stays out of range is raised in the end and stays raised, *)
(* although refused pushes for other metrics cut checks short.             *)
LastingBreakIsRaised ==
  \A m \in Metric :
    (<>[]AllReadings(m, TRUE) /\ []<>Busy /\ UpdatesWork) => <>[]active[m]
===============================================================================
