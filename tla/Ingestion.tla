------------------------------ MODULE Ingestion ------------------------------
(***************************************************************************)
(* POST /htl-logs: what a controller reports of a node is written in one   *)
(* transaction, together with the controller and the node if a SELECT      *)
(* found none.  The http task of a controller waits for each answer, so a  *)
(* controller has one post under way at a time; but a node is heard by     *)
(* every gateway in range, so two controllers may register it at once.     *)
(*                                                                         *)
(* The database is PostgreSQL at READ COMMITTED: a SELECT sees committed   *)
(* rows and those of its own transaction; an INSERT of a key that another  *)
(* transaction has inserted waits for that one to end, and fails if it was *)
(* committed.  Ids of nodes are keys.  Whether device_id is one the        *)
(* repository does not say, so it is not one here.                         *)
(***************************************************************************)
EXTENDS Naturals, Nodes

CONSTANTS Board,
          MaxPosts   \* posts a board makes, a bound of the model

ASSUME NodesAssumption == Sensor \cap Device = {}
ASSUME BoardAssumption == "unregistered" \notin Board
ASSUME PostsAssumption == MaxPosts \in Nat

Node == Sensor \cup Device

VARIABLES
  rowsOf,     \* how many rows of Greenhouse_controllers have the device_id
  owner,      \* id_greenhouse_controller of the node's row
  readings,   \* how many rows of htl_logs the sensor has
  offline,    \* sensors with is_offline
  post,       \* the post each board has under way
  posts       \* posts made so far

vars == <<rowsOf, owner, readings, offline, post, posts>>
tables == <<rowsOf, owner, readings, offline>>

None == [at |-> "none"]

(* complete: the body has temperature, humidity and light.  newBoard,      *)
(* newNode: the transaction has inserted the row.                          *)
Post == [at : {"board", "addBoard", "body", "node", "addNode", "write"},
         node : Node, complete : BOOLEAN,
         newBoard : BOOLEAN, newNode : BOOLEAN]

Unregistered == "unregistered"

Init ==
  /\ rowsOf = [b \in Board |-> 0]
  /\ owner = [n \in Node |-> Unregistered]
  /\ readings = [s \in Sensor |-> 0] /\ offline = {}
  /\ post = [b \in Board |-> None] /\ posts = [b \in Board |-> 0]
------------------------------------------------------------------------------
Next1(b, p) == post' = [post EXCEPT ![b] = p]
Goto(b, l) == post' = [post EXCEPT ![b].at = l]

(* BEGIN.                                                                  *)
Receive(b) ==
  /\ post[b] = None /\ posts[b] < MaxPosts
  /\ \E n \in Node, ok \in BOOLEAN :
       Next1(b, [at |-> "board", node |-> n, complete |-> ok,
                 newBoard |-> FALSE, newNode |-> FALSE])
  /\ posts' = [posts EXCEPT ![b] = @ + 1]
  /\ UNCHANGED tables

SelectBoard(b) ==
  /\ post[b].at = "board"
  /\ Goto(b, IF rowsOf[b] = 0 THEN "addBoard" ELSE "body")
  /\ UNCHANGED <<tables, posts>>

InsertBoard(b) ==
  /\ post[b].at = "addBoard"
  /\ post' = [post EXCEPT ![b].at = "body", ![b].newBoard = TRUE]
  /\ UNCHANGED <<tables, posts>>

(* Mutant: the early return commits.                                       *)
RefuseKept(b) ==
  /\ post[b].at = "body"
  /\ post[b].node \in Sensor /\ ~post[b].complete
  /\ Next1(b, None)
  /\ rowsOf' = [rowsOf EXCEPT ![b] = @ + IF post[b].newBoard THEN 1 ELSE 0]
  /\ UNCHANGED <<owner, readings, offline, posts>>

(* ROLLBACK: a sensor without its values.                                  *)
Refuse(b) ==
  /\ post[b].at = "body"
  /\ post[b].node \in Sensor /\ ~post[b].complete
  /\ Next1(b, None)
  /\ UNCHANGED <<tables, posts>>

Accept(b) ==
  /\ post[b].at = "body"
  /\ post[b].node \in Device \/ post[b].complete
  /\ Goto(b, "node")
  /\ UNCHANGED <<tables, posts>>

SelectNode(b) ==
  /\ post[b].at = "node"
  /\ Goto(b, IF owner[post[b].node] = Unregistered THEN "addNode"
             ELSE "write")
  /\ UNCHANGED <<tables, posts>>

(* Another transaction has inserted the node and not ended.                *)
Locked(b) ==
  \E c \in Board \ {b} :
    /\ post[c] # None
    /\ post[c].newNode /\ post[c].node = post[b].node

InsertNode(b) ==
  /\ post[b].at = "addNode"
  /\ ~Locked(b) /\ owner[post[b].node] = Unregistered
  /\ post' = [post EXCEPT ![b].at = "write", ![b].newNode = TRUE]
  /\ UNCHANGED <<tables, posts>>

(* Mutant: the catch neither rolls back nor answers.                       *)
InsertHangs(b) ==
  /\ post[b].at = "addNode"
  /\ ~Locked(b) /\ owner[post[b].node] # Unregistered
  /\ UNCHANGED vars

(* Duplicate key: ROLLBACK and 500.                                        *)
InsertFails(b) ==
  /\ post[b].at = "addNode"
  /\ ~Locked(b) /\ owner[post[b].node] # Unregistered
  /\ Next1(b, None)
  /\ UNCHANGED <<tables, posts>>

(* Mutant: the row of the node is taken over by the last to report it.     *)
WriteOver(b) ==
  /\ post[b].at = "write"
  /\ LET n == post[b].node add == IF n \in Sensor THEN {n} ELSE {} IN
       /\ rowsOf' = [rowsOf EXCEPT ![b] = @ + IF post[b].newBoard THEN 1 ELSE 0]
       /\ owner' = [owner EXCEPT ![n] = b]
       /\ readings' = [s \in Sensor |->
                         IF s \in add THEN readings[s] + 1 ELSE readings[s]]
       /\ offline' = offline \ add
  /\ Next1(b, None)
  /\ UNCHANGED posts

(* INSERT INTO htl_logs, is_offline = FALSE, COMMIT and the answer.        *)
Write(b) ==
  /\ post[b].at = "write"
  /\ LET n == post[b].node add == IF n \in Sensor THEN {n} ELSE {} IN
       /\ rowsOf' = [rowsOf EXCEPT ![b] = @ + IF post[b].newBoard THEN 1 ELSE 0]
       /\ owner' = [owner EXCEPT ![n] = IF post[b].newNode THEN b ELSE @]
       /\ readings' = [s \in Sensor |->
                         IF s \in add THEN readings[s] + 1 ELSE readings[s]]
       /\ offline' = offline \ add
  /\ Next1(b, None)
  /\ UNCHANGED posts

(* The connection is lost, or the server stops: the database rolls back.   *)
Break(b) ==
  /\ post[b] # None
  /\ Next1(b, None)
  /\ UNCHANGED <<tables, posts>>

(* checkSensorsHealth, between any two statements.                         *)
GoOffline(s) ==
  /\ owner[s] # Unregistered
  /\ offline' = offline \cup {s}
  /\ UNCHANGED <<rowsOf, owner, readings, post, posts>>
------------------------------------------------------------------------------
Step(b) ==
  \/ SelectBoard(b) \/ InsertBoard(b) \/ Refuse(b) \/ Accept(b)
  \/ SelectNode(b) \/ InsertNode(b) \/ InsertFails(b) \/ Write(b)

Next == \/ \E b \in Board : Receive(b) \/ Step(b) \/ Break(b)
        \/ \E s \in Sensor : GoOffline(s)

Spec == Init /\ [][Next]_vars

(* The database answers every statement that waits for nobody.             *)
FairSpec == Spec /\ \A b \in Board : WF_vars(Step(b))
------------------------------------------------------------------------------
TypeOK ==
  /\ rowsOf \in [Board -> Nat]
  /\ owner \in [Node -> Board \cup {Unregistered}]
  /\ readings \in [Sensor -> Nat]
  /\ offline \subseteq Sensor
  /\ post \in [Board -> Post \cup {None}]
  /\ posts \in [Board -> 0..MaxPosts]

(* Nothing of a refused, failed or broken post is kept: a controller is in *)
(* the database only when a node is, a node names a controller that is     *)
(* there, and only a sensor that is there has readings.  And without a key *)
(* on device_id a controller still has at most one row, because it waits   *)
(* for its answers.                                                        *)
AllOrNothing ==
  /\ \A b \in Board : rowsOf[b] <= 1
  /\ \A n \in Node : owner[n] # Unregistered => rowsOf[owner[n]] > 0
  /\ \A s \in Sensor : readings[s] > 0 => owner[s] # Unregistered
  /\ \A b \in Board : rowsOf[b] > 0 => \E n \in Node : owner[n] # Unregistered

(* A node stays with the controller that registered it first, also when    *)
(* two of them heard it at the same time.                                  *)
FirstComeFirstServed ==
  [][\A n \in Node : owner[n] # Unregistered => owner'[n] = owner[n]]_vars

(* No post waits for ever for the locks of the others.                     *)
EveryPostEnds == \A b \in Board : (post[b] # None) ~> (post[b] = None)
==============================================================================
