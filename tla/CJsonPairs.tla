------------------------------ MODULE CJsonPairs ------------------------------
(***************************************************************************)
(* Two trees of items that a caller builds with lib/cJSON.c and compares.  *)
(***************************************************************************)
EXTENDS Naturals, FiniteSets

CONSTANTS
  MaxCells,      \* items of both trees, a bound of the model
  Key, Lowered,  \* keys of members, and what tolower makes of them
  Scalar,        \* of the items that are not containers
  Null

VARIABLE trees   \* the cells in use; 1 and 2 are the roots

T == INSTANCE CJsonCompare WITH
  Item <- 1..MaxCells, None <- Null, Name <- Key, Lower <- Lowered, Value <- Scalar,
  Program <- {}, program <- Null, heap <- trees, held <- {1, 2}

pairVars == <<trees>>

NoPair == trees = <<>>

(* Roots of different kinds are told apart at once.                        *)
PairInit ==
  \E k \in {"array", "object"} : trees = [x \in {1, 2} |-> T!NewCell(k, Null)]

Holder(x) == CHOOSE p \in DOMAIN trees : x \in T!Members(trees, p)

(* Containers are filled one after the other, in the order of their cells, *)
(* a bound of the model: every tree can be built so.                       *)
Newest == Cardinality(DOMAIN trees)
MayGrow(p) == trees[p].kind # "value" /\ (Newest > 2 => Holder(Newest) <= p)

Keys(p) == {trees[y].name : y \in T!Members(trees, p)}

(* A new item in its place: in an object under a key it has not yet.       *)
AddMember(p, n, k, v) ==
  LET x == Newest + 1
  IN /\ x <= MaxCells /\ MayGrow(p)
     /\ (k = "value") = (v # Null)
     /\ (trees[p].kind = "object") = (n # Null) /\ n \notin Keys(p) \ {Null}
     /\ trees' = T!Append1(T!Extended(trees, [y \in {x} |->
                   [T!NewCell(k, v) EXCEPT !.name = n]]), p, x)

PairNext ==
  \E p \in DOMAIN trees, n \in Key \cup {Null}, k \in T!Kinds, v \in Scalar \cup {Null} :
    AddMember(p, n, k, v)
-------------------------------------------------------------------------------
PairTypeOK == DOMAIN trees = 1..Newest /\ trees \in [1..Newest -> T!Cell]

(* cJSON_Compare says of two trees whose objects have no key twice whether *)
(* they are the same value: objects without regard to the order of their   *)
(* members.                                                                *)
CompareIsEquality == trees # <<>> => T!ComparesAsEqual
==============================================================================
