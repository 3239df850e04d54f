---------------------------- MODULE MCCJsonTree ----------------------------
EXTENDS CJsonCompare, TLC

Cells == Permutations(Item)

OneKey == "a" :> "a" @@ "A" :> "a"

(* All the operations with one key, and trees of several keys and values.  *)
TwoPrograms ==
  { [names |-> {"a"}, values |-> {"v"}, onlyBuilds |-> FALSE],
    [names |-> {"a", "A"}, values |-> {"v", "w"}, onlyBuilds |-> TRUE] }
==============================================================================
