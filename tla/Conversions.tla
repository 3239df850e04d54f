----------------------------- MODULE Conversions -----------------------------
(***************************************************************************)
(* What the program converts from one form into another, JSON texts, the   *)
(* escapes in them and the ids of nodes, and the JSON values it compares.  *)
(* A behaviour is about one of them; they do not touch each other.         *)
(***************************************************************************)
EXTENDS CJsonText, CJsonUtf16, CJsonPairs, Identity

VARIABLE subject

vars == <<subject, textVars, escapeVars, pairVars, idVars>>

Init ==
  \/ subject = "text" /\ TextInit /\ NoEscape /\ NoPair /\ NoId
  \/ subject = "escape" /\ EscapeInit /\ NoText /\ NoPair /\ NoId
  \/ subject = "pair" /\ PairInit /\ NoText /\ NoEscape /\ NoId
  \/ subject = "id" /\ IdInit /\ NoText /\ NoEscape /\ NoPair

Next ==
  /\ \/ subject = "text" /\ TextNext /\ UNCHANGED <<escapeVars, pairVars, idVars>>
     \/ subject = "escape" /\ EscapeNext /\ UNCHANGED <<textVars, pairVars, idVars>>
     \/ subject = "pair" /\ PairNext /\ UNCHANGED <<textVars, escapeVars, idVars>>
     \/ subject = "id" /\ IdNext /\ UNCHANGED <<textVars, escapeVars, pairVars>>
  /\ UNCHANGED subject

Spec == Init /\ [][Next]_vars

TypeOK ==
  /\ subject \in {"text", "escape", "pair", "id"}
  /\ TextTypeOK
  /\ subject = "escape" => EscapeTypeOK
  /\ subject = "pair" => PairTypeOK
  /\ subject = "id" => IdTypeOK
==============================================================================
