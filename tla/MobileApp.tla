------------------------------ MODULE MobileApp ------------------------------
(***************************************************************************)
(* The two halves of the mobile application: the way to the home page with *)
(* the session behind it (AppSession), and the page of one greenhouse      *)
(* (GreenhouseMap).  The second is opened from the first and from then on  *)
(* shares only the session with it, so a behaviour is one of either part.  *)
(***************************************************************************)
EXTENDS GreenhouseMap

CONSTANTS User, Phone, Greenhouse, Name, None, Sessions, Calls, SessionWorld

VARIABLES
  part,      \* "session" or "map"; it does not change
  accounts, token, session, minted, house, granted, app, calls, strays, left

Session == INSTANCE AppSession

sessionVars == <<accounts, token, session, minted, house, granted, app, calls,
                 strays, left>>
appVars == <<part, vars, sessionVars>>

ASSUME NoneAssumption == None \notin User \cup Phone \cup Session!Sid
ASSUME SessionAssumption ==
  Sessions \in Nat /\ Calls \in Nat /\ SessionWorld \subseteq Session!SessionWorlds

AppInit ==
  \/ /\ part = "session"
     /\ \E w \in SessionWorld : Session!InitIn(w)
     /\ InitIn([tiles |-> {}, zones |-> 0, edit |-> FALSE, budget |-> [k \in Kinds |-> 0]])
  \/ /\ part = "map"
     /\ \E w \in MapWorld : InitIn(w)
     /\ Session!Closed

OnSession(A) == part = "session" /\ A /\ UNCHANGED <<part, vars>>
OnMap(A) == part = "map" /\ A /\ UNCHANGED <<part, sessionVars>>

AppNext == OnSession(Session!Next) \/ OnMap(Next)

(* The backend answers what it is asked and the timers run.  The list of   *)
(* greenhouses is shown under strong fairness: every request for it drops  *)
(* the answer to the one before, so a backend that never answers within    *)
(* the 30 seconds of the timer would leave the page empty.  The user lifts *)
(* the finger and closes a dialog sooner or later; nothing else would.     *)
(* That every call is answered, if only with an error, is assumed: the     *)
(* application sets no timeout (dio_client.dart:21).                       *)
AppFairness ==
  /\ WF_appVars(OnSession(\E n \in 1 .. Calls : Session!GoesOn(n)))
  /\ \A p \in Phone : /\ WF_appVars(OnSession(Session!Tick(p)))
                      /\ WF_appVars(OnSession(Session!Read(p)))
                      /\ SF_appVars(OnSession(Session!Show(p)))
  /\ WF_appVars(OnMap(Frame)) /\ WF_appVars(OnMap(\E f \in Free : Tick(f)))
  /\ \A f \in 1 .. Fetches : WF_appVars(OnMap(Proceeds(f)))
  /\ WF_appVars(OnMap(\/ DragEnd \/ DrawEnd
                      \/ \E t \in tasks : Pending(t) \/ Dismiss(t)))

AppSpec == AppInit /\ [][AppNext]_appVars /\ AppFairness

AppTypeOK == TypeOK /\ Session!TypeOK

(* See AppSession.                                                         *)
HomeIsTheUsers == Session!HomeIsTheUsers

(* No page waits for ever, unless a registration was refused, and what is  *)
(* left alone comes to show what the database has: a home page in a living *)
(* session its user's greenhouses, and the page of a greenhouse that stays *)
(* open its zones and tiles, unless it stopped refreshing because a sensor *)
(* is still marked as being dragged (auth_page.dart:23-62,                 *)
(* home_page.dart:24-47, greenhouse_view.dart:142-146).                    *)
LeftAlone(p) == IF part = "map" THEN Dragged = {} /\ mode.open
                                ELSE Session!LeftAlone(p)
Truthful(p) == IF part = "map" THEN MapIsTrue ELSE Session!ListIsTrue(p)

ScreensSettle ==
  \A p \in Phone : /\ []<>~Session!Waiting(p)
                   /\ <>[]LeftAlone(p) => <>[]Truthful(p)
==============================================================================
