----------------------------- MODULE AppSession -----------------------------
(***************************************************************************)
(* The mobile application from its first page to the list of greenhouses:  *)
(* registering and logging in (auth_page.dart, auth_service.dart), the     *)
(* home page and its dialogs (home_page.dart), logging out                 *)
(* (api_service.dart), and the session the backend keeps for it            *)
(* (express-session with its store in memory, app.js and users.js).        *)
(*                                                                         *)
(* Each await of the application is a call: it is sent, the backend        *)
(* answers it, the answer comes back.  A call may be refused or its answer *)
(* lost, in which case the backend may still carry it out although nobody  *)
(* listens any more.  The backend may restart and forget every session.    *)
(*                                                                         *)
(* The application is a stack of routes.  What comes back after an await   *)
(* replaces or pops the route that is on top by then, whichever it is: a   *)
(* home page may be left mounted below the page for logging in.            *)
(***************************************************************************)
EXTENDS Naturals, FiniteSets, Sequences

CONSTANTS
  User,         \* accounts, named by their e-mail address
  Phone,        \* installations of the application
  Greenhouse,   \* ids of greenhouses; a serial, never given twice
  Name,
  None,         \* no cookie, no user, no token
  Sessions,     \* how many session ids there are at most
  Calls,        \* how many calls are under way at most
  SessionWorld  \* who has an account, which phones allow notifications and
                \* what happens, in each of the worlds this is tried in

Budget == [logins : Nat, opens : Nat, edits : Nat, faults : Nat, restarts : Nat]
SessionWorlds ==
  [accounts : SUBSET User, granted : SUBSET Phone, budget : Budget]

VARIABLES
  accounts,     \* users with a row in Users
  token,        \* Users.fcm_token, as the phone it reaches
  session,      \* the session store: the user of each session id
  minted,       \* session ids given out so far
  house,        \* Greenhouses: owner, name, and whether the row is there
  granted,      \* phones on which notifications are allowed
  app,          \* what each application shows and keeps
  calls,        \* calls under way
  strays,       \* logins carried out when nobody listened any more
  left          \* what is left of the world's budget

vars == <<accounts, token, session, minted, house, granted, app, calls,
          strays, left>>

Sid == 1 .. Sessions
Login == {"register", "login"}
Edit == {"add", "rename", "delete"}
Row == [owner : User \cup {None}, name : Name \cup {None}, there : BOOLEAN]
Line == [id : Greenhouse, name : Name]

Call == [id : 1 .. Calls, phone : Phone,
         op : Login \cup Edit \cup {"whoami", "token", "logout"},
         user : User \cup {None}, sid : Sid \cup {None},
         step : {"sent", "checked", "done"}, ok : BOOLEAN, heard : BOOLEAN,
         flow : {"none"} \cup Login, visit : Nat,
         house : Greenhouse \cup {None}, name : Name \cup {None}]

Fetched == [step : {"none", "asked", "read"}, sid : Sid \cup {None},
            lines : SUBSET Line]

(* A home page below others.                                               *)
Home == [who : User \cup {None}, visit : Nat, edit : BOOLEAN,
         list : SUBSET Line, fetch : Fetched]

(* flow is what the page of login and registration waits for; "refused" is *)
(* a registration that ended in an exception nobody catches.  opened pages *)
(* have been opened, visit is the number of the one that is shown; over is *)
(* what lies over it: a dialog to edit greenhouses, or anything else.      *)
(* below has the home pages left underneath, buried that there was one     *)
(* since the application was started.  The page is blank when the last     *)
(* route was popped.  fetch is the future the list is built from.          *)
App == [page : {"auth", "home", "blank"}, loading : BOOLEAN,
        flow : {"none", "login", "register", "refused"},
        cookie : Sid \cup {None}, who : User \cup {None}, visit : Nat,
        edit : BOOLEAN, list : SUBSET Line, fetch : Fetched,
        opened : Nat, over : {"none", "dialog", "other"},
        below : Seq(Home), buried : BOOLEAN]

TypeOK ==
  /\ accounts \subseteq User
  /\ token \in [User -> Phone \cup {None}]
  /\ session \in [Sid -> User \cup {None}] /\ minted \in 0 .. Sessions
  /\ house \in [Greenhouse -> Row]
  /\ granted \subseteq Phone
  /\ app \in [Phone -> App] /\ calls \subseteq Call
  /\ strays \subseteq Sid \X User
  /\ left \in Budget

NoFetch == [step |-> "none", sid |-> None, lines |-> {}]

Launched(cookie, visit) ==
  [page |-> "auth", loading |-> FALSE, flow |-> "none", cookie |-> cookie,
   who |-> None, visit |-> visit, edit |-> FALSE, list |-> {},
   fetch |-> NoFetch, opened |-> visit, over |-> "none", below |-> <<>>,
   buried |-> FALSE]

InitIn(w) ==
  /\ accounts = w.accounts
  /\ token = [u \in User |-> None]
  /\ session = [s \in Sid |-> None] /\ minted = 0
  /\ house = [g \in Greenhouse |->
                [owner |-> None, name |-> None, there |-> FALSE]]
  /\ granted = w.granted
  /\ app = [p \in Phone |-> Launched(None, 0)]
  /\ calls = {} /\ strays = {}
  /\ left = w.budget

(* Nobody logs in.                                                         *)
Closed ==
  InitIn([accounts |-> {}, granted |-> {},
          budget |-> [logins |-> 0, opens |-> 0, edits |-> 0, faults |-> 0, restarts |-> 0]])

Spend(kind) ==
  /\ left[kind] > 0
  /\ left' = [left EXCEPT ![kind] = @ - 1]

----------------------------------------------------------------------------
(* Sending.                                                                *)

Unused == {n \in 1 .. Calls : \A c \in calls : c.id # n}

NewId == CHOOSE n \in Unused : TRUE

NewCall(n, a, p, op, user, g, name) ==
  [id |-> n, phone |-> p, op |-> op, user |-> user,
   sid |-> a.cookie, step |-> "sent", ok |-> FALSE, heard |-> TRUE,
   flow |-> IF op \in Login THEN op ELSE "none",
   visit |-> a.visit, house |-> g, name |-> name]

(* _refreshData of a home page, the one that is shown or one below.        *)
AskedWith(h, cookie) ==
  [h EXCEPT !.fetch = [NoFetch EXCEPT !.step = "asked", !.sid = cookie]]
Asked(a) == AskedWith(a, a.cookie)

(* The button of the form; it is hidden while a call is under way.         *)
Submit(p, op, u) ==
  /\ app[p].page = "auth" /\ ~app[p].loading /\ Unused # {}
  /\ Spend("logins")
  /\ app' = [app EXCEPT ![p].loading = TRUE, ![p].flow = op]
  /\ calls' = calls \cup {NewCall(NewId, app[p], p, op, u, None, None)}
  /\ UNCHANGED <<accounts, token, session, minted, house, granted, strays>>

(* The menu stays usable while the call to log out is under way.           *)
OnTop(p) == app[p].page = "home" /\ app[p].over = "none"

Logout(p) ==
  /\ OnTop(p) /\ Unused # {}
  /\ calls' = calls \cup {NewCall(NewId, app[p], p, "logout", app[p].who, None, None)}
  /\ UNCHANGED <<accounts, token, session, minted, house, granted, app,
                 strays, left>>

(* A dialog to add, rename or delete a greenhouse, whose buttons are there *)
(* in edit mode; or something else: a menu, a sheet, another page.         *)
Open(p, what) ==
  /\ OnTop(p) /\ what = "dialog" => app[p].edit
  /\ Spend("opens")
  /\ app' = [app EXCEPT ![p].over = what]
  /\ UNCHANGED <<accounts, token, session, minted, house, granted, calls,
                 strays>>

(* The dialogs; renaming and deleting are about a card of the list.  Only  *)
(* the question whether to delete is closed at once.                       *)
Change(p, op, g, name) ==
  /\ app[p].page = "home" /\ app[p].over = "dialog" /\ Unused # {}
  /\ IF op = "add" THEN house[g].owner = None /\ \A c \in calls : c.house # g
                   ELSE \E l \in app[p].list : l.id = g
  /\ Spend("edits")
  /\ calls' = calls \cup {NewCall(NewId, app[p], p, op, app[p].who, g, name)}
  /\ app' = IF op = "delete" THEN [app EXCEPT ![p].over = "none"] ELSE app
  /\ UNCHANGED <<accounts, token, session, minted, house, granted, strays>>

ToggleEdit(p) ==
  /\ OnTop(p)
  /\ app' = [app EXCEPT ![p].edit = ~@]
  /\ UNCHANGED <<accounts, token, session, minted, house, granted, calls,
                 strays, left>>

(* The timer of 30 seconds, which leaves the list alone in edit mode, and  *)
(* the gesture, which does not.                                            *)
Tick(p) ==
  /\ app[p].page = "home" /\ ~app[p].edit
  /\ app' = [app EXCEPT ![p] = Asked(@)]
  /\ UNCHANGED <<accounts, token, session, minted, house, granted, calls,
                 strays, left>>

Refresh(p) ==
  /\ OnTop(p) /\ app[p].edit
  /\ app' = [app EXCEPT ![p] = Asked(@)]
  /\ UNCHANGED <<accounts, token, session, minted, house, granted, calls,
                 strays, left>>

(* Navigator.pop: what lies over the page goes, or the page itself and     *)
(* with it what it waits for, and the one below is shown.                  *)
Popped(a) ==
  LET h == a.below[Len(a.below)]
  IN IF a.over # "none" THEN [a EXCEPT !.over = "none"]
     ELSE IF a.below = <<>>
     THEN [Launched(a.cookie, a.opened) EXCEPT !.page = "blank",
             !.buried = a.buried]
     ELSE [Launched(a.cookie, a.opened) EXCEPT !.page = "home", !.who = h.who,
             !.visit = h.visit, !.edit = h.edit, !.list = h.list,
             !.fetch = h.fetch, !.buried = a.buried,
             !.below = SubSeq(a.below, 1, Len(a.below) - 1)]

(* The back button, or the button that closes a dialog.  On the last page  *)
(* it leaves the application, see Relaunch.  Coming back from another page *)
(* refreshes the list.                                                     *)
GoBack(p) ==
  LET a == app[p]
  IN /\ a.over # "none" \/ a.below # <<>>
     /\ \/ app' = [app EXCEPT ![p] = Popped(a)]
        \/ a.over = "other" /\ app' = [app EXCEPT ![p] = Asked(Popped(a))]
     /\ UNCHANGED <<accounts, token, session, minted, house, granted, calls,
                    strays, left>>

----------------------------------------------------------------------------
(* The backend.                                                            *)

Holder(sid) == IF sid = None THEN None ELSE session[sid]

Answered(c, ok) ==
  (calls \ {c}) \cup
    (IF c.heard THEN {[c EXCEPT !.step = "done", !.ok = ok]} ELSE {})

(* The session of the cookie if the store has it, a new one otherwise;     *)
(* then the first SELECT.  The hash that follows is awaited.               *)
Check(c) ==
  /\ c.step = "sent" /\ c.op \in Login
  /\ (c.user \in accounts) = (c.op = "login")
  /\ \E s \in Sid :
       /\ IF Holder(c.sid) # None THEN s = c.sid /\ minted' = minted
                                  ELSE s = minted + 1 /\ minted' = s
       /\ calls' = (calls \ {c}) \cup {[c EXCEPT !.step = "checked", !.sid = s]}
  /\ UNCHANGED <<accounts, token, session, house, granted, app, strays, left>>

(* The session is written back when the answer ends, whatever became of it *)
(* meanwhile.                                                              *)
Enter(c) ==
  /\ c.step = "checked"
  /\ c.op = "register" => c.user \notin accounts
  /\ accounts' = accounts \cup {c.user}
  /\ session' = [session EXCEPT ![c.sid] = c.user]
  /\ strays' = IF c.heard THEN strays ELSE strays \cup {<<c.sid, c.user>>}
  /\ calls' = Answered(c, TRUE)
  /\ UNCHANGED <<token, minted, house, granted, app, left>>

Leave(c) ==
  /\ c.step = "sent" /\ c.op = "logout" /\ Holder(c.sid) # None
  /\ session' = [session EXCEPT ![c.sid] = None]
  /\ calls' = Answered(c, TRUE)
  /\ UNCHANGED <<accounts, token, minted, house, granted, app, strays, left>>

(* GET /users, and POST /users/fcm-token for the user of the session.      *)
Serve(c) ==
  /\ c.step = "sent" /\ c.op \in {"whoami", "token"} /\ Holder(c.sid) # None
  /\ token' = IF c.op = "token"
              THEN [token EXCEPT ![Holder(c.sid)] = c.phone] ELSE token
  /\ calls' = Answered(c, TRUE)
  /\ UNCHANGED <<accounts, session, minted, house, granted, app, strays, left>>

Mine(u, g) == house[g].there /\ house[g].owner = u

Alter(c) ==
  /\ c.step = "sent" /\ c.op \in Edit /\ Holder(c.sid) # None
  /\ c.op # "add" => Mine(Holder(c.sid), c.house)
  /\ house' = [house EXCEPT ![c.house] =
       CASE c.op = "add" -> [owner |-> Holder(c.sid), name |-> c.name,
                             there |-> TRUE]
         [] c.op = "rename" -> [@ EXCEPT !.name = c.name]
         [] c.op = "delete" -> [@ EXCEPT !.there = FALSE]]
  /\ calls' = Answered(c, TRUE)
  /\ UNCHANGED <<accounts, token, session, minted, granted, app, strays, left>>

MustRefuse(c) ==
  CASE c.step = "sent" /\ c.op \in Login ->
         (c.user \in accounts) # (c.op = "login")
    [] c.step = "checked" -> c.op = "register" /\ c.user \in accounts
    [] c.op = "add" -> Holder(c.sid) = None
    [] c.op \in {"rename", "delete"} ->
         Holder(c.sid) = None \/ ~Mine(Holder(c.sid), c.house)
    [] OTHER -> Holder(c.sid) = None

(* A 4xx; with a fault, a wrong password or a failure of the database.     *)
Refuse(c) ==
  /\ c.step # "done"
  /\ IF MustRefuse(c) THEN left' = left ELSE Spend("faults")
  /\ calls' = Answered(c, FALSE)
  /\ UNCHANGED <<accounts, token, session, minted, house, granted, app, strays>>

(* The store is in memory: a restart empties it and breaks every call.     *)
Restart ==
  /\ Spend("restarts")
  /\ session' = [s \in Sid |-> None]
  /\ calls' = {IF c.step = "done" THEN c ELSE [c EXCEPT !.step = "done"] :
                 c \in {d \in calls : d.heard}}
  /\ UNCHANGED <<accounts, token, minted, house, granted, app, strays>>

(* Mutant: the query without its condition on the owner.                    *)
OfAnyone(u) == {l \in Line : house[l.id].there /\ house[l.id].name = l.name}

Of(u) == {l \in Line : Mine(u, l.id) /\ house[l.id].name = l.name}

Reading(h) ==
  [h EXCEPT !.fetch.step = "read", !.fetch.lines = Of(Holder(h.fetch.sid))]

Read(p) ==
  /\ app[p].fetch.step = "asked"
  /\ app' = [app EXCEPT ![p] = Reading(@)]
  /\ UNCHANGED <<accounts, token, session, minted, house, granted, calls,
                 strays, left>>

----------------------------------------------------------------------------
(* What the application does with an answer.                               *)

(* A new HomePage in the place of the first page: its state starts empty   *)
(* and asks for the greenhouses.                                           *)
AtHome(a, u) ==
  Asked([Launched(a.cookie, a.opened + 1) EXCEPT !.page = "home", !.who = u,
           !.below = a.below, !.buried = a.buried])

(* The page a call came from is there.                                     *)
Waits(a, c) == a.page = "auth" /\ a.visit = c.visit
Mounted(a, c) ==
  \/ a.page = "home" /\ a.visit = c.visit
  \/ \E i \in DOMAIN a.below : a.below[i].visit = c.visit

HomeOf(a) == [who |-> a.who, visit |-> a.visit, edit |-> a.edit,
              list |-> a.list, fetch |-> a.fetch]

(* logout goes to the first page whatever the answer was, if its own home  *)
(* page is still there.  The first page takes the place of the route on    *)
(* top: of the home page, of what lies over it, or of another first page.  *)
Back(a, c) ==
  LET under == IF a.page = "home" /\ a.over # "none"
               THEN Append(a.below, HomeOf(a)) ELSE a.below
  IN IF ~Mounted(a, c) THEN a
     ELSE [Launched(a.cookie, a.opened + 1) EXCEPT !.below = under,
             !.buried = a.buried \/ under # <<>>]

(* After a change: add and rename pop the route on top, their dialog if it *)
(* is still there; then the home page refreshes itself.                    *)
Edited(a, c) ==
  LET b == IF c.op = "delete" THEN a ELSE Popped(a)
  IN IF ~Mounted(a, c) THEN a
     ELSE IF b.page = "home" /\ b.visit = c.visit THEN Asked(b)
     ELSE [b EXCEPT !.below = [i \in DOMAIN b.below |->
             IF b.below[i].visit = c.visit
             THEN AskedWith(b.below[i], b.cookie) ELSE b.below[i]]]

(* A failure while logging in is shown, one while registering is not       *)
(* caught and leaves the page loading; a failed change is not caught.      *)
(* Mutant: login without its finally.                                      *)
AfterFailureStillLoading(a, c) ==
  CASE c.op \in Edit -> a
    [] c.op = "logout" -> Back(a, c)
    [] OTHER -> [a EXCEPT !.flow = IF @ = "register" THEN "refused" ELSE @]

AfterFailure(a, c) ==
  CASE c.op \in Edit -> a
    [] c.op = "logout" -> Back(a, c)
    [] c.op \notin Edit \cup {"logout"} /\ ~Waits(a, c) -> a
    [] OTHER -> IF c.flow = "register" THEN [a EXCEPT !.flow = "refused"]
                ELSE [a EXCEPT !.loading = FALSE, !.flow = "none"]

(* The call that follows in AuthService.login, AuthService.register and    *)
(* _AuthPageState.login.                                                   *)
Following(c) ==
  CASE c.op = "register" -> {"login"}
    [] c.op = "login" -> {"whoami"}
    [] c.op = "whoami" /\ c.flow = "login" /\ c.phone \in granted -> {"token"}
    [] OTHER -> {}

(* A login goes on although its page has been popped or replaced.          *)
AfterSuccess(a, c) ==
  CASE c.op \in Edit -> Edited(a, c)
    [] c.op = "logout" -> Back([a EXCEPT !.cookie = None], c)
    [] c.op \in Login -> [a EXCEPT !.cookie = c.sid]
    [] OTHER ->
         IF ~Waits(a, c) \/ Following(c) # {} THEN a
         ELSE IF c.flow = "register" THEN [a EXCEPT !.loading = FALSE, !.flow = "none"]
         ELSE AtHome(a, c.user)

Hear(c) ==
  /\ c.step = "done"
  /\ LET p == c.phone
         a == IF c.ok THEN AfterSuccess(app[p], c) ELSE AfterFailure(app[p], c)
     IN /\ app' = [app EXCEPT ![p] = a]
        /\ calls' = (calls \ {c}) \cup
             (IF c.ok
              THEN {[c EXCEPT !.op = op, !.sid = a.cookie, !.step = "sent", !.ok = FALSE] :
                      op \in Following(c)}
              ELSE {})
  /\ UNCHANGED <<accounts, token, session, minted, house, granted, strays, left>>

(* The connection breaks.  What was sent may never arrive, or be carried   *)
(* out all the same.                                                       *)
Lose(c) ==
  /\ c.heard
  /\ Spend("faults")
  /\ app' = [app EXCEPT ![c.phone] = AfterFailure(@, c)]
  /\ \/ calls' = calls \ {c}
     \/ c.step # "done" /\ calls' = (calls \ {c}) \cup {[c EXCEPT !.heard = FALSE]}
  /\ UNCHANGED <<accounts, token, session, minted, house, granted, strays>>

(* fetchUserGreenhouses answers with an empty list when it fails.          *)
Show(p) ==
  /\ app[p].fetch.step = "read"
  /\ \/ app' = [app EXCEPT ![p].list = app[p].fetch.lines, ![p].fetch = NoFetch]
        /\ left' = left
     \/ app' = [app EXCEPT ![p].list = {}, ![p].fetch = NoFetch]
        /\ Spend("faults")
  /\ UNCHANGED <<accounts, token, session, minted, house, granted, calls, strays>>

(* The home pages that are not shown go on: their timers, their fetches.   *)
Behind(p, i) ==
  LET h == app[p].below[i]
      Turn(x) == app' = [app EXCEPT ![p].below[i] = x]
  IN /\ \/ ~h.edit /\ Turn(AskedWith(h, app[p].cookie)) /\ left' = left
        \/ h.fetch.step = "asked" /\ Turn(Reading(h)) /\ left' = left
        \/ /\ h.fetch.step = "read" /\ left' = left
           /\ Turn([h EXCEPT !.list = h.fetch.lines, !.fetch = NoFetch])
        \/ /\ h.fetch.step = "read" /\ Spend("faults")
           /\ Turn([h EXCEPT !.list = {}, !.fetch = NoFetch])
     /\ UNCHANGED <<accounts, token, session, minted, house, granted, calls, strays>>

(* The application is closed, or left by its last page, and opened again;  *)
(* the cookie is in a file.                                                *)
Relaunch(p) ==
  /\ Spend("restarts")
  /\ app' = [app EXCEPT ![p] = Launched(@.cookie, @.opened)]
  /\ calls' = {IF c.phone = p THEN [c EXCEPT !.heard = FALSE] ELSE c :
                 c \in {d \in calls : d.phone # p \/ d.step # "done"}}
  /\ UNCHANGED <<accounts, token, session, minted, house, granted, strays>>

(* After 24 hours the cookie is not sent any more.                         *)
Expire(p) ==
  /\ app[p].cookie # None
  /\ Spend("restarts")
  /\ app' = [app EXCEPT ![p].cookie = None]
  /\ UNCHANGED <<accounts, token, session, minted, house, granted, calls, strays>>

----------------------------------------------------------------------------
Backend(c) == Check(c) \/ Enter(c) \/ Leave(c) \/ Serve(c) \/ Alter(c) \/ Refuse(c)

Next ==
  \/ \E p \in Phone, u \in User, op \in Login : Submit(p, op, u)
  \/ \E p \in Phone, g \in Greenhouse, op \in Edit, n \in Name :
       Change(p, op, g, n)
  \/ \E p \in Phone, what \in {"dialog", "other"} : Open(p, what)
  \/ \E p \in Phone : \/ Logout(p) \/ ToggleEdit(p) \/ Tick(p) \/ Refresh(p)
                      \/ GoBack(p) \/ Read(p) \/ Show(p) \/ Relaunch(p) \/ Expire(p)
                      \/ \E i \in DOMAIN app[p].below : Behind(p, i)
  \/ \E c \in calls : Backend(c) \/ Hear(c) \/ Lose(c)
  \/ Restart

(* A call goes on: the backend serves or refuses it, or the answer comes.  *)
GoesOn(n) == \E c \in calls : c.id = n /\ (Backend(c) \/ Hear(c))

----------------------------------------------------------------------------
(* The page of a user belongs to that user: the session its calls run in   *)
(* is the user's or is gone, and the greenhouses it shows are the user's,  *)
(* whatever was lost, repeated or late before.  Two exceptions: a login    *)
(* nobody listened to any more was carried out in the session of the page, *)
(* or, once that cookie is gone, in one the page may have had; and since   *)
(* the application was started, something lay over a home page when the    *)
(* answer to its logout came, so that the page was left below the one for  *)
(* logging in (home_page.dart:45-49, users.js:50-90).                      *)
HomeIsTheUsers ==
  \A p \in Phone :
    LET a == app[p]
    IN a.page = "home" /\ ~a.buried =>
         /\ \/ Holder(a.cookie) \in {a.who, None}
            \/ <<a.cookie, Holder(a.cookie)>> \in strays
         /\ \A l \in a.list :
              \/ house[l.id].owner = a.who
              \/ \E s \in strays : /\ s[2] = house[l.id].owner
                                    /\ a.cookie \in {s[1], None}

(* What ScreensSettle of MobileApp is about.                             *)
Waiting(p) == app[p].loading /\ app[p].flow # "refused"
LeftAlone(p) ==
  app[p].page = "home" /\ ~app[p].edit /\ Holder(app[p].cookie) # None
ListIsTrue(p) == app[p].list = Of(Holder(app[p].cookie))
=============================================================================
