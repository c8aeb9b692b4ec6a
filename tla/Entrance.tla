---- MODULE Entrance ----
(* How a tab comes to the page it shows: the guards around the routes, each of    *)
(* which may send it elsewhere; signing in with a password, a code or Google,     *)
(* from the page that stopped a visitor; a registration that is verified; and     *)
(* signing out.  One path of a kind stands for all that are guarded alike.  What  *)
(* a page waits for is in Client, the codes are in SignIn and Registration.       *)
EXTENDS Naturals, FiniteSets

VARIABLES
  place,    \* the path
  from,     \* location.state.from
  session,  \* "restoring", "unavailable" (accountError), "none" or "in"
  roles,    \* approvedRoles
  role,     \* the workspace that is chosen
  call,     \* the sign-in under way: "idle", "waiting" for the restoration, "posted"
  origin,   \* `from' as it was when the form was submitted
  factor,   \* does the form ask for a code?
  leaving,  \* is a sign-out under way?
  moves,    \* calls of navigate that are yet to come
  due,      \* history: where the last sign-in was to lead
  hops      \* history: redirections since something happened

entranceVars == <<place, from, session, roles, role, call, origin, factor, leaving, moves, due, hops>>

Nowhere == "nowhere"

(* The routes, by their guards. *)
AnonymousPaths == {"login", "register"}
OpenPaths == {"verify-email", "courses"}
PlainPaths == {"home"}
BuyerPaths == {"cart"}
Needed == [editor |-> {"Trainer"}, published |-> {"Trainer", "Creator"}]
AdminPaths == {"admin", "operations"}
Places == AnonymousPaths \cup OpenPaths \cup PlainPaths \cup BuyerPaths \cup DOMAIN Needed \cup AdminPaths \cup {"unknown"}

RoleSets == {{"Member"}, {"Member", "Trainer"}, {"Member", "Admin"}, {"Trainer", "Admin"}}
Primary(granted) ==
  IF "Admin" \in granted THEN "Admin" ELSE IF "Trainer" \in granted THEN "Trainer"
  ELSE IF "Creator" \in granted THEN "Creator" ELSE "Member"

-----------------------------------------------------------------------------
(* The guards: where a path sends the tab, or Nowhere if it shows its page *)

MainPage(isAdmin) == IF isAdmin THEN "admin" ELSE "home"
Main == MainPage(role = "Admin")

(* Mutant: the page that stopped the visitor is forgotten. *)
IntendedPath_Forgotten(location, fallback) == fallback

IntendedPath(location, fallback) == IF location = Nowhere THEN fallback ELSE location

AnonymousOnly == IF session = "in" THEN IntendedPath(from, Main) ELSE Nowhere

CanPurchase == role # "Admin" /\ "Member" \in roles
BuyerOnly == IF CanPurchase THEN Nowhere ELSE Main

Protected(needed) ==
  IF role \in needed /\ (role \in {"Admin", "Member"} \/ role \in roles) THEN Nowhere ELSE Main

(* Nobody is sent away while it is not known who is there. *)
Workspace(inner) ==
  CASE session \in {"restoring", "unavailable"} -> Nowhere
    [] session = "none" -> "login"
    [] OTHER -> inner

SentTo ==
  CASE place = "unknown" -> "login"
    [] place \in AnonymousPaths -> AnonymousOnly
    [] place \in OpenPaths -> Nowhere
    [] place \in PlainPaths -> Workspace(Nowhere)
    [] place \in BuyerPaths -> Workspace(BuyerOnly)
    [] place \in AdminPaths -> Workspace(Protected({"Admin"}))
    [] OTHER -> Workspace(Protected(Needed[place]))

(* Whoever is stopped without a session comes to the form with the way back. *)
Redirect ==
  /\ SentTo # Nowhere
  /\ place' = SentTo /\ hops' = hops + 1
  /\ from' = IF session = "none" /\ place # "unknown" THEN place ELSE Nowhere
  /\ factor' = (factor /\ SentTo \in AnonymousPaths)
  /\ UNCHANGED <<session, roles, role, call, origin, leaving, moves, due>>

-----------------------------------------------------------------------------
(* What the visitor does, on a page that is shown *)

Quiet == SentTo = Nowhere /\ \A m \in moves : m.late

(* navigate, a link, or an address: the state of the location is gone. *)
MoveTo(p) ==
  /\ place' = p /\ from' = Nowhere /\ hops' = 0
  /\ factor' = (factor /\ p \in AnonymousPaths)

Go(p) ==
  /\ Quiet /\ MoveTo(p) /\ due' = Nowhere
  /\ UNCHANGED <<session, roles, role, call, origin, leaving, moves>>

(* The tab is loaded anew: what was under way is gone, and the session is sought. *)
ReloadTab ==
  /\ Quiet
  /\ session' = "restoring" /\ roles' = {"Member"} /\ role' = "Member"
  /\ call' = "idle" /\ origin' = Nowhere /\ factor' = FALSE /\ leaving' = FALSE /\ moves' = {}
  /\ due' = Nowhere /\ hops' = 0
  /\ UNCHANGED <<place, from>>

(* setRole *)
ChooseRole(r) ==
  /\ Quiet /\ session = "in" /\ r \in roles
  /\ role' = r /\ due' = Nowhere /\ hops' = 0
  /\ UNCHANGED <<place, from, session, roles, call, origin, factor, leaving, moves>>

(* The form, or the code it asks for.  One sign-in is under way at a time. *)
SubmitForm ==
  /\ Quiet /\ place \in AnonymousPaths /\ session # "in" /\ call = "idle"
  /\ call' = "waiting" /\ origin' = from
  /\ UNCHANGED <<place, from, session, roles, role, factor, leaving, moves, due, hops>>

RetryEntry ==
  /\ Quiet /\ session = "unavailable" /\ session' = "restoring"
  /\ UNCHANGED <<place, from, roles, role, call, origin, factor, leaving, moves, due, hops>>

(* signOut(); navigate("/login"): the form is asked for while the session lasts. *)
ClickSignOut ==
  /\ Quiet /\ session = "in" /\ place \notin AnonymousPaths
  /\ leaving' = TRUE /\ MoveTo("login") /\ due' = Nowhere
  /\ UNCHANGED <<session, roles, role, call, origin, moves>>

-----------------------------------------------------------------------------
(* What comes back *)

TakeIdentity(granted) == session' = "in" /\ roles' = granted /\ role' = Primary(granted)

(* A sign-in that was submitted meanwhile takes no notice of the restoration. *)
EntryRestored ==
  /\ session = "restoring" /\ call # "waiting"
  /\ \/ \E granted \in RoleSets : TakeIdentity(granted) /\ due' = IF place \in AnonymousPaths THEN from ELSE Nowhere
     \/ session' \in {"none", "unavailable"} /\ UNCHANGED <<roles, role, due>>
  /\ hops' = 0
  /\ UNCHANGED <<place, from, call, origin, factor, leaving, moves>>

(* beginAuthentication *)
BeginAuthentication ==
  /\ call = "waiting" /\ call' = "posted"
  /\ session' = IF session = "in" THEN "in" ELSE "none"
  /\ hops' = 0
  /\ UNCHANGED <<place, from, roles, role, origin, factor, leaving, moves, due>>

Later(p, late) == moves \cup {[to |-> p, late |-> late]}

(* A session, and then the page: Google's button moves on only if it is still     *)
(* there, the form in any case.                                                   *)
SignedIn(granted) ==
  /\ call = "posted" /\ call' = "idle"
  /\ TakeIdentity(granted) /\ due' = origin /\ hops' = 0
  /\ \/ moves' = Later(IntendedPath(origin, MainPage("Admin" \in granted)), FALSE)
     \/ ~factor /\ UNCHANGED moves /\ place \in AnonymousPaths /\ from = origin
  /\ UNCHANGED <<place, from, origin, factor, leaving>>

(* The password is right but a code is needed, or the sign-in is refused.  The    *)
(* form asks only if it is still there.                                           *)
NotSignedIn ==
  /\ call = "posted" /\ call' = "idle"
  /\ factor' \in {factor, (place \in AnonymousPaths)}
  /\ UNCHANGED <<place, from, session, roles, role, origin, leaving, moves, due, hops>>

(* "Use a different account" *)
GiveUpCode ==
  /\ Quiet /\ factor /\ call = "idle" /\ factor' = FALSE
  /\ UNCHANGED <<place, from, session, roles, role, call, origin, leaving, moves, due, hops>>

(* The address has to be verified first: of a new account, or of one that never was. *)
SentToVerify ==
  /\ call = "posted" /\ ~factor /\ call' = "idle"
  /\ MoveTo("verify-email") /\ due' = Nowhere
  /\ UNCHANGED <<session, roles, role, origin, leaving, moves>>

(* The account is there at once, but the page is left only when its data are, or  *)
(* not: until then the visitor may go elsewhere.                                  *)
Verified ==
  /\ place = "verify-email" /\ Quiet /\ call = "idle" /\ ~leaving
  /\ \/ TakeIdentity({"Member"}) /\ moves' = Later("home", TRUE)
     \/ moves' = Later("login", TRUE) /\ UNCHANGED <<session, roles, role>>
  /\ due' = Nowhere /\ hops' = 0
  /\ UNCHANGED <<place, from, call, origin, factor, leaving>>

Arrive ==
  /\ \E m \in moves : moves' = moves \ {m} /\ MoveTo(m.to) /\ due' = IF m.late THEN Nowhere ELSE due
  /\ UNCHANGED <<session, roles, role, call, origin, leaving>>

LeftTab ==
  /\ leaving /\ leaving' = FALSE
  /\ session' = "none" /\ roles' = {"Member"} /\ role' = "Member"
  /\ due' = Nowhere /\ hops' = 0
  /\ UNCHANGED <<place, from, call, origin, factor, moves>>

EntranceInit ==
  /\ place \in Places /\ from = Nowhere
  /\ session = "restoring" /\ roles = {"Member"} /\ role = "Member"
  /\ call = "idle" /\ origin = Nowhere /\ factor = FALSE /\ leaving = FALSE
  /\ moves = {} /\ due = Nowhere /\ hops = 0

EntranceNext ==
  \/ Redirect \/ ReloadTab \/ SubmitForm \/ RetryEntry \/ ClickSignOut
  \/ \E p \in Places : Go(p)
  \/ \E r \in {"Member", "Trainer", "Creator", "Admin"} : ChooseRole(r)
  \/ EntryRestored \/ BeginAuthentication \/ NotSignedIn \/ GiveUpCode \/ SentToVerify \/ Verified \/ Arrive \/ LeftTab
  \/ \E granted \in RoleSets : SignedIn(granted)

EntranceSpec == EntranceInit /\ [][EntranceNext]_entranceVars

-----------------------------------------------------------------------------
TabSettled == SentTo = Nowhere /\ moves = {}

(* Where an account may be, with the workspace it has chosen. *)
Permitted ==
  OpenPaths \cup PlainPaths
    \cup (IF role = "Admin" THEN AdminPaths ELSE IF "Member" \in roles THEN BuyerPaths ELSE {})
    \cup {p \in DOMAIN Needed : role \in Needed[p]}

(* The guards never send a tab in circles, and it comes to rest on a page that    *)
(* its session may have.  A sign-in leads to the page that stopped the visitor,   *)
(* or to the main page of one who may not have it, whichever of the guard and the *)
(* form moves first (App.jsx:55-106, AuthPages.jsx:55-112,                        *)
(* frontendState.test.js:4-7).                                                    *)
EntranceLeads ==
  /\ hops <= 2
  /\ TabSettled /\ session = "none" => place \in AnonymousPaths \cup OpenPaths
  /\ TabSettled /\ session = "in" =>
       /\ place \in Permitted
       /\ due # Nowhere => place = IF due \in Permitted THEN due ELSE Main
====
