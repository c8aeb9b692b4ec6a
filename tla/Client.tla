------------------------------- MODULE Client -------------------------------
(***************************************************************************)
(* One browser tab: the API client (src/api/client.js) and the account     *)
(* state of src/context/PlatformContext.jsx.  Requests, the rotation of    *)
(* an expired access token, the restoration of a session at start-up,      *)
(* sign-in, sign-out and checkout are all awaited calls: while one is out, *)
(* another may change the account the page belongs to.  Other tabs of the  *)
(* browser share its cookie.                                               *)
(*                                                                         *)
(* The code numbers its sessions and requests (sessionGeneration,          *)
(* sessionRevision, ordersRequestRevision, datasetRequests,                *)
(* authRequestRevision) and compares the number a call started with to     *)
(* the current one.  Here a call carries the set `moved` of the numbers    *)
(* that have been increased since it started: the comparison fails exactly *)
(* for those.  "token" stands for config._sentAccessToken === accessToken. *)
(*                                                                         *)
(* Assumed: a rotation posted before a sign-in or sign-out is handled, and *)
(* its cookie stored, before theirs; the answer may be read at any time.   *)
(* Sign-ins, verifications and sign-outs are submitted one after another;  *)
(* what they ask for after their answer overlaps with the next.            *)
(***************************************************************************)
EXTENDS Naturals, FiniteSets

CONSTANTS Accounts,     \* the accounts that sign in on this tab
          Items,        \* the listings that are bought
          MaxActs,      \* what the member does: sign-ins, sign-outs, checkouts, the profile saved, sections read again
          MaxFaults     \* answers that are lost, or refused with 401, and sign-ins and sign-outs of other tabs

Nobody == "nobody"
Owners == Accounts \cup {Nobody}

ASSUME ClientAssumption == Nobody \notin Accounts /\ MaxActs \in Nat /\ MaxFaults \in Nat

\* Calls of getCurrentUser after a sign-in, a verification and a saved profile.
IdentityReads == {"sign-in", "verified", "profile"}
Datasets == {"wallet", "orders"}
Kinds == Datasets \cup IdentityReads \cup {"checkout", "save"}
Orders == Accounts \X Items
Numbers == {"generation", "token", "session", "orders", "dataset"}

VARIABLES
  clCookie,      \* the account of the refresh cookie
  placed,        \* the orders the server has recorded
  clToken,       \* the account of accessToken
  rotations,     \* the calls of refreshAccess that have not returned
  requests,      \* account requests through the client
  restore,       \* sessionRestore: the session being restored
  flow,          \* the sign-in, verification or sign-out under way
  acts, faults,  \* what the member has done and what has gone wrong, counted
  crossed,       \* what the page took up across a change of session, until the next sign-out (history)
  authenticated, \* what the page shows from here on
  accountId,
  walletOf,      \* whose balance and transactions are held
  shownOrders,
  confirmedOrders, \* paid here, not yet seen in a list
  dataState      \* dataStates

serverVars == <<clCookie, placed>>
identityVars == <<authenticated, accountId>>
orderVars == <<shownOrders, confirmedOrders>>
pageVars == <<identityVars, walletOf, orderVars, dataState>>
clientVars == <<serverVars, clToken, rotations, requests, restore, flow, acts, faults, crossed, pageVars>>

Request == [kind : Kinds, item : Items \cup {"none"}, sentAs : Owners, step : {"sent", "rejected", "waiting", "ok", "failed"},
            retried : BOOLEAN, data : SUBSET Orders, moved : SUBSET Numbers]
Rotation == [step : {"csrf", "ok", "refused", "lost"}, as : Owners, shared : BOOLEAN, moved : SUBSET {"generation"}]
Idle == [kind |-> "idle", step |-> "none", acct |-> Nobody]
Flow == [kind : {"idle", "login", "verify", "logout"}, step : {"none", "await", "posting", "served"}, acct : Owners]

ClientTypeOK ==
  /\ clCookie \in Owners /\ clToken \in Owners /\ placed \subseteq Orders
  /\ rotations \subseteq Rotation /\ requests \subseteq Request
  /\ restore \in [step : {"idle", "identity", "rotating", "failed"}, moved : BOOLEAN]
  /\ flow \in Flow /\ acts \in 0..MaxActs /\ faults \in 0..MaxFaults /\ crossed \in BOOLEAN
  /\ authenticated \in BOOLEAN /\ accountId \in Owners /\ walletOf \in Owners
  /\ shownOrders \subseteq Orders /\ confirmedOrders \subseteq Orders
  /\ dataState \in [Datasets -> {"loading", "ready", "refreshing", "error"}]

ClientInit ==
  /\ clCookie \in Owners
  /\ clToken \in {Nobody, clCookie}
  /\ placed = {} /\ requests = {}
  /\ restore = [step |-> IF clToken = Nobody THEN "rotating" ELSE "identity", moved |-> FALSE]
  /\ rotations = IF clToken = Nobody THEN {[step |-> "csrf", as |-> Nobody, shared |-> TRUE, moved |-> {}]} ELSE {}
  /\ flow = Idle /\ acts = 0 /\ faults = 0 /\ crossed = FALSE
  /\ authenticated = FALSE /\ accountId = Nobody /\ walletOf = Nobody
  /\ shownOrders = {} /\ confirmedOrders = {}
  /\ dataState = [d \in Datasets |-> "loading"]

-----------------------------------------------------------------------------
(* Numbers that move, and requests that start.                             *)

\* The numbers that a request compares when it is answered.  An identity is applied
\* whatever they are; they only decide whether its call is sent again.
Compared(kind) == {"generation", "token"} \cup
  (CASE kind = "wallet" -> {"session", "dataset"} [] kind = "orders" -> {"session", "dataset", "orders"}
     [] kind = "checkout" -> {"session"} [] OTHER -> {})

Move(calls, numbers) == {[c EXCEPT !.moved = @ \cup (numbers \cap Compared(c.kind))] : c \in calls}
MoveRotations(calls) == {[c EXCEPT !.moved = {"generation"}] : c \in calls}

NewCall(kind, item, sender) ==
  [kind |-> kind, item |-> item, sentAs |-> sender, step |-> "sent", retried |-> FALSE, data |-> {}, moved |-> {}]

\* Requests of some kinds are out; which earlier answers they supersede.
Start(calls, kinds, item, sender) ==
  Move({c \in calls : c.kind \in kinds}, {"dataset", "orders"}) \cup {c \in calls : c.kind \notin kinds}
  \cup {NewCall(kind, item, sender) : kind \in kinds}

\* trackDataset: a section already shown stays shown while it is read again.
Refreshing(states, kinds) ==
  [d \in Datasets |-> IF d \notin kinds THEN states[d]
                      ELSE IF states[d] \in {"ready", "refreshing"} THEN "refreshing" ELSE "loading"]

\* revision === sessionRevision.current
SameSession(r) == "session" \notin r.moved

\* requestRevision === ordersRequestRevision.current
AnyList(r) == TRUE
LatestList(r) == "orders" \notin r.moved

\* generation === sessionGeneration
SameGeneration(c) == c.moved = {}

\* Something goes wrong, within the bound.
Fault == faults < MaxFaults /\ faults' = faults + 1

-----------------------------------------------------------------------------
(* The server, and the other tabs.                                         *)

\* An answer is given, refused with 401, or does not reach the tab; a checkout is
\* recorded once, and its repetition answered by the recorded order or with 409.
ServeRequest(r, answer) ==
  LET order == {<<r.sentAs, r.item>>}
      handled == answer # "rejected" /\ r.sentAs # Nobody
  IN /\ r.step = "sent"
     /\ IF r.sentAs = Nobody THEN answer = "rejected" /\ UNCHANGED faults
        ELSE IF answer = "ok" THEN UNCHANGED faults ELSE Fault
     /\ placed' = IF handled /\ r.kind = "checkout" THEN placed \cup order ELSE placed
     /\ requests' = (requests \ {r}) \cup
          {[r EXCEPT !.step = answer,
                     !.data = IF answer # "ok" THEN {} ELSE IF r.kind = "checkout" THEN order
                              ELSE IF r.kind = "orders" THEN {o \in placed : o[1] = r.sentAs} ELSE {}]}
     /\ UNCHANGED <<clCookie, clToken, rotations, restore, flow, pageVars, acts, crossed>>

\* A request that never arrives: the client's timeout of 12 seconds fails it.
LoseRequest(r) ==
  /\ r.step = "sent" /\ Fault
  /\ requests' = (requests \ {r}) \cup {[r EXCEPT !.step = "failed"]}
  /\ UNCHANGED <<serverVars, clToken, rotations, restore, flow, pageVars, acts, crossed>>

\* Another tab signs in, as whoever, or out: the tabs of a browser share the cookie.
OtherTab(a) ==
  /\ a # clCookie /\ clCookie' = a /\ Fault
  /\ UNCHANGED <<placed, clToken, rotations, requests, restore, flow, pageVars, acts, crossed>>

-----------------------------------------------------------------------------
(* refreshAccess: callers of one generation share one rotation.            *)

\* refreshInFlight, when it is of the current generation.
InFlight == {c \in rotations : c.shared /\ c.moved = {}}

JoinOrStart ==
  IF InFlight # {} THEN rotations
  ELSE {[c EXCEPT !.shared = FALSE] : c \in rotations} \cup {[step |-> "csrf", as |-> Nobody, shared |-> TRUE, moved |-> {}]}

\* The CSRF token is read, the generation compared, and the rotation posted; without
\* a cookie there is no token, which is treated like a refused rotation.  The rotation
\* of a cookie that was revoked, has expired or was used before is refused.
PostRotation(c) ==
  /\ c.step = "csrf"
  /\ \/ /\ UNCHANGED faults
        /\ LET step == IF c.moved # {} THEN "lost" ELSE IF clCookie = Nobody THEN "refused" ELSE "ok"
           IN rotations' = (rotations \ {c}) \cup {[c EXCEPT !.step = step, !.as = IF step = "ok" THEN clCookie ELSE Nobody]}
     \/ /\ Fault
        /\ \E step \in {"lost", "refused"} : rotations' = (rotations \ {c}) \cup {[c EXCEPT !.step = step]}
  /\ UNCHANGED <<serverVars, clToken, requests, restore, flow, pageVars, acts, crossed>>

\* The new token goes to the requests that waited for it.
Resume(calls, token) ==
  {IF r.step = "waiting" /\ "generation" \notin r.moved
     THEN [r EXCEPT !.step = "sent", !.sentAs = token, !.moved = @ \ {"token"}]
     ELSE [r EXCEPT !.moved = @ \cup {"token"}] : r \in calls}

\* Of the waiting requests, those of the rotation's own generation fail with it.
FailWaiting(calls, c) ==
  {IF r.step = "waiting" /\ (("generation" \in r.moved) <=> (c.moved # {})) THEN [r EXCEPT !.step = "failed"] ELSE r : r \in calls}

-----------------------------------------------------------------------------
(* The page's account.                                                     *)

\* applyServerIdentity, with the sections or the identity that are asked for after it;
\* `calls' are the requests already out.  For another account the sections load anew.
Identify(a, calls, kinds, token) ==
  LET other == accountId # a
      out == IF other THEN Move(calls, {"session", "orders"}) ELSE calls
      states == IF other THEN [d \in Datasets |-> "loading"] ELSE dataState
  IN /\ accountId' = a
     /\ authenticated' = TRUE
     /\ confirmedOrders' = IF other THEN {} ELSE confirmedOrders
     /\ shownOrders' = IF other THEN {} ELSE shownOrders
     /\ walletOf' = IF other THEN Nobody ELSE walletOf
     /\ dataState' = Refreshing(states, kinds)
     /\ requests' = Start(out, kinds, "none", token)

\* The restored session is applied unless a sign-in has started meanwhile.
Restored(a, calls, token) ==
  /\ restore' = [step |-> "idle", moved |-> FALSE]
  /\ IF restore.moved THEN requests' = calls /\ UNCHANGED pageVars ELSE Identify(a, calls, Datasets, token)

\* GET /users/me with the stored token; 401 falls through to a rotation.
RestoreIdentity ==
  /\ restore.step = "identity"
  /\ \/ /\ Restored(clToken, requests, clToken)
        /\ UNCHANGED <<clToken, rotations, faults>>
     \/ /\ Fault
        /\ IF restore.moved
             THEN restore' = [step |-> "idle", moved |-> FALSE] /\ UNCHANGED rotations
             ELSE restore' = [restore EXCEPT !.step = "rotating"] /\ rotations' = JoinOrStart
        /\ UNCHANGED <<clToken, requests, pageVars>>
     \/ /\ Fault
        /\ restore' = [step |-> IF restore.moved THEN "idle" ELSE "failed", moved |-> FALSE]
        /\ UNCHANGED <<clToken, rotations, requests, pageVars>>
  /\ UNCHANGED <<serverVars, flow, acts, crossed>>

RetrySession ==
  /\ restore.step = "failed"
  /\ IF clToken = Nobody
       THEN restore' = [step |-> "rotating", moved |-> FALSE] /\ rotations' = JoinOrStart
       ELSE restore' = [step |-> "identity", moved |-> FALSE] /\ UNCHANGED rotations
  /\ UNCHANGED <<serverVars, clToken, requests, flow, pageVars, acts, faults, crossed>>

\* The rest of refreshAccess: its callers are answered, and only a rotation of the
\* current generation installs its token, or clears the session when it is refused.
RotationReturns(c) ==
  LET current == SameGeneration(c)
      mine == current /\ restore.step = "rotating"
  IN /\ c.step \in {"ok", "refused", "lost"}
     /\ IF current /\ c.step = "ok"
          THEN /\ clToken' = c.as
               /\ rotations' = rotations \ {c}
               /\ crossed' = (crossed \/ (~mine /\ c.as # clToken))
               /\ IF mine THEN Restored(c.as, Resume(requests, c.as), c.as)
                  ELSE requests' = Resume(requests, c.as) /\ UNCHANGED <<restore, pageVars>>
          ELSE LET out == FailWaiting(requests, c)
                   clears == current /\ c.step = "refused"
               IN /\ clToken' = IF clears THEN Nobody ELSE clToken
                  /\ requests' = IF clears THEN Move(out, {"generation", "token"}) ELSE out
                  /\ rotations' = IF clears THEN MoveRotations(rotations \ {c}) ELSE rotations \ {c}
                  /\ restore' = IF mine THEN [step |-> IF c.step = "lost" /\ ~restore.moved THEN "failed" ELSE "idle", moved |-> FALSE]
                                ELSE restore
                  /\ authenticated' = IF mine /\ clears /\ ~restore.moved THEN FALSE ELSE authenticated
                  /\ UNCHANGED <<accountId, walletOf, orderVars, dataState, crossed>>
     /\ UNCHANGED <<serverVars, flow, acts, faults>>

-----------------------------------------------------------------------------
(* Answers to the page's requests.                                         *)

\* The interceptor: one repetition after a rotation, none across a change of session.
RetryRejected(r) ==
  /\ r.step = "rejected"
  /\ LET rest == requests \ {r}
     IN IF r.retried \/ r.sentAs = Nobody \/ "generation" \in r.moved
          THEN requests' = rest \cup {[r EXCEPT !.step = "failed"]} /\ UNCHANGED rotations
        ELSE IF "token" \in r.moved
          THEN requests' = rest \cup {[r EXCEPT !.step = "sent", !.retried = TRUE, !.sentAs = clToken, !.moved = @ \ {"token"}]}
               /\ UNCHANGED rotations
        ELSE requests' = rest \cup {[r EXCEPT !.step = "waiting", !.retried = TRUE]} /\ rotations' = JoinOrStart
  /\ UNCHANGED <<serverVars, clToken, restore, flow, pageVars, acts, faults, crossed>>

\* trackDataset: the state of a section follows its latest request of this session.
Settled(r, state) == IF r.moved \cap {"session", "dataset"} = {} THEN [dataState EXCEPT ![r.kind] = state] ELSE dataState

ReceiveWallet(r) ==
  /\ r.kind = "wallet" /\ r.step = "ok"
  /\ walletOf' = IF SameSession(r) THEN r.sentAs ELSE walletOf
  /\ dataState' = Settled(r, "ready")
  /\ requests' = requests \ {r}
  /\ UNCHANGED <<serverVars, clToken, rotations, restore, flow, identityVars, orderVars, acts, faults, crossed>>

\* refreshOrders and mergeConfirmedOrders.
ReceiveOrders(r) ==
  /\ r.kind = "orders" /\ r.step = "ok"
  /\ IF LatestList(r) THEN shownOrders' = r.data \cup confirmedOrders /\ confirmedOrders' = confirmedOrders \ r.data
     ELSE UNCHANGED orderVars
  /\ dataState' = Settled(r, "ready")
  /\ requests' = requests \ {r}
  /\ UNCHANGED <<serverVars, clToken, rotations, restore, flow, identityVars, walletOf, acts, faults, crossed>>

\* checkout: the order is kept, earlier lists are superseded, and both sections read again.
ReceiveCheckout(r) ==
  /\ r.kind = "checkout" /\ r.step = "ok"
  /\ IF SameSession(r)
       THEN /\ confirmedOrders' = confirmedOrders \cup r.data
            /\ shownOrders' = shownOrders \cup r.data
            /\ dataState' = Refreshing(dataState, Datasets)
            /\ requests' = Start(Move(requests \ {r}, {"orders"}), Datasets, "none", clToken)
       ELSE requests' = requests \ {r} /\ UNCHANGED <<orderVars, dataState>>
  /\ UNCHANGED <<serverVars, clToken, rotations, restore, flow, identityVars, walletOf, acts, faults, crossed>>

\* applyServerIdentity(await getCurrentUser()): whoever the call was sent for is shown,
\* even when the session has changed meanwhile.
ReceiveIdentity(r) ==
  /\ r.kind \in IdentityReads /\ r.step = "ok"
  /\ Identify(r.sentAs, requests \ {r}, IF r.kind = "profile" THEN {} ELSE Datasets, clToken)
  /\ crossed' = (crossed \/ "generation" \in r.moved)
  /\ UNCHANGED <<serverVars, clToken, rotations, restore, flow, acts, faults>>

\* saveProfile, once the change is made.
ReceiveSave(r) ==
  /\ r.kind = "save" /\ r.step = "ok"
  /\ requests' = Start(requests \ {r}, {"profile"}, "none", clToken)
  /\ UNCHANGED <<serverVars, clToken, rotations, restore, flow, pageVars, acts, faults, crossed>>

\* After a verification the sections are read even when the identity cannot be.
RequestFails(r) ==
  /\ r.step = "failed"
  /\ dataState' = CASE r.kind \in Datasets -> Settled(r, IF dataState[r.kind] = "refreshing" THEN "ready" ELSE "error")
                    [] r.kind = "verified" -> Refreshing(dataState, Datasets)
                    [] OTHER -> dataState
  /\ requests' = IF r.kind = "verified" THEN Start(requests \ {r}, Datasets, "none", clToken) ELSE requests \ {r}
  /\ UNCHANGED <<serverVars, clToken, rotations, restore, flow, identityVars, walletOf, orderVars, acts, faults, crossed>>

\* A page reads a section again, or the member pays for a cart or saves the profile.
Ask(kind, item) ==
  /\ authenticated
  /\ acts < MaxActs /\ acts' = acts + 1
  /\ requests' = Start(requests, {kind}, item, clToken)
  /\ dataState' = Refreshing(dataState, {kind})
  /\ UNCHANGED <<serverVars, clToken, rotations, restore, flow, faults, crossed, identityVars, walletOf, orderVars>>

-----------------------------------------------------------------------------
(* Sign-in, verification of a registration, sign-out.                      *)

\* beginAuthentication, and signOut up to its first await. The sign-in form is for a
\* visitor (AnonymousOnly); a verification link also opens in a signed-in tab.
Begin(kind, a) ==
  /\ flow = Idle
  /\ acts < MaxActs /\ acts' = acts + 1
  /\ kind = "login" => ~authenticated
  /\ kind = "logout" => authenticated
  /\ (kind = "logout") <=> (a = Nobody)
  /\ restore' = IF restore.step \in {"idle", "failed"} THEN [step |-> "idle", moved |-> FALSE] ELSE [restore EXCEPT !.moved = TRUE]
  /\ flow' = [kind |-> kind, step |-> "await", acct |-> a]
  /\ UNCHANGED <<serverVars, clToken, rotations, requests, faults, pageVars, crossed>>

\* The restoration has returned; signOut moves the session before it calls the server.
Submit ==
  /\ flow.step = "await" /\ restore.step = "idle"
  /\ flow' = [flow EXCEPT !.step = "posting"]
  /\ requests' = IF flow.kind = "logout" THEN Move(requests, {"session"}) ELSE requests
  /\ UNCHANGED <<serverVars, clToken, rotations, restore, pageVars, acts, faults, crossed>>

\* The server opens or closes the session: a failed sign-in ends, a sign-out goes on
\* whether or not it reached the server.  The cookie of a sign-in comes with its answer.
ServeFlow ==
  /\ flow.step = "posting"
  /\ \/ /\ clCookie' = IF flow.kind = "logout" THEN Nobody ELSE clCookie
        /\ flow' = [flow EXCEPT !.step = "served"] /\ UNCHANGED faults
     \/ /\ UNCHANGED clCookie /\ Fault
        /\ flow' = IF flow.kind = "logout" THEN [flow EXCEPT !.step = "served"] ELSE Idle
  /\ UNCHANGED <<placed, clToken, rotations, requests, restore, pageVars, acts, crossed>>

\* establishSession installs the token and asks for the identity; a page that an earlier
\* sign-in has come to show meanwhile shows it until the answer.
EstablishSession ==
  /\ flow.kind = "login" /\ flow.step = "served"
  /\ clToken' = flow.acct /\ clCookie' = flow.acct
  /\ requests' = Start(Move(requests, {"orders", "generation", "token"}), {"sign-in"}, "none", flow.acct)
  /\ rotations' = MoveRotations(rotations)
  /\ shownOrders' = {}
  /\ crossed' = (crossed \/ authenticated)
  /\ flow' = Idle
  /\ UNCHANGED <<placed, restore, identityVars, walletOf, confirmedOrders, dataState, acts, faults>>

\* verifyRegistrationEmail applies the identity that came with the token, and asks for
\* it again.
EstablishVerified ==
  /\ flow.kind = "verify" /\ flow.step = "served"
  /\ clToken' = flow.acct /\ clCookie' = flow.acct
  /\ rotations' = MoveRotations(rotations)
  /\ Identify(flow.acct, Move(requests, {"generation", "token"}), {"verified"}, flow.acct)
  /\ flow' = Idle
  /\ UNCHANGED <<placed, restore, acts, faults, crossed>>

SignedOut ==
  /\ flow.kind = "logout" /\ flow.step = "served"
  /\ clToken' = Nobody
  /\ requests' = Move(requests, {"generation", "token", "orders"})
  /\ rotations' = MoveRotations(rotations)
  /\ authenticated' = FALSE /\ accountId' = Nobody /\ walletOf' = Nobody
  /\ shownOrders' = {} /\ confirmedOrders' = {}
  /\ flow' = Idle /\ crossed' = FALSE
  /\ UNCHANGED <<serverVars, restore, dataState, acts, faults>>

ClientNext ==
  \/ \E r \in requests :
       \/ \E answer \in {"ok", "rejected", "failed"} : ServeRequest(r, answer)
       \/ LoseRequest(r) \/ RetryRejected(r) \/ RequestFails(r)
       \/ ReceiveWallet(r) \/ ReceiveOrders(r) \/ ReceiveCheckout(r) \/ ReceiveIdentity(r) \/ ReceiveSave(r)
  \/ \E c \in rotations : PostRotation(c) \/ RotationReturns(c)
  \/ RestoreIdentity \/ RetrySession
  \/ \E a \in Owners : OtherTab(a)
  \/ \E kind \in Datasets \cup {"save"} : Ask(kind, "none")
  \/ \E i \in Items : Ask("checkout", i)
  \/ \E a \in Accounts : Begin("login", a) \/ Begin("verify", a)
  \/ Begin("logout", Nobody)
  \/ Submit \/ ServeFlow \/ EstablishSession \/ EstablishVerified \/ SignedOut

ClientSpec == ClientInit /\ [][ClientNext]_clientVars

-----------------------------------------------------------------------------
(* Properties.                                                             *)

\* What a signed-in page shows as loaded is its own account's: no answer that was asked
\* for under another account, or before the identity was known, is left on the page
\* (sessionRevision, ordersRequestRevision and trackDataset, PlatformContext.jsx:321-383).
OwnDataShown ==
  authenticated =>
    /\ \A o \in shownOrders \cup confirmedOrders : o[1] = accountId
    /\ dataState["wallet"] \in {"ready", "refreshing"} => walletOf = accountId

\* The token the tab sends is the token of the account that its page shows: what was
\* under way when a member signed in or out installs nothing and is not shown
\* (client.js:47-58, PlatformContext.jsx:567-568).  An identity that is read after a
\* verification or a change of the profile is applied without that comparison.
TokenOfAccount == authenticated /\ clToken # Nobody => clToken = accountId

\* This tab never posts two rotations with one cookie, which the server would take for
\* reuse (client.js:66-67): start-up, and every request refused for an old token, share one.
OneRotation == Cardinality({c \in rotations : c.moved = {}}) <= 1

\* What the page shows and what it sends are of one account unless, since the last
\* sign-out, an identity was applied that had been asked for in an earlier session, a
\* rotation came with the token of another tab's account, or a sign-in ended in a page
\* that another had come to show: nothing else mixes two accounts, and a sign-out ends it.
OneAccountShown == (~crossed => OwnDataShown /\ TokenOfAccount) /\ OneRotation

\* An order whose payment was confirmed on this page stays on it until the account
\* changes, whatever list of orders arrives later (README.md:23, frontendState.js:25).
ConfirmedStays == ~crossed' /\ accountId # Nobody /\ accountId' = accountId => shownOrders \subseteq shownOrders'

\* A page is of one account, in what it shows and what it sends, and loses nothing that
\* was confirmed to that account (client.js:47-67, PlatformContext.jsx:321-383, 733).
OneAccountAtATime == []OneAccountShown /\ [][ConfirmedStays]_clientVars

\* A rotation keeps the account (client.js:53): the token that it installs is of the
\* account of the token that had expired.  The answer names its user, whom only the
\* restoration looks at.
RotationKeepsAccount ==
  [][\A c \in rotations : RotationReturns(c) /\ authenticated /\ clToken' # Nobody => clToken' = clToken]_clientVars
=============================================================================
