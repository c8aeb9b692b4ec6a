------------------------------ MODULE Sessions ------------------------------
(* The refresh sessions of one account: how a sign-in opens one, how a       *)
(* refresh replaces it by a successor, and everything that ends it.  Sources *)
(* auth/session-state.ts, auth/sessions.ts, the session half of auth/auth.ts *)
(* and admin/users.ts.                                                       *)
(*                                                                           *)
(* Every handler reads something before it takes the lock on the users row   *)
(* and writes under it, so a handler is a request with a stage: one action   *)
(* per unlocked read, one per locked transaction.  Sessions of different     *)
(* accounts never meet: every statement carries the account's id.            *)
EXTENDS Naturals

CONSTANTS
  Requests,      \* requests that can be in flight at once
  MaxSessions,   \* bound: rows of refresh_sessions
  ChainLimit,    \* rows that one resolution visits at most (64 in the code)
  MaxResets      \* bound: password reset links sent

ASSUME SessionsAssumption ==
  /\ MaxSessions \in Nat \ {0}
  /\ ChainLimit \in Nat \ {0}
  /\ MaxResets \in Nat

VARIABLES
  account,    \* account_status, and how often the password has been changed
  link,       \* the newest password reset challenge and whether it is redeemable
  rows,       \* refresh_sessions, numbered in the order they were created
  created,    \* number of rows
  expired,    \* rows 1..expired have passed expires_at: all have one lifetime
  request,    \* the requests in flight
  signedOut   \* history: sign-ins that a logout has answered for

vars == <<account, link, rows, created, expired, request, signedOut>>

Ids == 1..MaxSessions
None == 0

(* reason is "live" while revoked_at is null, revoke_reason afterwards: the  *)
(* code tells "rotated" from all others, the properties "reuse" as well, and *)
(* the rest (logout, user-revoked, password-reset, ...) is "revoked".        *)
(* login, the row that opened the chain, is kept for the properties only.    *)
Row == [reason : {"unused", "live", "rotated", "reuse", "revoked"},
        next : Ids \cup {None}, login : Ids \cup {None}]

NoRequest == [op |-> "none", row |-> None, target |-> None, link |-> 0]
Ops == {"none", "login", "admitted", "rotate", "rotateAdmitted", "replay",
        "revokeOne", "revokeOthers", "reset"}
Request == [op : Ops, row : Ids \cup {None}, target : Ids \cup {None}, link : 0..MaxResets]

TypeOK ==
  /\ account \in [status : {"active", "suspended", "deleted"}, changes : 0..MaxResets]
  /\ link \in [number : 0..MaxResets, open : BOOLEAN]
  /\ rows \in [Ids -> Row]
  /\ created \in 0..MaxSessions
  /\ expired \in 0..created
  /\ request \in [Requests -> Request]
  /\ signedOut \subseteq Ids

Init ==
  /\ account = [status |-> "active", changes |-> 0]
  /\ link = [number |-> 0, open |-> FALSE]
  /\ rows = [s \in Ids |-> [reason |-> "unused", next |-> None, login |-> None]]
  /\ created = 0
  /\ expired = 0
  /\ request = [r \in Requests |-> NoRequest]
  /\ signedOut = {}

-----------------------------------------------------------------------------
(* Reading sessions.                                                         *)

Rows == 1..created
Live(s) == rows[s].reason = "live"
Active(s) == Live(s) /\ s > expired
Login(s) == rows[s].login

(* resolveActiveSession: follow replaced_by_session_id through rotated rows, *)
(* visiting ChainLimit rows at most, to a row that is neither revoked nor    *)
(* expired.                                                                  *)
Successor(s) == IF rows[s].reason = "rotated" THEN rows[s].next ELSE s

Walk(s) ==
  LET walk[n \in 1..ChainLimit] == IF n = 1 THEN s ELSE Successor(walk[n - 1])
  IN  walk

Resolve(s) ==
  LET leaf == Walk(s)[ChainLimit]
  IN  IF leaf \in Rows /\ Active(leaf) THEN leaf ELSE None

(* UPDATE refresh_sessions SET revoked_at ... WHERE revoked_at IS NULL       *)
Revoke(S, reason) ==
  rows' = [s \in Ids |-> IF s \in S /\ Live(s)
                         THEN [rows[s] EXCEPT !.reason = reason] ELSE rows[s]]

Start(r, new) == request[r] = NoRequest /\ request' = [request EXCEPT ![r] = new]
Step(r, op) == request' = [request EXCEPT ![r].op = op]
Answer(r) == request' = [request EXCEPT ![r] = NoRequest]

-----------------------------------------------------------------------------
(* Signing in.                                                               *)

(* login: the password is read and verified; argon2, and the second factor   *)
(* where one is enrolled, take their time from here.  A deleted account has  *)
(* lost its address.                                                         *)
Prove(r) ==
  /\ account.status # "deleted"
  /\ Start(r, [NoRequest EXCEPT !.op = "login"])
  /\ UNCHANGED <<account, link, rows, created, expired, signedOut>>

(* completePrimarySignIn, verifyMfaLogin: the last look at the account.      *)
Admit(r) ==
  /\ request[r].op = "login"
  /\ IF account.status = "active" THEN Step(r, "admitted") ELSE Answer(r)
  /\ UNCHANGED <<account, link, rows, created, expired, signedOut>>

(* createRefreshSession: the insert, under the lock, looks at nothing again. *)
Open(r) ==
  /\ request[r].op = "admitted"
  /\ created < MaxSessions
  /\ created' = created + 1
  /\ rows' = [rows EXCEPT ![created + 1] =
       [reason |-> "live", next |-> None, login |-> created + 1]]
  /\ Answer(r)
  /\ UNCHANGED <<account, link, expired, signedOut>>

-----------------------------------------------------------------------------
(* refresh: rotation and the recovery from a replayed token.                 *)

(* The row is read without the lock; a row that was ended for another reason *)
(* than rotation, or has expired, is refused at once.                        *)
RefreshRead(r) ==
  /\ \E t \in Rows :
       \/ Active(t) /\ Start(r, [NoRequest EXCEPT !.op = "rotate", !.row = t])
       \/ rows[t].reason = "rotated"
          /\ Start(r, [NoRequest EXCEPT !.op = "replay", !.row = t])
  /\ UNCHANGED <<account, link, rows, created, expired, signedOut>>

RefreshAdmit(r) ==
  /\ request[r].op = "rotate"
  /\ IF account.status = "active" THEN Step(r, "rotateAdmitted") ELSE Answer(r)
  /\ UNCHANGED <<account, link, rows, created, expired, signedOut>>

(* Mutant: the row is not read again under the lock.                         *)
RotateUnchecked(r) ==
  /\ request[r].op = "rotateAdmitted"
  /\ created < MaxSessions
  /\ created' = created + 1
  /\ rows' = [rows EXCEPT
       ![created + 1] = [reason |-> "live", next |-> None,
                         login |-> Login(request[r].row)],
       ![request[r].row].reason = "rotated",
       ![request[r].row].next = created + 1]
  /\ Answer(r)
  /\ UNCHANGED <<account, link, expired, signedOut>>

(* Under the lock the row is read again; then the successor is inserted and  *)
(* the row is ended and pointed at it, in one transaction.                   *)
Rotate(r) ==
  LET t == request[r].row IN
  /\ request[r].op = "rotateAdmitted"
  /\ Active(t)
  /\ created < MaxSessions
  /\ created' = created + 1
  /\ rows' = [rows EXCEPT
       ![created + 1] = [reason |-> "live", next |-> None, login |-> Login(t)],
       ![t].reason = "rotated",
       ![t].next = created + 1]
  /\ Answer(r)
  /\ UNCHANGED <<account, link, expired, signedOut>>

RotateRefused(r) ==
  /\ request[r].op = "rotateAdmitted"
  /\ ~Active(request[r].row)
  /\ Answer(r)
  /\ UNCHANGED <<account, link, rows, created, expired, signedOut>>

(* A rotated token came back.  If the session it grew into is still active,  *)
(* every session of the account ends; if not, nothing does.                  *)
Replay(r) ==
  /\ request[r].op = "replay"
  /\ IF Resolve(request[r].row) # None
     THEN Revoke(Ids, "reuse")
     ELSE UNCHANGED rows
  /\ Answer(r)
  /\ UNCHANGED <<account, link, created, expired, signedOut>>

-----------------------------------------------------------------------------
(* Ending sessions on the user's request.                                    *)

(* logout: the cookie may be an ancestor of the session it signs out of.     *)
Logout(t) ==
  /\ t \in Rows
  /\ Revoke({Resolve(t)}, "revoked")
  /\ signedOut' = signedOut \cup {Login(t)}
  /\ UNCHANGED <<account, link, created, expired, request>>

(* authenticate: an access token names a row; it is good while that row      *)
(* resolves to an active one, which becomes the request's session.           *)
Authenticate(r) ==
  /\ account.status = "active"
  /\ \E s \in Rows :
       /\ Resolve(s) # None
       /\ \/ \E t \in Rows : Start(r, [NoRequest EXCEPT !.op = "revokeOne",
                                         !.row = Resolve(s), !.target = t])
          \/ Start(r, [NoRequest EXCEPT !.op = "revokeOthers", !.row = Resolve(s)])
  /\ UNCHANGED <<account, link, rows, created, expired, signedOut>>

(* revokeSession *)
RevokeOne(r) ==
  /\ request[r].op = "revokeOne"
  /\ Revoke({Resolve(request[r].target)}, "revoked")
  /\ Answer(r)
  /\ UNCHANGED <<account, link, created, expired, signedOut>>

(* Mutant: the session found at authentication is the one that is kept.      *)
RevokeOthersStale(r) ==
  /\ request[r].op = "revokeOthers"
  /\ Revoke(Ids \ {request[r].row}, "revoked")
  /\ Answer(r)
  /\ UNCHANGED <<account, link, created, expired, signedOut>>

(* revokeOtherSessions: the caller's session is resolved again, under lock.  *)
RevokeOthers(r) ==
  LET current == Resolve(request[r].row) IN
  /\ request[r].op = "revokeOthers"
  /\ IF current # None THEN Revoke(Ids \ {current}, "revoked")
                       ELSE UNCHANGED rows
  /\ Answer(r)
  /\ UNCHANGED <<account, link, created, expired, signedOut>>

-----------------------------------------------------------------------------
(* Recovering the password.                                                  *)

(* forgotPassword: a new link uses up the one before it.                     *)
Forgot ==
  /\ account.status = "active"
  /\ link.number < MaxResets
  /\ link' = [number |-> link.number + 1, open |-> TRUE]
  /\ UNCHANGED <<account, rows, created, expired, request, signedOut>>

(* The link expires, or could not be mailed and is used up.                  *)
LinkLapses ==
  /\ link.open
  /\ link' = [link EXCEPT !.open = FALSE]
  /\ UNCHANGED <<account, rows, created, expired, request, signedOut>>

(* resetPassword, phase 1: the link is good and the account active; then the *)
(* new password is held against the policy, which asks another service.      *)
ResetRead(r) ==
  /\ link.open
  /\ account.status = "active"
  /\ Start(r, [NoRequest EXCEPT !.op = "reset", !.link = link.number])
  /\ UNCHANGED <<account, link, rows, created, expired, signedOut>>

(* Mutant: the link is marked used without asking whether it already was.    *)
RedeemUnconditionally(r) ==
  /\ request[r].op = "reset"
  /\ link' = [link EXCEPT !.open = FALSE]
  /\ account' = [account EXCEPT !.changes = @ + 1]
  /\ Revoke(Ids, "revoked")
  /\ Answer(r)
  /\ UNCHANGED <<created, expired, signedOut>>

(* Phase 3: one conditional UPDATE redeems the link; the password changes    *)
(* and every session ends in the same transaction.                           *)
Redeem(r) ==
  /\ request[r].op = "reset"
  /\ link = [number |-> request[r].link, open |-> TRUE]
  /\ link' = [link EXCEPT !.open = FALSE]
  /\ account' = [account EXCEPT !.changes = @ + 1]
  /\ Revoke(Ids, "revoked")
  /\ Answer(r)
  /\ UNCHANGED <<created, expired, signedOut>>

RedeemRefused(r) ==
  /\ request[r].op = "reset"
  /\ link # [number |-> request[r].link, open |-> TRUE]
  /\ Answer(r)
  /\ UNCHANGED <<account, link, rows, created, expired, signedOut>>

-----------------------------------------------------------------------------
(* What administrators do, and time.                                         *)

(* updateAccountStatus and deleteUser.                                       *)
SetStatus(status) ==
  /\ \/ account.status = "active" /\ status = "suspended"
     \/ account.status # "deleted" /\ status = "deleted"
     \/ account.status = "suspended" /\ status = "active"
  /\ account' = [account EXCEPT !.status = status]
  /\ IF status # "active" THEN Revoke(Ids, "revoked") ELSE UNCHANGED rows
  /\ UNCHANGED <<link, created, expired, request, signedOut>>

(* changeUserRole: new rights need a new sign-in.                            *)
ChangeRole ==
  /\ account.status = "active"
  /\ Revoke(Ids, "revoked")
  /\ UNCHANGED <<account, link, created, expired, request, signedOut>>

Expire ==
  /\ expired < created
  /\ expired' = expired + 1
  /\ UNCHANGED <<account, link, rows, created, request, signedOut>>

-----------------------------------------------------------------------------
SignIn(r) == Prove(r) \/ Admit(r) \/ Open(r)
Refresh(r) == RefreshRead(r) \/ RefreshAdmit(r) \/ Rotate(r) \/ RotateRefused(r) \/ Replay(r)
Manage(r) == Authenticate(r) \/ RevokeOne(r) \/ RevokeOthers(r)
Reset(r) == ResetRead(r) \/ Redeem(r) \/ RedeemRefused(r)

Next ==
  \/ \E r \in Requests : SignIn(r) \/ Refresh(r) \/ Manage(r) \/ Reset(r)
  \/ \E t \in Rows : Logout(t)
  \/ \E status \in {"active", "suspended", "deleted"} : SetStatus(status)
  \/ Forgot \/ LinkLapses \/ ChangeRole \/ Expire

Spec == Init /\ [][Next]_vars

-----------------------------------------------------------------------------
(* Properties.                                                               *)

(* A chain of rotations never forks: however refreshes of one cookie race,   *)
(* one sign-in has at most one session that can still be refreshed           *)
(* (auth.ts:872-873).                                                        *)
OneLivePerLogin ==
  \A s, t \in Rows : Live(s) /\ Live(t) /\ Login(s) = Login(t) => s = t

LoginActive(l) == \E s \in Rows : Login(s) = l /\ Active(s)

(* Once a sign-in's last session has ended, by whatever means, no refresh    *)
(* that was already on its way brings it back (session-state.ts:4-5).        *)
EndedStaysEnded ==
  [][\A l \in Rows : ~LoginActive(l) => ~LoginActive(l)']_vars

(* A finished logout ends access through every token of that sign-in, the    *)
(* older ones and those a racing refresh had issued (session-state.ts:14-16).*)
LoggedOutStaysOut ==
  \A s \in Rows : Login(s) \in signedOut => Resolve(s) = None

(* The recovery from a replayed token runs only against a sign-in that is    *)
(* still active: a token of a device that was already ended, by its user or  *)
(* by anybody, cannot sign the retained devices out (auth.ts:842-848).       *)
ReplaySparesRetained ==
  (\E s \in Ids : Live(s) /\ rows'[s].reason = "reuse") =>
    \E r \in Requests : /\ request[r].op = "replay" /\ request'[r] = NoRequest
                        /\ LoginActive(Login(request[r].row))

(* Ending the other sessions never ends the one that asked, also when that   *)
(* device has rotated its token since it was authenticated.                  *)
CallerKept ==
  \A r \in Requests, l \in Rows :
    /\ request[r].op = "revokeOthers" /\ request'[r] = NoRequest
    /\ l = Login(request[r].row) /\ LoginActive(l)
    => LoginActive(l)'

(* What signs devices out reaches what it means and no more: a logout ends   *)
(* the whole sign-in, and neither a replayed token nor the request to end    *)
(* the others ends the device that is in use (session-state.ts:14-16,        *)
(* auth.ts:842-848, sessions.ts:114).                                        *)
LogoutsAreExact == []LoggedOutStaysOut /\ [][ReplaySparesRetained /\ CallerKept]_vars

(* A reset link changes the password once, however many requests redeem it   *)
(* at the same time, and a newer link uses up the older one (auth.ts:524).   *)
LinkRedeemedOnce == account.changes + (IF link.open THEN 1 ELSE 0) <= link.number
=============================================================================
