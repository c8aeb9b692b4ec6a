--------------------------- MODULE SessionsProofs ---------------------------
(* Theorems about Sessions for any number of requests, rows and reset links. *)
(* Two facts carry the argument: of a sign-in's rows all but at most one are *)
(* rotated, and only a refresh that finds its row active under the lock adds *)
(* a row to a sign-in.  What a resolution returns is told from them by       *)
(* following its walk, with least counterexamples in place of an induction.  *)
EXTENDS Sessions, WellFoundedInduction, TLAPS

(* All rows of a sign-in but the last one of its chain are rotated. *)
ChainsDoNotFork ==
  \A s, t \in Rows :
    /\ Login(s) = Login(t)
    /\ rows[s].reason # "rotated" /\ rows[t].reason # "rotated"
    => s = t

(* A sign-in is named by a row that exists, so a new one is not an old one. *)
LoginsAreRows ==
  /\ \A s \in Rows : Login(s) \in Rows
  /\ \A s \in Ids \ Rows : rows[s].reason = "unused"

Inv == TypeOK /\ ChainsDoNotFork /\ LoginsAreRows /\ LinkRedeemedOnce

-----------------------------------------------------------------------------
(* Facts about the helpers. *)

LEMMA RowsAreIds == ASSUME TypeOK PROVE Rows \subseteq Ids
BY SMTT(40), SessionsAssumption DEF TypeOK, Rows, Ids

LEMMA ResolveFacts ==
  ASSUME NEW s
  PROVE  Resolve(s) # None => Resolve(s) \in Rows /\ Active(Resolve(s))
BY DEF Resolve

LEMMA RequestType ==
  ASSUME TypeOK, NEW r \in Requests
  PROVE  /\ \A new \in Request : Start(r, new) => request' \in [Requests -> Request]
         /\ \A op \in Ops : Step(r, op) => request' \in [Requests -> Request]
         /\ Answer(r) => request' \in [Requests -> Request]
<1>1. request \in [Requests -> Request] /\ NoRequest \in Request
  BY SessionsAssumption DEF TypeOK, Request, NoRequest, Ops
<1>2. ASSUME NEW op \in Ops, Step(r, op)
      PROVE  request' \in [Requests -> Request]
  <2>1. [request[r] EXCEPT !.op = op] \in Request
    BY <1>1 DEF Request
  <2> QED
    BY <1>1, <1>2, <2>1 DEF Step
<1> QED
  BY <1>1, <1>2 DEF Start, Answer

(* Ending rows keeps the invariant: it changes no login and unrotates none. *)
LEMMA RevokeKeeps ==
  ASSUME Inv, NEW S, NEW reason \in {"reuse", "revoked"}, Revoke(S, reason), UNCHANGED created
  PROVE  /\ rows' \in [Ids -> Row]
         /\ ChainsDoNotFork' /\ LoginsAreRows'
<1>1. rows \in [Ids -> Row]
  BY DEF Inv, TypeOK
<1>2. \A s \in Ids : rows'[s] = IF s \in S /\ Live(s)
                                THEN [rows[s] EXCEPT !.reason = reason] ELSE rows[s]
  BY DEF Revoke
<1>3. rows' \in [Ids -> Row]
  BY <1>1 DEF Revoke, Row
<1>4. \A s \in Ids : /\ rows'[s].login = rows[s].login
                     /\ rows'[s].reason # "rotated" => rows[s].reason # "rotated"
                     /\ rows[s].reason = "unused" => rows'[s].reason = "unused"
  BY <1>1, <1>2 DEF Row, Live
<1>5. Rows' = Rows /\ Rows \subseteq Ids
  BY RowsAreIds DEF Rows, Inv
<1> QED
  BY <1>3, <1>4, <1>5 DEF Inv, ChainsDoNotFork, LoginsAreRows, Login


(* Any action that leaves the rows, or ends some, and keeps to the types. *)
LEMMA EndingStep ==
  ASSUME Inv,
         UNCHANGED rows \/ (\E S : \E reason \in {"reuse", "revoked"} : Revoke(S, reason)),
         UNCHANGED created, expired' \in 0..created,
         account' \in [status : {"active", "suspended", "deleted"}, changes : 0..MaxResets],
         link' \in [number : 0..MaxResets, open : BOOLEAN],
         LinkRedeemedOnce',
         request' \in [Requests -> Request],
         signedOut' \subseteq Ids
  PROVE  Inv'
<1>1. rows' \in [Ids -> Row] /\ ChainsDoNotFork' /\ LoginsAreRows'
  <2>1. CASE UNCHANGED rows
    BY <2>1 DEF Inv, TypeOK, ChainsDoNotFork, LoginsAreRows, Login, Rows
  <2>2. CASE (\E S : \E reason \in {"reuse", "revoked"} : Revoke(S, reason))
    BY <2>2, RevokeKeeps
  <2> QED
    BY <2>1, <2>2
<1> QED
  BY <1>1 DEF Inv, TypeOK

(* A new row is the first of its sign-in, or takes the place of the one row *)
(* of its sign-in that was not rotated.                                      *)
LEMMA NewRowStep ==
  ASSUME Inv, NEW r \in Requests, Open(r) \/ Rotate(r)
  PROVE  Inv'
<1> DEFINE new == created + 1
<1>1. /\ new \in Ids /\ new \notin Rows /\ created' = new /\ created \in Nat
      /\ Rows \subseteq Ids /\ Rows' = Rows \cup {new} /\ Rows' \subseteq Ids
  <2>1. /\ created < MaxSessions /\ created' = created + 1
        /\ created \in 0..MaxSessions /\ MaxSessions \in Nat
    BY SessionsAssumption DEF Inv, TypeOK, Open, Rotate
  <2> QED
    BY <2>1 DEF Rows, Ids
<1>2. /\ request' \in [Requests -> Request]
      /\ UNCHANGED <<account, link, expired, signedOut>> /\ LinkRedeemedOnce'
      /\ created' \in 0..MaxSessions /\ expired' \in 0..created'
  <2>0. /\ created < MaxSessions /\ created' = created + 1
        /\ created \in 0..MaxSessions /\ MaxSessions \in Nat /\ expired \in 0..created
    BY SessionsAssumption DEF Inv, TypeOK, Open, Rotate
  <2>1. Answer(r) /\ UNCHANGED <<account, link, expired, signedOut>> /\ TypeOK /\ LinkRedeemedOnce'
    BY DEF Inv, Open, Rotate, LinkRedeemedOnce
  <2> QED
    BY <2>0, <2>1, RequestType
<1>3. CASE Open(r)
  <2>1. /\ rows' \in [Ids -> Row]
        /\ rows'[new] = [reason |-> "live", next |-> None, login |-> new]
        /\ \A s \in Ids \ {new} : rows'[s] = rows[s]
    BY <1>1, <1>3 DEF Inv, TypeOK, Open, Row
  <2>2. ChainsDoNotFork' /\ LoginsAreRows'
    BY <1>1, <2>1 DEF Inv, ChainsDoNotFork, LoginsAreRows, Login
  <2> QED
    BY <1>1, <1>2, <2>1, <2>2 DEF Inv, TypeOK
<1>4. CASE Rotate(r)
  <2> DEFINE t == request[r].row
  <2>1. t \in Rows /\ rows[t].reason = "live" /\ Login(t) \in Rows
    <3>1. t \in Ids \cup {None} /\ Active(t) /\ expired \in Nat
      BY <1>4 DEF Inv, TypeOK, Request, Rotate
    <3>2. t \in Ids /\ rows[t].reason = "live"
      BY <3>1 DEF Active, Live, None
    <3> QED
      BY <3>2 DEF Inv, LoginsAreRows
  <2>2. /\ rows' \in [Ids -> Row]
        /\ rows'[new] = [reason |-> "live", next |-> None, login |-> Login(t)]
        /\ rows'[t].reason = "rotated" /\ rows'[t].login = rows[t].login
        /\ \A s \in Ids \ {new, t} : rows'[s] = rows[s]
    <3>1. rows \in [Ids -> Row] /\ t \in Ids /\ t # new /\ Login(t) \in Ids
      BY <1>1, <2>1 DEF Inv, TypeOK
    <3>2. rows' = [rows EXCEPT
            ![new] = [reason |-> "live", next |-> None, login |-> Login(t)],
            ![t].reason = "rotated", ![t].next = new]
      BY <1>4 DEF Rotate
    <3> QED
      BY <1>1, <3>1, <3>2 DEF Row
  <2>3. LoginsAreRows'
    BY <1>1, <2>1, <2>2 DEF Inv, LoginsAreRows, Login
  <2>4. ChainsDoNotFork'
    <3> SUFFICES ASSUME NEW s \in Rows', NEW u \in Rows',
                        rows'[s].login = rows'[u].login,
                        rows'[s].reason # "rotated", rows'[u].reason # "rotated"
                 PROVE  s = u
      BY DEF ChainsDoNotFork, Login
    <3>1. \A v \in Rows : v # t => rows'[v] = rows[v]
      BY <1>1, <2>2
    <3>2. \A v \in Rows : v # t /\ rows[v].login = rows[t].login => rows[v].reason = "rotated"
      BY <2>1 DEF Inv, ChainsDoNotFork, Login
    <3> QED
      BY <1>1, <2>1, <2>2, <3>1, <3>2 DEF Inv, ChainsDoNotFork, Login
  <2> QED
    BY <1>1, <1>2, <2>2, <2>3, <2>4 DEF Inv, TypeOK
<1> QED
  BY <1>3, <1>4

LEMMA RequestStep ==
  ASSUME Inv, NEW r \in Requests, SignIn(r) \/ Refresh(r) \/ Manage(r) \/ Reset(r)
  PROVE  Inv'
<1>0. TypeOK /\ Rows \subseteq Ids /\ NoRequest \in Request /\ LinkRedeemedOnce
  BY RowsAreIds, SessionsAssumption DEF Inv, NoRequest, Request, Ops
<1>1. CASE Open(r) \/ Rotate(r)
  BY <1>1, NewRowStep
<1>2. CASE \/ Prove(r) \/ Admit(r) \/ RefreshRead(r) \/ RefreshAdmit(r)
           \/ RotateRefused(r) \/ Authenticate(r) \/ ResetRead(r) \/ RedeemRefused(r)
  <2>1. request' \in [Requests -> Request]
    <3>1. CASE Prove(r) \/ Admit(r) \/ RefreshAdmit(r) \/ RotateRefused(r) \/ RedeemRefused(r)
      <4>1. [NoRequest EXCEPT !.op = "login"] \in Request /\ {"admitted", "rotateAdmitted"} \subseteq Ops
        BY SMTT(40), <1>0 DEF Request, Ops
      <4> QED
        BY <1>0, <3>1, <4>1, RequestType
           DEF Prove, Admit, RefreshAdmit, RotateRefused, RedeemRefused
    <3>2. CASE RefreshRead(r) \/ ResetRead(r)
      <4>1. \A t \in Rows : /\ [NoRequest EXCEPT !.op = "rotate", !.row = t] \in Request
                            /\ [NoRequest EXCEPT !.op = "replay", !.row = t] \in Request
        BY <1>0 DEF Request, Ops
      <4>2. [NoRequest EXCEPT !.op = "reset", !.link = link.number] \in Request
        BY <1>0 DEF Request, Ops, TypeOK
      <4> QED
        BY <1>0, <3>2, <4>1, <4>2, RequestType DEF RefreshRead, ResetRead
    <3>3. CASE Authenticate(r)
      <4>1. PICK s \in Rows : Authenticate(r)!2!(s)
        BY <3>3 DEF Authenticate
      <4>2. Resolve(s) \in Ids
        BY <1>0, <4>1, ResolveFacts
      <4>3. /\ \A t \in Rows : [NoRequest EXCEPT !.op = "revokeOne", !.row = Resolve(s), !.target = t] \in Request
            /\ [NoRequest EXCEPT !.op = "revokeOthers", !.row = Resolve(s)] \in Request
        BY <1>0, <4>2 DEF Request, Ops
      <4> QED
        BY ZenonT(60), <1>0, <4>1, <4>3, RequestType
    <3> QED
      BY <1>2, <3>1, <3>2, <3>3
  <2>2. UNCHANGED <<account, link, rows, created, expired, signedOut>> /\ LinkRedeemedOnce'
    BY <1>0, <1>2 DEF Prove, Admit, RefreshRead, RefreshAdmit, RotateRefused, Authenticate, ResetRead,
       RedeemRefused, LinkRedeemedOnce
  <2> QED
    BY <1>0, <2>1, <2>2, EndingStep DEF TypeOK
<1>3. CASE Replay(r) \/ RevokeOne(r) \/ RevokeOthers(r)
  <2>1. /\ Answer(r) /\ UNCHANGED <<account, link, created, expired, signedOut>>
        /\ UNCHANGED rows \/ (\E S : \E reason \in {"reuse", "revoked"} : Revoke(S, reason))
    BY <1>3 DEF Replay, RevokeOne, RevokeOthers
  <2>2. LinkRedeemedOnce'
    BY <1>0, <2>1 DEF LinkRedeemedOnce
  <2> QED
    BY <1>0, <2>1, <2>2, RequestType, EndingStep DEF TypeOK
<1>4. CASE Redeem(r)
  <2>1. /\ Answer(r) /\ UNCHANGED <<created, expired, signedOut>> /\ Revoke(Ids, "revoked")
        /\ link.open
        /\ account' = [account EXCEPT !.changes = @ + 1] /\ link' = [link EXCEPT !.open = FALSE]
    BY <1>4 DEF Redeem
  <2>2. /\ account' \in [status : {"active", "suspended", "deleted"}, changes : 0..MaxResets]
        /\ link' \in [number : 0..MaxResets, open : BOOLEAN]
    <3>1. /\ account \in [status : {"active", "suspended", "deleted"}, changes : 0..MaxResets]
          /\ link \in [number : 0..MaxResets, open : BOOLEAN]
      BY <1>0 DEF TypeOK
    <3>2. account.changes + 1 \in 0..MaxResets
      BY <1>0, <2>1, <3>1, SessionsAssumption DEF LinkRedeemedOnce
    <3>3. account' \in [status : {"active", "suspended", "deleted"}, changes : 0..MaxResets]
      BY <2>1, <3>1, <3>2
    <3>4. link' \in [number : 0..MaxResets, open : BOOLEAN]
      BY <2>1, <3>1
    <3> QED
      BY <3>3, <3>4
  <2>3. /\ request' \in [Requests -> Request]
        /\ expired' \in 0..created /\ signedOut' \subseteq Ids
    BY <1>0, <2>1, RequestType DEF TypeOK
  <2>4. LinkRedeemedOnce'
    <3>1. /\ account \in [status : {"active", "suspended", "deleted"}, changes : 0..MaxResets]
          /\ link \in [number : 0..MaxResets, open : BOOLEAN]
      BY <1>0 DEF TypeOK
    <3>2. account'.changes = account.changes + 1 /\ link'.open = FALSE /\ link'.number = link.number
      BY <2>1, <3>1
    <3> QED
      BY <1>0, <2>1, <3>1, <3>2, SessionsAssumption DEF LinkRedeemedOnce
  <2> QED
    BY <2>1, <2>2, <2>3, <2>4, EndingStep
<1> QED
  BY <1>1, <1>2, <1>3, <1>4 DEF SignIn, Refresh, Manage, Reset

LEMMA AccountStep ==
  ASSUME Inv, \/ \E t \in Rows : Logout(t)
              \/ \E status \in {"active", "suspended", "deleted"} : SetStatus(status)
              \/ Forgot \/ LinkLapses \/ ChangeRole \/ Expire
  PROVE  Inv'
<1>0. TypeOK /\ Rows \subseteq Ids /\ LinkRedeemedOnce
  BY RowsAreIds DEF Inv
<1>1. ASSUME NEW t \in Rows, Logout(t) PROVE Inv'
  <2>1. Login(t) \in Ids /\ LinkRedeemedOnce'
    BY <1>0, <1>1 DEF Inv, LoginsAreRows, Logout, LinkRedeemedOnce
  <2> QED
    BY <1>0, <1>1, <2>1, EndingStep DEF TypeOK, Logout
<1>2. ASSUME NEW status \in {"active", "suspended", "deleted"}, SetStatus(status) PROVE Inv'
  <2>1. account' \in [status : {"active", "suspended", "deleted"}, changes : 0..MaxResets]
    BY <1>0, <1>2 DEF SetStatus, TypeOK
  <2>2. LinkRedeemedOnce'
    <3>1. account \in [status : {"active", "suspended", "deleted"}, changes : 0..MaxResets]
      BY <1>0 DEF TypeOK
    <3> QED
      BY <1>0, <1>2, <3>1 DEF SetStatus, LinkRedeemedOnce
  <2> QED
    BY <1>0, <1>2, <2>1, <2>2, EndingStep DEF TypeOK, SetStatus
<1>3. CASE Forgot \/ LinkLapses
  <2>1. link' \in [number : 0..MaxResets, open : BOOLEAN]
    <3>1. link \in [number : 0..MaxResets, open : BOOLEAN]
      BY <1>0 DEF TypeOK
    <3>2. CASE Forgot
      <4>1. link' = [number |-> link.number + 1, open |-> TRUE] /\ link.number < MaxResets
        BY <3>2 DEF Forgot
      <4>2. link.number + 1 \in 0..MaxResets
        BY <3>1, <4>1, SessionsAssumption
      <4> QED
        BY <4>1, <4>2
    <3>3. CASE LinkLapses
      BY <3>1, <3>3 DEF LinkLapses
    <3> QED
      BY <1>3, <3>2, <3>3
  <2>2. /\ UNCHANGED <<account, rows, created, expired, request, signedOut>>
        /\ expired \in 0..created /\ request \in [Requests -> Request] /\ signedOut \subseteq Ids
        /\ account \in [status : {"active", "suspended", "deleted"}, changes : 0..MaxResets]
    BY <1>0, <1>3 DEF TypeOK, Forgot, LinkLapses
  <2>3. LinkRedeemedOnce'
    <3>1. link \in [number : 0..MaxResets, open : BOOLEAN] /\ account.changes \in Nat /\ MaxResets \in Nat
      BY <1>0, SessionsAssumption DEF TypeOK
    <3>2. link'.number \in Nat /\ link.number \in Nat
      BY <2>1, <3>1
    <3>3. CASE Forgot
      BY <1>0, <3>1, <3>2, <3>3 DEF Forgot, LinkRedeemedOnce
    <3>4. CASE LinkLapses
      <4>1. link'.open = FALSE /\ link'.number = link.number /\ link.open /\ UNCHANGED account
        BY <3>1, <3>4 DEF LinkLapses
      <4> QED
        BY <1>0, <3>1, <3>2, <4>1 DEF LinkRedeemedOnce
    <3> QED
      BY <1>3, <3>3, <3>4
  <2> QED
    BY <2>1, <2>2, <2>3, EndingStep
<1>4. CASE ChangeRole
  <2>1. LinkRedeemedOnce'
    BY <1>0, <1>4 DEF ChangeRole, LinkRedeemedOnce
  <2> QED
    BY <1>0, <1>4, <2>1, EndingStep DEF TypeOK, ChangeRole
<1>5. CASE Expire
  <2>1. expired' \in 0..created /\ LinkRedeemedOnce'
    BY <1>0, <1>5, SessionsAssumption DEF TypeOK, Expire, LinkRedeemedOnce
  <2> QED
    BY <1>0, <1>5, <2>1, EndingStep DEF TypeOK, Expire
<1> QED
  BY <1>1, <1>2, <1>3, <1>4, <1>5

(* Inv holds of every reachable state. *)
THEOREM Invariance == Spec => []Inv
<1>1. Init => Inv
  BY SessionsAssumption DEF Init, Inv, TypeOK, ChainsDoNotFork, LoginsAreRows, LinkRedeemedOnce,
     Rows, Row, Request, NoRequest, Ops, Ids
<1>2. Inv /\ [Next]_vars => Inv'
  <2> SUFFICES ASSUME Inv, [Next]_vars PROVE Inv'
    OBVIOUS
  <2>1. CASE UNCHANGED vars
    BY <2>1 DEF vars, Inv, TypeOK, ChainsDoNotFork, LoginsAreRows, LinkRedeemedOnce, Login, Rows
  <2>2. CASE Next
    BY <2>2, RequestStep, AccountStep DEF Next
  <2> QED
    BY <2>1, <2>2
<1> QED
  BY <1>1, <1>2, PTL DEF Spec

(* However refreshes of one cookie race with each other and with everything *)
(* that ends sessions, a sign-in has one session at most that is not ended. *)
THEOREM OneSessionPerLogin == Spec => []OneLivePerLogin
<1>1. Inv => OneLivePerLogin
  BY DEF Inv, ChainsDoNotFork, OneLivePerLogin, Live
<1> QED
  BY <1>1, Invariance, PTL

(* Requests that race to redeem one link, and links that overtake each      *)
(* other, never change the password more often than links were sent.        *)
THEOREM LinksAreSingleUse == Spec => []LinkRedeemedOnce
BY Invariance, PTL DEF Inv

-----------------------------------------------------------------------------
(* What has ended stays ended. *)

(* Every step adds one row, or leaves the rows and ends some of them. *)
LEMMA StepKinds ==
  ASSUME Inv, [Next]_vars
  PROVE  \/ \E r \in Requests : Open(r) \/ Rotate(r)
         \/ /\ UNCHANGED created /\ expired' \in Nat /\ expired \in Nat /\ expired <= expired'
            /\ \/ UNCHANGED rows
               \/ \E S : \E reason \in {"reuse", "revoked"} : Revoke(S, reason)
<1>0. expired \in Nat
  BY SessionsAssumption DEF Inv, TypeOK
<1>1. CASE UNCHANGED vars
  BY <1>0, <1>1 DEF vars
<1>2. ASSUME NEW r \in Requests, SignIn(r) \/ Refresh(r) \/ Manage(r) \/ Reset(r), ~Open(r), ~Rotate(r)
      PROVE  /\ UNCHANGED <<created, expired>>
             /\ \/ UNCHANGED rows
                \/ \E S : \E reason \in {"reuse", "revoked"} : Revoke(S, reason)
  <2>1. CASE SignIn(r)
    BY SMTT(40), <1>2, <2>1 DEF SignIn, Prove, Admit
  <2>2. CASE Refresh(r)
    BY ZenonT(60), <1>2, <2>2 DEF Refresh, RefreshRead, RefreshAdmit, RotateRefused, Replay
  <2>3. CASE Manage(r)
    BY <2>3 DEF Manage, Authenticate, RevokeOne, RevokeOthers
  <2>4. CASE Reset(r)
    BY <2>4 DEF Reset, ResetRead, Redeem, RedeemRefused
  <2> QED
    BY <1>2, <2>1, <2>2, <2>3, <2>4
<1>3. ASSUME NEW t \in Rows, Logout(t)
      PROVE  UNCHANGED <<created, expired>> /\ \E S : Revoke(S, "revoked")
  BY <1>3 DEF Logout
<1>4. ASSUME NEW status \in {"active", "suspended", "deleted"}, SetStatus(status)
      PROVE  UNCHANGED <<created, expired>> /\ (UNCHANGED rows \/ \E S : Revoke(S, "revoked"))
  BY <1>4 DEF SetStatus
<1>5. CASE Forgot \/ LinkLapses \/ ChangeRole
  BY <1>0, <1>5 DEF Forgot, LinkLapses, ChangeRole
<1>6. CASE Expire
  BY <1>0, <1>6 DEF Expire
<1>7. CASE \E r \in Requests : SignIn(r) \/ Refresh(r) \/ Manage(r) \/ Reset(r)
  <2>1. PICK r \in Requests : SignIn(r) \/ Refresh(r) \/ Manage(r) \/ Reset(r)
    BY <1>7
  <2>2. CASE Open(r) \/ Rotate(r)
    BY <2>2
  <2>3. CASE ~Open(r) /\ ~Rotate(r)
    BY <1>0, <1>2, <2>1, <2>3
  <2> QED
    BY <2>2, <2>3
<1>8. CASE \E t \in Rows : Logout(t)
  BY <1>0, <1>3, <1>8
<1>9. CASE \E status \in {"active", "suspended", "deleted"} : SetStatus(status)
  BY <1>0, <1>4, <1>9
<1>10. Next \/ UNCHANGED vars
  OBVIOUS
<1> QED
  BY <1>1, <1>5, <1>6, <1>7, <1>8, <1>9, <1>10 DEF Next

(* A sign-in with no active session never has one again. *)
LEMMA EndedStep ==
  ASSUME Inv, [Next]_vars, NEW l \in Rows, ~LoginActive(l)
  PROVE  ~LoginActive(l)'
<1>0. /\ rows \in [Ids -> Row] /\ Rows \subseteq Ids /\ created \in Nat /\ expired \in Nat
      /\ \A s \in Rows : rows[s].login = l => ~(rows[s].reason = "live" /\ s > expired)
  BY RowsAreIds, SessionsAssumption DEF Inv, TypeOK, LoginActive, Active, Live, Login
<1> SUFFICES ASSUME NEW s \in Rows', rows'[s].login = l, rows'[s].reason = "live", s > expired'
             PROVE  FALSE
  BY DEF LoginActive, Active, Live, Login
<1>1. CASE /\ UNCHANGED created /\ expired' \in Nat /\ expired <= expired'
           /\ \/ UNCHANGED rows
              \/ \E S : \E reason \in {"reuse", "revoked"} : Revoke(S, reason)
  <2>1. s \in Rows /\ s \in Nat /\ s > expired
    BY <1>0, <1>1 DEF Rows
  <2>2. rows[s].login = l /\ rows[s].reason = "live"
    <3>1. CASE UNCHANGED rows
      BY <3>1
    <3>2. ASSUME NEW S, NEW reason \in {"reuse", "revoked"}, Revoke(S, reason)
          PROVE  rows[s].login = l /\ rows[s].reason = "live"
      <4>1. rows'[s] = IF s \in S /\ Live(s)
                       THEN [rows[s] EXCEPT !.reason = reason] ELSE rows[s]
        BY <1>0, <2>1, <3>2 DEF Revoke
      <4>2. rows[s] \in Row
        BY <1>0, <2>1
      <4> QED
        BY <4>1, <4>2 DEF Row, Live
    <3> QED
      BY <1>1, <3>1, <3>2
  <2> QED
    BY <1>0, <2>1, <2>2
<1>2. ASSUME NEW r \in Requests, Open(r) PROVE FALSE
  <2>1. created < MaxSessions /\ created + 1 \in Ids /\ Rows' = Rows \cup {created + 1} /\ l # created + 1
    BY <1>0, <1>2, SessionsAssumption DEF Open, Rows, Ids
  <2>2. s # created + 1
    BY <1>0, <1>2, <2>1 DEF Open
  <2>3. s \in Rows /\ rows'[s] = rows[s] /\ expired' = expired
    BY <1>0, <1>2, <2>1, <2>2 DEF Open
  <2> QED
    BY <1>0, <2>3
<1>3. ASSUME NEW r \in Requests, Rotate(r) PROVE FALSE
  <2> DEFINE t == request[r].row
  <2>1. t \in Rows /\ rows[t].reason = "live" /\ t > expired
    <3>1. t \in Ids \cup {None} /\ Active(t) /\ expired \in Nat
      BY <1>0, <1>3 DEF Inv, TypeOK, Request, Rotate
    <3>2. t \in Ids /\ rows[t].reason = "live" /\ t > expired
      BY <3>1 DEF Active, Live, None
    <3> QED
      BY <3>2 DEF Inv, LoginsAreRows
  <2>2. created < MaxSessions /\ created + 1 \in Ids /\ Rows' = Rows \cup {created + 1}
    BY <1>0, <1>3, SessionsAssumption DEF Rotate, Rows, Ids
  <2>3. rows' = [rows EXCEPT
          ![created + 1] = [reason |-> "live", next |-> None, login |-> Login(t)],
          ![t].reason = "rotated", ![t].next = created + 1]
    BY <1>3 DEF Rotate
  <2>4. s # t
    BY <1>0, <2>1, <2>3 DEF Row, Rows
  <2>5. s # created + 1
    <3>1. rows[t].login # l
      BY <1>0, <2>1
    <3>2. created + 1 # t
      BY <1>0, <2>1 DEF Rows
    <3>3. rows'[created + 1].login = rows[t].login
      BY <1>0, <2>2, <2>3, <3>2 DEF Login
    <3> QED
      BY <3>1, <3>3
  <2>6. s \in Rows /\ rows'[s] = rows[s] /\ expired' = expired
    BY <1>0, <1>3, <2>2, <2>3, <2>4, <2>5 DEF Rotate
  <2> QED
    BY <1>0, <2>6
<1> QED
  BY <1>1, <1>2, <1>3, StepKinds

(* No refresh that was already on its way revives a sign-in: when its last  *)
(* session has been ended by logout, by revocation, by a password reset, by *)
(* an administrator or by time, it never has an active one again.           *)
THEOREM EndingIsFinal == Spec => EndedStaysEnded
<1>1. Inv /\ [Next]_vars => [\A l \in Rows : ~LoginActive(l) => ~LoginActive(l)']_vars
  BY EndedStep
<1> QED
  BY <1>1, Invariance, PTL DEF Spec, EndedStaysEnded

-----------------------------------------------------------------------------
(* What a resolution finds.                                                *)

LEMMA LeastNumber ==
  ASSUME NEW S \in SUBSET Nat, S # {}
  PROVE  \E n \in S : \A m \in S : n <= m
<1>1. IsWellFoundedOn(OpToRel(<, Nat), Nat)
  BY NatLessThanWellFounded
<1>2. PICK n \in S : \A m \in Nat : <<m, n>> \in OpToRel(<, Nat) => m \notin S
  BY <1>1, WFMin
<1>3. \A m \in S : ~(m < n)
  BY <1>2 DEF OpToRel
<1> QED
  BY <1>3

(* A chain leads from older to newer rows of one sign-in. *)
ChainsGoOn ==
  \A s \in Rows : rows[s].reason = "rotated" =>
    rows[s].next \in Rows /\ s < rows[s].next /\ Login(rows[s].next) = Login(s)

WalkTo(s, k, f) ==
  /\ f \in [1..k -> Rows] /\ f[1] = s
  /\ \A n \in 2..k : f[n] = Successor(f[n - 1])

LEMMA SuccessorFacts ==
  ASSUME TypeOK, ChainsGoOn, NEW s \in Rows
  PROVE  /\ Successor(s) \in Rows /\ Login(Successor(s)) = Login(s) /\ s \in Nat /\ Successor(s) \in Nat
         /\ rows[s].reason = "rotated" => s < Successor(s)
         /\ rows[s].reason # "rotated" => Successor(s) = s
<1>1. Rows \subseteq Nat
  BY SessionsAssumption DEF TypeOK, Rows
<1> QED
  BY <1>1 DEF Successor, ChainsGoOn

LEMMA WalksExist ==
  ASSUME TypeOK, ChainsGoOn, NEW s \in Rows
  PROVE  \A k \in Nat \ {0} : \E f : WalkTo(s, k, f)
<1> DEFINE Failing == {k \in Nat \ {0} : ~\E f : WalkTo(s, k, f)}
<1> SUFFICES ASSUME Failing # {} PROVE FALSE
  OBVIOUS
<1>1. PICK k \in Failing : \A m \in Failing : k <= m
  BY LeastNumber
<1>2. CASE k = 1
  <2>1. WalkTo(s, 1, [n \in 1..1 |-> s])
    BY DEF WalkTo
  <2> QED
    BY <1>1, <1>2, <2>1
<1>3. CASE k # 1
  <2>1. k - 1 \in Nat \ {0} /\ k - 1 \notin Failing /\ k \in Nat
    BY <1>1, <1>3
  <2>2. PICK f : WalkTo(s, k - 1, f)
    BY <2>1
  <2> DEFINE t == Successor(f[k - 1])
             g == [n \in 1..k |-> IF n = k THEN t ELSE f[n]]
  <2>3. t \in Rows
    BY <2>1, <2>2, SuccessorFacts DEF WalkTo
  <2> HIDE DEF t
  <2>4. g \in [1..k -> Rows]
    BY <2>1, <2>2, <2>3 DEF WalkTo
  <2>5. g[1] = s
    BY <2>1, <2>2 DEF WalkTo
  <2>6. ASSUME NEW n \in 2..k PROVE g[n] = Successor(g[n - 1])
    <3>1. g[n - 1] = f[n - 1]
      BY <2>1
    <3>2. CASE n = k
      BY <2>1, <3>1, <3>2 DEF t
    <3>3. CASE n # k
      BY <2>1, <2>2, <3>1, <3>3 DEF WalkTo
    <3> QED
      BY <3>2, <3>3
  <2>7. WalkTo(s, k, g)
    BY <2>4, <2>5, <2>6 DEF WalkTo
  <2> QED
    BY <1>1, <2>7
<1> QED
  BY <1>2, <1>3

LEMMA WalkIsThere ==
  ASSUME TypeOK, ChainsGoOn, NEW s \in Rows
  PROVE  WalkTo(s, ChainLimit, Walk(s))
<1> DEFINE Is(f) == f = [n \in 1..ChainLimit |-> IF n = 1 THEN s ELSE Successor(f[n - 1])]
<1>0. ChainLimit \in Nat \ {0}
  BY SessionsAssumption
<1>1. PICK f : WalkTo(s, ChainLimit, f)
  BY <1>0, WalksExist
<1>2. Is(f)
  <2>1. f = [n \in 1..ChainLimit |-> f[n]]
    BY <1>1 DEF WalkTo
  <2>2. \A n \in 1..ChainLimit : f[n] = IF n = 1 THEN s ELSE Successor(f[n - 1])
    BY <1>0, <1>1 DEF WalkTo
  <2> QED
    BY <2>1, <2>2
<1>3. Walk(s) = CHOOSE g : Is(g)
  BY DEF Walk
<1>4. Is(Walk(s))
  <2> HIDE DEF Is
  <2> QED
    BY <1>2, <1>3
<1> DEFINE w == Walk(s)
<1>5. w = [n \in 1..ChainLimit |-> IF n = 1 THEN s ELSE Successor(w[n - 1])]
  BY <1>4
<1> HIDE DEF w
<1>6. w[1] = s /\ \A n \in 2..ChainLimit : w[n] = Successor(w[n - 1])
  BY <1>0, <1>5
<1> SUFFICES w \in [1..ChainLimit -> Rows]
  BY <1>6 DEF WalkTo, w
<1> DEFINE Outside == {n \in 1..ChainLimit : w[n] \notin Rows}
<1> SUFFICES ASSUME Outside # {} PROVE FALSE
  BY <1>5
<1>7. PICK n \in Outside : \A m \in Outside : n <= m
  <2>1. Outside \subseteq Nat
    BY <1>0
  <2> HIDE DEF Outside
  <2> QED
    BY <2>1, LeastNumber
<1>8. n # 1 /\ n - 1 \in 1..ChainLimit /\ n - 1 \notin Outside
  BY <1>0, <1>6, <1>7
<1> QED
  BY <1>0, <1>6, <1>7, <1>8, SuccessorFacts

(* The walk stays within the sign-in, and gets nowhere only at its end. *)
LEMMA WalkFacts ==
  ASSUME TypeOK, ChainsGoOn, NEW s \in Rows
  PROVE  \A n \in 1..ChainLimit :
           /\ Walk(s)[n] \in Rows /\ Login(Walk(s)[n]) = Login(s)
           /\ rows[Walk(s)[n]].reason = "rotated" => Walk(s)[n] >= n
<1> DEFINE w == Walk(s)
           Fine(n) == Login(w[n]) = Login(s) /\ (rows[w[n]].reason = "rotated" => w[n] >= n)
           Odd == {n \in 1..ChainLimit : ~Fine(n)}
<1>0. ChainLimit \in Nat \ {0} /\ Rows \subseteq Nat \ {0}
  BY SessionsAssumption DEF TypeOK, Rows
<1>1. /\ w \in [1..ChainLimit -> Rows] /\ w[1] = s
      /\ \A n \in 2..ChainLimit : w[n] = Successor(w[n - 1])
  BY WalkIsThere DEF WalkTo
<1> HIDE DEF w
<1>2. Odd = {}
  <2> SUFFICES ASSUME Odd # {} PROVE FALSE
    OBVIOUS
  <2>1. PICK n \in Odd : \A m \in Odd : n <= m
    <3>1. Odd \subseteq Nat
      BY <1>0
    <3> HIDE DEF Odd
    <3> QED
      BY <3>1, LeastNumber
  <2>2. CASE n = 1
    BY <1>0, <1>1, <2>1, <2>2
  <2>3. CASE n # 1
    <3>1. n - 1 \in 1..ChainLimit /\ n \in 2..ChainLimit /\ n - 1 \notin Odd
      BY <1>0, <2>1, <2>3
    <3>2. Fine(n - 1) /\ w[n - 1] \in Rows /\ w[n] = Successor(w[n - 1])
      BY <1>1, <3>1
    <3>3. /\ Login(w[n]) = Login(w[n - 1]) /\ w[n] \in Nat /\ w[n - 1] \in Nat
          /\ rows[w[n - 1]].reason = "rotated" => w[n - 1] < w[n]
          /\ rows[w[n - 1]].reason # "rotated" => w[n] = w[n - 1]
      BY <3>2, SuccessorFacts
    <3>4. rows[w[n]].reason = "rotated" => w[n] >= n
      BY <1>0, <3>1, <3>2, <3>3
    <3>5. Fine(n)
      BY <3>2, <3>3, <3>4
    <3> QED
      BY <2>1, <3>5
  <2> QED
    BY <2>2, <2>3
<1> QED
  BY <1>1, <1>2 DEF w

LEMMA ResolveStays ==
  ASSUME TypeOK, ChainsGoOn, NEW s \in Rows, Resolve(s) # None
  PROVE  Resolve(s) \in Rows /\ Active(Resolve(s)) /\ Login(Resolve(s)) = Login(s)
BY WalkFacts, SessionsAssumption DEF Resolve

(* A chain that is not longer than the limit is walked to its end, so a sign-in *)
(* that is active is found.                                                     *)
LEMMA ResolveFinds ==
  ASSUME Inv, ChainsGoOn, MaxSessions <= ChainLimit, NEW s \in Rows, LoginActive(Login(s))
  PROVE  Resolve(s) # None
<1> DEFINE leaf == Walk(s)[ChainLimit]
<1>0. /\ ChainLimit \in Nat \ {0} /\ MaxSessions \in Nat /\ created \in 0..MaxSessions
      /\ Rows \subseteq Nat \ {0} /\ \A t \in Rows : t <= created
  BY SessionsAssumption DEF Inv, TypeOK, Rows
<1>1. leaf \in Rows /\ Login(leaf) = Login(s) /\ (rows[leaf].reason = "rotated" => leaf >= ChainLimit)
  BY <1>0, WalkFacts DEF Inv
<1> HIDE DEF leaf
<1>2. rows[leaf].reason # "rotated"
  <2> SUFFICES ASSUME rows[leaf].reason = "rotated" PROVE FALSE
    OBVIOUS
  <2>1. leaf < rows[leaf].next /\ rows[leaf].next <= created /\ rows[leaf].next \in Nat
    BY <1>0, <1>1 DEF ChainsGoOn
  <2>2. leaf \in Nat /\ created \in Nat /\ leaf >= ChainLimit
    BY <1>0, <1>1
  <2> QED
    BY <1>0, <2>1, <2>2
<1>3. PICK a \in Rows : Login(a) = Login(s) /\ Active(a)
  BY DEF LoginActive
<1>4. rows[a].reason # "rotated"
  BY <1>3 DEF Active, Live
<1>5. a = leaf
  BY <1>1, <1>2, <1>3, <1>4 DEF Inv, ChainsDoNotFork
<1> QED
  BY <1>0, <1>3, <1>5 DEF Resolve, None, leaf

(* What a request resolved is a row, and stays one. *)
RequestsNameRows ==
  \A r \in Requests : request[r].op \in {"replay", "revokeOthers"} => request[r].row \in Rows

ChainInv == Inv /\ ChainsGoOn /\ RequestsNameRows

LEMMA ChainStep ==
  ASSUME ChainInv, [Next]_vars
  PROVE  ChainsGoOn'
<1>0. /\ rows \in [Ids -> Row] /\ Rows \subseteq Ids /\ created \in 0..MaxSessions /\ MaxSessions \in Nat
      /\ ChainsGoOn /\ Rows \subseteq Nat /\ Inv
  BY RowsAreIds, SessionsAssumption DEF ChainInv, Inv, TypeOK, Rows
<1>1. ASSUME UNCHANGED created, UNCHANGED rows \/ (\E S : \E reason \in {"reuse", "revoked"} : Revoke(S, reason))
      PROVE  ChainsGoOn'
  <2>1. Rows' = Rows
    BY <1>1 DEF Rows
  <2>2. \A s \in Rows : /\ rows'[s].login = rows[s].login
                        /\ rows'[s].reason = "rotated" => rows[s] = rows'[s]
    <3>1. CASE UNCHANGED rows
      BY <3>1
    <3>2. ASSUME NEW S, NEW reason \in {"reuse", "revoked"}, Revoke(S, reason), NEW s \in Rows
          PROVE  rows'[s].login = rows[s].login /\ (rows'[s].reason = "rotated" => rows[s] = rows'[s])
      <4>1. rows'[s] = IF s \in S /\ Live(s)
                       THEN [rows[s] EXCEPT !.reason = reason] ELSE rows[s]
        BY <1>0, <3>2 DEF Revoke
      <4>2. rows[s] \in Row
        BY <1>0
      <4> QED
        BY <4>1, <4>2 DEF Row, Live
    <3> QED
      BY <1>1, <3>1, <3>2
  <2>3. ASSUME NEW s \in Rows, rows'[s].reason = "rotated"
        PROVE  rows'[s].next \in Rows /\ s < rows'[s].next /\ rows'[rows'[s].next].login = rows'[s].login
    <3>1. rows[s] = rows'[s] /\ rows[s].next \in Rows /\ s < rows[s].next
          /\ rows[rows[s].next].login = rows[s].login
      BY <1>0, <2>2, <2>3 DEF ChainsGoOn, Login
    <3> QED
      BY <2>2, <3>1
  <2> QED
    BY <2>1, <2>3 DEF ChainsGoOn, Login
<1>2. ASSUME NEW r \in Requests, Open(r)
      PROVE  ChainsGoOn'
  <2>1. created < MaxSessions /\ created + 1 \in Ids /\ Rows' = Rows \cup {created + 1}
        /\ created + 1 \notin Rows
    BY <1>0, <1>2 DEF Open, Rows, Ids
  <2>2. /\ rows'[created + 1].reason = "live"
        /\ \A s \in Rows : rows'[s] = rows[s]
    BY <1>0, <1>2, <2>1 DEF Open
  <2>3. ASSUME NEW s \in Rows', rows'[s].reason = "rotated"
        PROVE  rows'[s].next \in Rows' /\ s < rows'[s].next /\ rows'[rows'[s].next].login = rows'[s].login
    <3>1. s \in Rows /\ rows'[s] = rows[s]
      BY <2>1, <2>2, <2>3
    <3>2. rows[s].next \in Rows /\ s < rows[s].next /\ rows[rows[s].next].login = rows[s].login
      BY <1>0, <2>3, <3>1 DEF ChainsGoOn, Login
    <3> QED
      BY <2>1, <2>2, <3>1, <3>2
  <2> QED
    BY <2>3 DEF ChainsGoOn, Login
<1>3. ASSUME NEW r \in Requests, Rotate(r)
      PROVE  ChainsGoOn'
  <2> DEFINE t == request[r].row
  <2>1. t \in Rows
    <3>1. t \in Ids \cup {None} /\ Active(t) /\ expired \in Nat
      BY <1>0, <1>3 DEF Inv, TypeOK, Request, Rotate
    <3>2. t \in Ids /\ rows[t].reason = "live" /\ t > expired
      BY <3>1 DEF Active, Live, None
    <3> QED
      BY <1>0, <3>2 DEF Inv, LoginsAreRows
  <2>2. created < MaxSessions /\ created + 1 \in Ids /\ Rows' = Rows \cup {created + 1}
        /\ created + 1 \notin Rows /\ t < created + 1
    BY <1>0, <1>3, <2>1 DEF Rotate, Rows, Ids
  <2>3. rows' = [rows EXCEPT
          ![created + 1] = [reason |-> "live", next |-> None, login |-> Login(t)],
          ![t].reason = "rotated", ![t].next = created + 1]
    BY <1>3 DEF Rotate
  <2> HIDE DEF t
  <2>4. /\ rows'[created + 1].reason = "live" /\ rows'[created + 1].login = rows[t].login
        /\ rows'[t].next = created + 1 /\ rows'[t].login = rows[t].login
        /\ \A s \in Rows : s # t => rows'[s] = rows[s]
    BY <1>0, <2>1, <2>2, <2>3 DEF Row, Login
  <2>5. \A s \in Rows : rows'[s].login = rows[s].login
    BY <2>4
  <2>6. ASSUME NEW s \in Rows', rows'[s].reason = "rotated"
        PROVE  rows'[s].next \in Rows' /\ s < rows'[s].next /\ rows'[rows'[s].next].login = rows'[s].login
    <3>1. CASE s = t
      BY <2>2, <2>4, <3>1
    <3>2. CASE s # t
      <4>1. s \in Rows /\ rows'[s] = rows[s]
        BY <2>2, <2>4, <2>6, <3>2
      <4> QED
        BY ZenonT(60), <1>0, <2>2, <2>5, <2>6, <4>1 DEF ChainsGoOn, Login
    <3> QED
      BY <3>1, <3>2
  <2> QED
    BY <2>6 DEF ChainsGoOn, Login
<1> QED
  BY <1>0, <1>1, <1>2, <1>3, StepKinds

LEMMA RequestsStep ==
  ASSUME ChainInv, [Next]_vars
  PROVE  RequestsNameRows'
<1>0. /\ request \in [Requests -> Request] /\ RequestsNameRows /\ TypeOK /\ ChainsGoOn
      /\ created \in Nat /\ Inv
  BY SessionsAssumption DEF ChainInv, Inv, TypeOK
<1>1. Rows \subseteq Rows'
  <2>1. created' \in {created, created + 1}
    <3>1. UNCHANGED created \/ \E r \in Requests : Open(r) \/ Rotate(r)
      BY <1>0, StepKinds
    <3> QED
      BY <3>1 DEF Open, Rotate
  <2> QED
    BY <1>0, <2>1 DEF Rows
<1>2. CASE UNCHANGED request
  BY <1>0, <1>1, <1>2 DEF RequestsNameRows
<1>3. ASSUME NEW r \in Requests,
             \/ \E new \in Request : Start(r, new) /\ (new.op \in {"replay", "revokeOthers"} => new.row \in Rows)
             \/ \E op \in Ops \ {"replay", "revokeOthers"} : Step(r, op)
             \/ Answer(r)
      PROVE  RequestsNameRows'
  <2>1. \A q \in Requests : q # r => request'[q] = request[q]
    BY <1>0, <1>3 DEF Start, Step, Answer
  <2>2. request'[r].op \in {"replay", "revokeOthers"} => request'[r].row \in Rows
    <3>1. ASSUME NEW new \in Request, Start(r, new), new.op \in {"replay", "revokeOthers"} => new.row \in Rows
          PROVE  request'[r].op \in {"replay", "revokeOthers"} => request'[r].row \in Rows
      BY <1>0, <3>1 DEF Start
    <3>2. ASSUME NEW op \in Ops \ {"replay", "revokeOthers"}, Step(r, op)
          PROVE  request'[r].op = op
      <4>1. request[r] \in Request /\ request'[r] = [request[r] EXCEPT !.op = op]
        BY <1>0, <3>2 DEF Step
      <4> QED
        BY <4>1 DEF Request
    <3>3. CASE Answer(r)
      BY <1>0, <3>3 DEF Answer, NoRequest
    <3> QED
      BY <1>3, <3>1, <3>2, <3>3
  <2> QED
    BY <1>0, <1>1, <2>1, <2>2 DEF RequestsNameRows
<1>4. ASSUME NEW r \in Requests, SignIn(r) \/ Refresh(r) \/ Manage(r) \/ Reset(r)
      PROVE  RequestsNameRows'
  <2>0. Rows \subseteq Ids /\ NoRequest \in Request
    BY <1>0, RowsAreIds, SessionsAssumption DEF NoRequest, Request, Ops
  <2>1. CASE Prove(r)
    <3>1. [NoRequest EXCEPT !.op = "login"] \in Request /\ [NoRequest EXCEPT !.op = "login"].op = "login"
      BY <2>0 DEF Request, Ops
    <3> QED
      BY <1>3, <2>1, <3>1 DEF Prove
  <2>2. CASE Admit(r) \/ RefreshAdmit(r)
    BY <1>3, <2>2 DEF Admit, RefreshAdmit, Ops
  <2>3. CASE RefreshRead(r)
    <3>1. \A t \in Rows : /\ [NoRequest EXCEPT !.op = "rotate", !.row = t] \in Request
                          /\ [NoRequest EXCEPT !.op = "rotate", !.row = t].op = "rotate"
                          /\ [NoRequest EXCEPT !.op = "replay", !.row = t] \in Request
                          /\ [NoRequest EXCEPT !.op = "replay", !.row = t].row = t
      BY <2>0 DEF Request, Ops
    <3>2. PICK t \in Rows : \/ Start(r, [NoRequest EXCEPT !.op = "rotate", !.row = t])
                            \/ Start(r, [NoRequest EXCEPT !.op = "replay", !.row = t])
      BY <2>3 DEF RefreshRead
    <3>3. CASE Start(r, [NoRequest EXCEPT !.op = "rotate", !.row = t])
      BY ZenonT(60), <1>3, <3>1, <3>3
    <3>4. CASE Start(r, [NoRequest EXCEPT !.op = "replay", !.row = t])
      <4>1. PICK new \in Request : new = [NoRequest EXCEPT !.op = "replay", !.row = t]
        BY <3>1
      <4> QED
        BY ZenonT(60), <1>3, <3>1, <3>4, <4>1
    <3> QED
      BY <3>2, <3>3, <3>4
  <2>4. CASE Authenticate(r)
    <3>1. PICK s \in Rows : Authenticate(r)!2!(s)
      BY <2>4 DEF Authenticate
    <3>2. Resolve(s) \in Rows
      BY <3>1, ResolveFacts
    <3>3. \A t \in Rows :
            /\ [NoRequest EXCEPT !.op = "revokeOne", !.row = Resolve(s), !.target = t] \in Request
            /\ [NoRequest EXCEPT !.op = "revokeOne", !.row = Resolve(s), !.target = t].op = "revokeOne"
      BY <2>0, <3>2 DEF Request, Ops
    <3>4. /\ [NoRequest EXCEPT !.op = "revokeOthers", !.row = Resolve(s)] \in Request
          /\ [NoRequest EXCEPT !.op = "revokeOthers", !.row = Resolve(s)].row = Resolve(s)
      BY <2>0, <3>2 DEF Request, Ops
    <3>5. CASE \E t \in Rows :
                 Start(r, [NoRequest EXCEPT !.op = "revokeOne", !.row = Resolve(s), !.target = t])
      BY <1>3, <3>3, <3>5
    <3>6. CASE Start(r, [NoRequest EXCEPT !.op = "revokeOthers", !.row = Resolve(s)])
      BY <1>3, <3>2, <3>4, <3>6
    <3> QED
      BY <3>1, <3>5, <3>6
  <2>5. CASE ResetRead(r)
    <3>1. /\ [NoRequest EXCEPT !.op = "reset", !.link = link.number] \in Request
          /\ [NoRequest EXCEPT !.op = "reset", !.link = link.number].op = "reset"
      BY <1>0, <2>0 DEF Request, Ops, TypeOK
    <3> QED
      BY <1>3, <2>5, <3>1 DEF ResetRead
  <2>6. CASE \/ Open(r) \/ Rotate(r) \/ RotateRefused(r) \/ Replay(r) \/ RevokeOne(r) \/ RevokeOthers(r)
             \/ Redeem(r) \/ RedeemRefused(r)
    BY <1>3, <2>6 DEF Open, Rotate, RotateRefused, Replay, RevokeOne, RevokeOthers, Redeem, RedeemRefused
  <2> QED
    BY <1>4, <2>1, <2>2, <2>3, <2>4, <2>5, <2>6 DEF SignIn, Refresh, Manage, Reset
<1>5. CASE UNCHANGED vars
  BY <1>2, <1>5 DEF vars
<1>6. CASE Next
  BY <1>2, <1>4, <1>6 DEF Next, Logout, SetStatus, Forgot, LinkLapses, ChangeRole, Expire
<1> QED
  BY <1>5, <1>6

LEMMA ChainInvariance == Spec => []ChainInv
<1>1. Init => ChainsGoOn /\ RequestsNameRows
  BY SessionsAssumption DEF Init, ChainsGoOn, RequestsNameRows, Rows, NoRequest
<1>2. ChainsGoOn /\ RequestsNameRows /\ Inv /\ [Next]_vars => (ChainsGoOn /\ RequestsNameRows)'
  BY ChainStep, RequestsStep DEF ChainInv
<1>3. Spec => [](ChainsGoOn /\ RequestsNameRows)
  BY <1>1, <1>2, Invariance, PTL DEF Spec
<1> QED
  BY <1>3, Invariance, PTL DEF ChainInv

(* Only a replay that found its sign-in active ends sessions for reuse. *)
LEMMA ReuseIsReplay ==
  ASSUME ChainInv, [Next]_vars, NEW s \in Ids, Live(s), rows'[s].reason = "reuse"
  PROVE  \E r \in Requests : Replay(r) /\ Resolve(request[r].row) # None
<1>0. rows \in [Ids -> Row] /\ Rows \subseteq Ids /\ rows[s].reason = "live" /\ TypeOK
      /\ created \in 0..MaxSessions /\ MaxSessions \in Nat
  BY RowsAreIds, SessionsAssumption DEF ChainInv, Inv, TypeOK, Live
<1>1. ~UNCHANGED rows
  BY <1>0
<1>2. ASSUME NEW S, Revoke(S, "revoked") PROVE FALSE
  <2>1. rows'[s] = IF s \in S /\ Live(s) THEN [rows[s] EXCEPT !.reason = "revoked"] ELSE rows[s]
    BY <1>2 DEF Revoke
  <2> QED
    BY <1>0, <2>1 DEF Row
<1>3. ASSUME NEW r \in Requests, Open(r) PROVE FALSE
  <2>1. created + 1 \in Ids
    BY <1>0, <1>3 DEF Open, Ids
  <2> QED
    BY <1>0, <1>3, <2>1 DEF Open
<1>4. ASSUME NEW r \in Requests, Rotate(r) PROVE FALSE
  <2>1. request[r].row \in Ids \cup {None} /\ created + 1 \in Ids
    BY <1>0, <1>4 DEF TypeOK, Request, Rotate, Ids
  <2>2. rows' = [rows EXCEPT
          ![created + 1] = [reason |-> "live", next |-> None, login |-> Login(request[r].row)],
          ![request[r].row].reason = "rotated", ![request[r].row].next = created + 1]
    BY <1>4 DEF Rotate
  <2>3. CASE s = created + 1
    BY <1>0, <2>1, <2>2, <2>3
  <2>4. CASE s # created + 1
    BY <1>0, <2>1, <2>2, <2>4 DEF Row
  <2> QED
    BY <2>3, <2>4
<1>5. CASE \E r \in Requests : SignIn(r) \/ Refresh(r) \/ Manage(r) \/ Reset(r)
  <2>1. PICK r \in Requests : SignIn(r) \/ Refresh(r) \/ Manage(r) \/ Reset(r)
    BY <1>5
  <2>2. CASE SignIn(r)
    BY <1>1, <1>3, <2>2 DEF SignIn, Prove, Admit
  <2>3. CASE Refresh(r)
    <3>1. CASE RefreshRead(r) \/ RefreshAdmit(r) \/ RotateRefused(r)
      BY <1>1, <3>1 DEF RefreshRead, RefreshAdmit, RotateRefused
    <3>2. CASE Rotate(r)
      BY <1>4, <3>2
    <3>3. CASE Replay(r)
      BY <1>1, <3>3 DEF Replay
    <3> QED
      BY SMTT(40), <2>3, <3>1, <3>2, <3>3 DEF Refresh
  <2>4. CASE Manage(r)
    BY <1>1, <1>2, <2>4 DEF Manage, Authenticate, RevokeOne, RevokeOthers
  <2>5. CASE Reset(r)
    BY <1>1, <1>2, <2>5 DEF Reset, ResetRead, Redeem, RedeemRefused
  <2> QED
    BY <2>1, <2>2, <2>3, <2>4, <2>5
<1>6. CASE UNCHANGED vars
  BY <1>1, <1>6 DEF vars
<1>7. ASSUME NEW t \in Rows, Logout(t) PROVE FALSE
  BY <1>2, <1>7 DEF Logout
<1>8. ASSUME NEW status \in {"active", "suspended", "deleted"}, SetStatus(status) PROVE FALSE
  BY <1>1, <1>2, <1>8 DEF SetStatus
<1>9. CASE Forgot \/ LinkLapses \/ ChangeRole \/ Expire
  BY <1>1, <1>2, <1>9 DEF Forgot, LinkLapses, ChangeRole, Expire
<1>10. Next \/ UNCHANGED vars
  OBVIOUS
<1> QED
  BY <1>5, <1>6, <1>7, <1>8, <1>9, <1>10 DEF Next

(* A request to end the others is answered only when it is carried out. *)
LEMMA OthersAreAnswered ==
  ASSUME ChainInv, [Next]_vars, NEW r \in Requests,
         request[r].op = "revokeOthers", request'[r] = NoRequest
  PROVE  RevokeOthers(r)
<1>0. request \in [Requests -> Request] /\ NoRequest.op = "none" /\ request[r] # NoRequest
  BY DEF ChainInv, Inv, TypeOK, NoRequest
<1>1. ~UNCHANGED request
  BY <1>0
<1>2. ASSUME NEW q \in Requests, q # r,
             (\E new : Start(q, new)) \/ (\E op : Step(q, op)) \/ Answer(q)
      PROVE  FALSE
  BY <1>0, <1>2 DEF Start, Step, Answer
<1>3. PICK q \in Requests : SignIn(q) \/ Refresh(q) \/ Manage(q) \/ Reset(q)
  BY <1>1 DEF Next, vars, Logout, SetStatus, Forgot, LinkLapses, ChangeRole, Expire
<1>4. (\E new : Start(q, new)) \/ (\E op : Step(q, op)) \/ Answer(q)
  <2>1. CASE SignIn(q)
    BY <2>1 DEF SignIn, Prove, Admit, Open
  <2>2. CASE Refresh(q)
    BY <2>2 DEF Refresh, RefreshRead, RefreshAdmit, Rotate, RotateRefused, Replay
  <2>3. CASE Manage(q)
    BY <2>3 DEF Manage, Authenticate, RevokeOne, RevokeOthers
  <2>4. CASE Reset(q)
    BY <2>4 DEF Reset, ResetRead, Redeem, RedeemRefused
  <2> QED
    BY <1>3, <2>1, <2>2, <2>3, <2>4
<1>5. q = r
  BY <1>2, <1>4
<1>6. ~(\E new : Start(r, new))
  BY <1>0 DEF Start
<1> QED
  <2>1. ~SignIn(r)
    BY <1>0, <1>6 DEF SignIn, Prove, Admit, Open
  <2>2. ~Refresh(r)
    BY <1>0, <1>6 DEF Refresh, RefreshRead, RefreshAdmit, Rotate, RotateRefused, Replay
  <2>3. ~Reset(r)
    BY <1>0, <1>6 DEF Reset, ResetRead, Redeem, RedeemRefused
  <2>4. ~Authenticate(r) /\ ~RevokeOne(r)
    BY <1>0, <1>6 DEF Authenticate, RevokeOne
  <2> QED
    BY <1>3, <1>5, <2>1, <2>2, <2>3, <2>4 DEF Manage

LEMMA SparesStep ==
  ASSUME ChainInv, [Next]_vars
  PROVE  ReplaySparesRetained /\ CallerKept
<1>0. TypeOK /\ ChainsGoOn /\ RequestsNameRows /\ request \in [Requests -> Request]
      /\ rows \in [Ids -> Row] /\ Rows \subseteq Ids
  BY RowsAreIds DEF ChainInv, Inv, TypeOK
<1>1. ReplaySparesRetained
  <2> SUFFICES ASSUME NEW s \in Ids, Live(s), rows'[s].reason = "reuse"
               PROVE  \E r \in Requests : /\ request[r].op = "replay" /\ request'[r] = NoRequest
                                          /\ LoginActive(Login(request[r].row))
    BY DEF ReplaySparesRetained
  <2>1. PICK r \in Requests : Replay(r) /\ Resolve(request[r].row) # None
    BY ReuseIsReplay
  <2>2. request[r].op = "replay" /\ request'[r] = NoRequest
    BY <1>0, <2>1 DEF Replay, Answer
  <2>3. request[r].row \in Rows
    BY <1>0, <2>2 DEF RequestsNameRows
  <2>4. LoginActive(Login(request[r].row))
    BY <1>0, <2>1, <2>3, ResolveStays DEF LoginActive
  <2> QED
    BY <2>2, <2>4
<1>2. CallerKept
  <2> SUFFICES ASSUME NEW r \in Requests, request[r].op = "revokeOthers", request'[r] = NoRequest,
                      LoginActive(Login(request[r].row))
               PROVE  \E s \in Rows' : rows'[s].login = Login(request[r].row) /\ rows'[s].reason = "live" /\ s > expired'
    BY DEF CallerKept, LoginActive, Login, Active, Live
  <2> DEFINE current == Resolve(request[r].row)
  <2>1. RevokeOthers(r) /\ request[r].row \in Rows
    BY <1>0, OthersAreAnswered DEF RequestsNameRows
  <2>2. UNCHANGED <<created, expired>> /\ Rows' = Rows
    BY <2>1 DEF RevokeOthers, Rows
  <2>3. CASE current = None
    <3>1. UNCHANGED rows
      BY <2>1, <2>3 DEF RevokeOthers
    <3> QED
      BY <2>2, <3>1 DEF LoginActive, Login, Active, Live
  <2>4. CASE current # None
    <3>1. current \in Rows /\ Active(current) /\ Login(current) = Login(request[r].row)
      BY <1>0, <2>1, <2>4, ResolveStays
    <3>2. Revoke(Ids \ {current}, "revoked")
      BY <2>1, <2>4 DEF RevokeOthers
    <3> HIDE DEF current
    <3>3. rows'[current] = rows[current]
      BY <1>0, <3>1, <3>2 DEF Revoke
    <3> QED
      BY <2>2, <3>1, <3>3 DEF Login, Active, Live
  <2> QED
    BY <2>3, <2>4
<1> QED
  BY <1>1, <1>2

(* A replayed token ends the sessions only while its own sign-in is active, and *)
(* who ends the other sessions keeps his own, however long chains are           *)
(* (auth.ts:842-848, sessions.ts:114).                                          *)
THEOREM RetainedAreSpared == Spec => [][ReplaySparesRetained /\ CallerKept]_vars
<1>1. ChainInv /\ [Next]_vars => [ReplaySparesRetained /\ CallerKept]_vars
  BY SparesStep
<1> QED
  BY <1>1, ChainInvariance, PTL DEF Spec

(* What a logout has answered for is over. *)
SignedOutIsOver == \A l \in signedOut : l \in Rows /\ ~LoginActive(l)

LEMMA SignedOutStep ==
  ASSUME MaxSessions <= ChainLimit, ChainInv, SignedOutIsOver, [Next]_vars
  PROVE  SignedOutIsOver'
<1>0. /\ TypeOK /\ Inv /\ ChainsGoOn /\ rows \in [Ids -> Row] /\ Rows \subseteq Ids /\ created \in Nat
  BY RowsAreIds, SessionsAssumption DEF ChainInv, Inv, TypeOK
<1>1. Rows \subseteq Rows'
  <2>1. created' \in {created, created + 1}
    <3>1. UNCHANGED created \/ \E r \in Requests : Open(r) \/ Rotate(r)
      BY <1>0, StepKinds
    <3> QED
      BY <3>1 DEF Open, Rotate
  <2> QED
    BY <1>0, <2>1 DEF Rows
<1>2. \A l \in Rows : ~LoginActive(l) => l \in Rows' /\ ~LoginActive(l)'
  BY <1>0, <1>1, EndedStep
<1>3. CASE UNCHANGED signedOut
  BY <1>2, <1>3 DEF SignedOutIsOver
<1>4. ASSUME NEW t \in Rows, Logout(t)
      PROVE  SignedOutIsOver'
  <2>2. PICK l \in Rows : l = Login(t)
    BY <1>0 DEF Inv, LoginsAreRows
  <2>1. /\ Revoke({Resolve(t)}, "revoked") /\ signedOut' = signedOut \cup {l}
        /\ UNCHANGED <<created, expired>> /\ Rows' = Rows
    BY <1>4, <2>2 DEF Logout, Rows
  <2>3. ASSUME NEW s \in Rows, rows'[s].login = l, rows'[s].reason = "live", s > expired
        PROVE  FALSE
    <3>1. rows'[s] = IF s \in {Resolve(t)} /\ Live(s) THEN [rows[s] EXCEPT !.reason = "revoked"] ELSE rows[s]
      BY <1>0, <2>1 DEF Revoke
    <3>2. rows[s] \in Row
      BY <1>0
    <3>3. rows[s].login = Login(t) /\ rows[s].reason = "live" /\ s # Resolve(t)
      BY <2>2, <2>3, <3>1, <3>2 DEF Row, Live
    <3>4. Resolve(t) # None
      BY <1>0, <2>3, <3>3, ResolveFinds DEF LoginActive, Login, Active, Live
    <3>5. Resolve(t) \in Rows /\ rows[Resolve(t)].login = Login(t) /\ rows[Resolve(t)].reason = "live"
      BY <1>0, <3>4, ResolveStays DEF Login, Active, Live
    <3> QED
      BY <1>0, <3>3, <3>5 DEF Inv, ChainsDoNotFork, Login
  <2>4. ~LoginActive(l)'
    BY SMTT(40), <2>1, <2>3 DEF LoginActive, Login, Active, Live
  <2> QED
    BY <1>2, <2>1, <2>2, <2>4 DEF SignedOutIsOver
<1>5. CASE Next
  BY ZenonT(60), <1>3, <1>4, <1>5
     DEF Next, SignIn, Refresh, Manage, Reset, Prove, Admit, Open, RefreshRead, RefreshAdmit, Rotate,
         RotateRefused, Replay, Authenticate, RevokeOne, RevokeOthers, ResetRead, Redeem, RedeemRefused,
         SetStatus, Forgot, LinkLapses, ChangeRole, Expire
<1>6. CASE UNCHANGED vars
  BY <1>3, <1>6 DEF vars
<1> QED
  BY <1>5, <1>6

(* A finished logout ends access through every token of its sign-in, and what    *)
(* signs devices out reaches no other, as long as no chain of rotations is       *)
(* longer than what a resolution follows (session-state.ts:14-35).               *)
THEOREM LogoutsAlwaysExact ==
  ASSUME MaxSessions <= ChainLimit
  PROVE  Spec => LogoutsAreExact
<1>1. Init => SignedOutIsOver
  BY DEF Init, SignedOutIsOver
<1>2. ChainInv /\ SignedOutIsOver /\ [Next]_vars => SignedOutIsOver'
  BY SignedOutStep
<1>3. ChainInv /\ SignedOutIsOver => LoggedOutStaysOut
  BY ResolveStays DEF ChainInv, Inv, SignedOutIsOver, LoggedOutStaysOut, LoginActive
<1> QED
  BY <1>1, <1>2, <1>3, ChainInvariance, RetainedAreSpared, PTL DEF Spec, LogoutsAreExact
=============================================================================
