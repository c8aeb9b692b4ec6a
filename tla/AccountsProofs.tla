--------------------------- MODULE AccountsProofs ---------------------------
(***************************************************************************)
(* What is proved of accounts beside their sessions, for every value of    *)
(* the constants.  Nobody is signed in before the mailbox is proved: a     *)
(* request that has passed its check can open a session long after it, so  *)
(* what the check saw must not be undone.  Roles fit accounts: what an     *)
(* operation checked of its target under the lock still holds when it      *)
(* commits, because a lock has one holder and every other writer waits.    *)
(* A factor is not guessed for free, nor accepted twice.  A security job   *)
(* that ends without an error has missed nothing.                          *)
(***************************************************************************)
EXTENDS Registration, Roles, SignIn, SecurityJobs, FiniteSetTheorems, WellFoundedInduction, TLAPS

-----------------------------------------------------------------------------
(* Registration                                                            *)

(* An account exists without a proof only as one that waits for it.        *)
ProvedOrWaiting ==
  /\ registrant.active => registrant.exists
  /\ registrant.verified => confirmed
  /\ registrant.exists /\ ~confirmed => registrant.required

(* Whoever is about to be signed in has passed the check after the proof.  *)
AdmittedProved == \A b \in Browsers : regRequest[b] = [step |-> "open"] => confirmed

RegInv == RegTypeOK /\ ProvedOrWaiting /\ AdmittedProved /\ MailboxProvedFirst

-----------------------------------------------------------------------------
LEMMA Initially ==
  /\ NoAccount \in RegAccount /\ NoChallenge \in RegCode /\ RegIdle \in RegStep
  /\ [step |-> "admit"] \in RegStep /\ [step |-> "open"] \in RegStep
  /\ RegIdle # [step |-> "open"] /\ [step |-> "admit"] # [step |-> "open"]
<1>1. RegIdle.step # "open" /\ [step |-> "admit"].step # "open" /\ [step |-> "open"].step = "open"
  BY DEF RegIdle
<1>2. NoAccount \in RegAccount /\ NoChallenge \in RegCode
  BY RegistrationAssumption DEF NoAccount, RegAccount, NoSubject, NoChallenge, RegCode, NoCode,
                                RegistrationAssumption
<1> QED
  BY <1>1, <1>2 DEF RegStep

LEMMA RegInvInit == RegInit => RegInv
<1> SUFFICES ASSUME RegInit PROVE RegInv
  OBVIOUS
<1>1. RegTypeOK
  <2>1. regRequest \in [Browsers -> RegStep] /\ registrant \in RegAccount /\ challenge \in RegCode
    BY Initially DEF RegInit
  <2>2. lastCode \in 0..MaxCodes /\ lastNonce \in 0..MaxNonces
    BY RegistrationAssumption DEF RegInit, NoCode, RegistrationAssumption
  <2>3. inbox = {} /\ continuation = {} /\ nonces = {} /\ signedIn = {} /\ confirmed = FALSE
    BY DEF RegInit
  <2> QED
    BY <2>1, <2>2, <2>3 DEF RegTypeOK
<1>2. ProvedOrWaiting /\ MailboxProvedFirst
  BY DEF RegInit, NoAccount, ProvedOrWaiting, MailboxProvedFirst
<1>3. AdmittedProved
  BY Initially DEF RegInit, AdmittedProved
<1> QED
  BY <1>1, <1>2, <1>3 DEF RegInv

-----------------------------------------------------------------------------
(* A new code leaves the account alone (auth.ts:createChallenge).          *)
LEMMA NewCode ==
  ASSUME RegInv, NEW b \in Browsers, NEW cookie \in BOOLEAN, CreateChallenge(b, cookie)
  PROVE  /\ challenge' \in RegCode /\ lastCode' \in 0..MaxCodes
         /\ regRequest' \in [Browsers -> RegStep]
         /\ \A c \in Browsers : regRequest'[c] = [step |-> "open"] =>
              regRequest[c] = [step |-> "open"]
<1>1. lastCode \in 0..MaxCodes /\ regRequest \in [Browsers -> RegStep]
  BY DEF RegInv, RegTypeOK
<1>2. lastCode + 1 \in 1..MaxCodes
  BY <1>1, RegistrationAssumption DEF CreateChallenge, RegistrationAssumption
<1>3. lastCode' \in 0..MaxCodes /\ challenge' \in RegCode
  BY <1>1, <1>2, RegistrationAssumption DEF CreateChallenge, RegCode, RegistrationAssumption
<1> DEFINE next == [step |-> "send", code |-> lastCode + 1, cookie |-> cookie]
<1>4. next \in RegStep
  BY <1>2 DEF RegStep
<1>5. next # [step |-> "open"]
  <2>1. next.step # "open" /\ [step |-> "open"].step = "open"
    OBVIOUS
  <2> QED
    BY <2>1
<1>6. regRequest' = [regRequest EXCEPT ![b] = next]
  BY DEF CreateChallenge
<1> HIDE DEF next
<1> QED
  BY <1>1, <1>3, <1>4, <1>5, <1>6

(* A request that goes on to another step than the last one admits nobody. *)
LEMMA Onward ==
  ASSUME RegInv, NEW b \in Browsers, NEW next \in RegStep, next # [step |-> "open"],
         regRequest' = [regRequest EXCEPT ![b] = next], confirmed => confirmed'
  PROVE  regRequest' \in [Browsers -> RegStep] /\ AdmittedProved'
<1>1. regRequest \in [Browsers -> RegStep]
  BY DEF RegInv, RegTypeOK
<1> QED
  BY <1>1 DEF RegInv, AdmittedProved

LEMMA RegisterKeeps ==
  ASSUME RegInv, NEW b \in Browsers, Register(b) PROVE RegInv'
<1>1. /\ UNCHANGED <<inbox, nonces, lastNonce, signedIn, confirmed>>
      /\ registrant \in RegAccount /\ regRequest \in [Browsers -> RegStep]
      /\ continuation \subseteq Browsers
  BY DEF Register, RegInv, RegTypeOK
<1>2. CASE /\ ~registrant.exists /\ CreateChallenge(b, TRUE) /\ UNCHANGED continuation
           /\ registrant' = [exists |-> TRUE, active |-> TRUE, required |-> TRUE,
                             verified |-> FALSE, password |-> PasswordOf(b),
                             subject |-> NoSubject]
  <2>1. registrant' \in RegAccount
    BY <1>2 DEF RegAccount, PasswordOf
  <2>2. RegTypeOK'
    BY <1>1, <1>2, <2>1, NewCode DEF RegInv, RegTypeOK
  <2>3. ProvedOrWaiting' /\ AdmittedProved' /\ MailboxProvedFirst'
    BY <1>1, <1>2, NewCode DEF RegInv, ProvedOrWaiting, AdmittedProved, MailboxProvedFirst
  <2> QED
    BY <2>2, <2>3 DEF RegInv
<1>3. CASE UNCHANGED registrant /\ CreateChallenge(b, TRUE) /\ UNCHANGED continuation
  <2>1. RegTypeOK'
    BY <1>1, <1>3, NewCode DEF RegInv, RegTypeOK
  <2>2. ProvedOrWaiting' /\ AdmittedProved' /\ MailboxProvedFirst'
    BY <1>1, <1>3, NewCode DEF RegInv, ProvedOrWaiting, AdmittedProved, MailboxProvedFirst
  <2> QED
    BY <2>1, <2>2 DEF RegInv
<1>4. CASE /\ UNCHANGED <<registrant, lastCode, challenge, regRequest>>
           /\ continuation' = continuation \cup {b}
  <2>1. RegTypeOK'
    BY <1>1, <1>4 DEF RegInv, RegTypeOK
  <2> QED
    BY <1>1, <1>4, <2>1 DEF RegInv, ProvedOrWaiting, AdmittedProved, MailboxProvedFirst
<1> QED
  BY <1>2, <1>3, <1>4 DEF Register

LEMMA ResendKeeps ==
  ASSUME RegInv, NEW b \in Browsers, ResendEmailVerification(b) PROVE RegInv'
<1>1. /\ UNCHANGED <<registrant, inbox, continuation, nonces, lastNonce, signedIn, confirmed>>
      /\ CreateChallenge(b, b \in continuation)
  BY DEF ResendEmailVerification
<1> DEFINE renews == b \in continuation
<1>2. renews \in BOOLEAN /\ CreateChallenge(b, renews)
  BY <1>1
<1> HIDE DEF renews
<1>3. RegTypeOK'
  BY <1>1, <1>2, NewCode DEF RegInv, RegTypeOK
<1>4. ProvedOrWaiting' /\ AdmittedProved' /\ MailboxProvedFirst'
  BY <1>1, <1>2, NewCode DEF RegInv, ProvedOrWaiting, AdmittedProved, MailboxProvedFirst
<1> QED
  BY <1>3, <1>4 DEF RegInv

LEMMA SendKeeps ==
  ASSUME RegInv, NEW b \in Browsers, SendPendingChallenge(b) PROVE RegInv'
<1>1. /\ UNCHANGED <<registrant, lastCode, nonces, lastNonce, signedIn, confirmed>>
      /\ regRequest' = [regRequest EXCEPT ![b] = RegIdle]
      /\ continuation' \subseteq Browsers
  BY DEF SendPendingChallenge, RegInv, RegTypeOK
<1>2. regRequest' \in [Browsers -> RegStep] /\ AdmittedProved'
  BY <1>1, Onward, Initially
<1>3. challenge' \in RegCode
  BY DEF SendPendingChallenge, RegInv, RegTypeOK, RegCode
<1>4. inbox' \subseteq 1..MaxCodes
  <2>1. CASE UNCHANGED inbox
    BY <2>1 DEF RegInv, RegTypeOK
  <2>2. CASE inbox' = inbox \cup {regRequest[b].code}
    <3>1. regRequest[b] \in RegStep /\ regRequest[b].step = "send"
      BY DEF SendPendingChallenge, RegInv, RegTypeOK
    <3>2. regRequest[b].code \in 1..MaxCodes
      BY <3>1 DEF RegStep, RegIdle
    <3> QED
      BY <2>2, <3>2 DEF RegInv, RegTypeOK
  <2> QED
    BY <2>1, <2>2 DEF SendPendingChallenge
<1>5. RegTypeOK'
  BY <1>1, <1>2, <1>3, <1>4 DEF RegInv, RegTypeOK
<1> QED
  BY <1>1, <1>2, <1>5 DEF RegInv, ProvedOrWaiting, MailboxProvedFirst

(* The right code is the mailbox's, and what it proves is for ever.        *)
LEMMA VerifyKeeps ==
  ASSUME RegInv, NEW b \in Browsers, NEW code, VerifyEmail(b, code) PROVE RegInv'
<1>1. /\ UNCHANGED <<lastCode, inbox, nonces, lastNonce, signedIn>>
      /\ registrant \in RegAccount /\ challenge \in RegCode /\ challenge.attempts < MaxAttempts
  BY DEF VerifyEmail, ChallengeUsable, RegInv, RegTypeOK
<1>2. CASE code = challenge.code
  <2> DEFINE next == IF b \in continuation THEN [step |-> "admit"] ELSE RegIdle
  <2>1. /\ registrant' = [registrant EXCEPT !.verified = TRUE] /\ challenge' = NoChallenge
        /\ continuation' = continuation \ {b} /\ confirmed' = TRUE
        /\ regRequest' = [regRequest EXCEPT ![b] = next]
    BY <1>2 DEF VerifyEmail
  <2>2. next \in RegStep /\ next # [step |-> "open"]
    <3>1. next = [step |-> "admit"] \/ next = RegIdle
      OBVIOUS
    <3> QED
      BY <3>1, Initially
  <2> HIDE DEF next
  <2>3. regRequest' \in [Browsers -> RegStep] /\ AdmittedProved'
    BY <2>1, <2>2, Onward
  <2>4. registrant' \in RegAccount /\ registrant'.active = registrant.active
        /\ registrant'.exists = registrant.exists
    BY <1>1, <2>1 DEF RegAccount
  <2>5. RegTypeOK'
    BY <1>1, <2>1, <2>3, <2>4, Initially DEF RegInv, RegTypeOK
  <2> QED
    BY <2>1, <2>3, <2>4, <2>5 DEF RegInv, ProvedOrWaiting, MailboxProvedFirst
<1>3. CASE code # challenge.code
  <2>1. /\ challenge' = [challenge EXCEPT !.attempts = @ + 1]
        /\ UNCHANGED <<registrant, continuation, regRequest, confirmed>>
    BY <1>3 DEF VerifyEmail
  <2>2. challenge' \in RegCode
    BY <1>1, <2>1, RegistrationAssumption DEF RegCode, RegistrationAssumption
  <2>3. RegTypeOK'
    BY <1>1, <2>1, <2>2 DEF RegInv, RegTypeOK
  <2> QED
    BY <1>1, <2>1, <2>3 DEF RegInv, ProvedOrWaiting, AdmittedProved, MailboxProvedFirst
<1> QED
  BY <1>2, <1>3

-----------------------------------------------------------------------------
(* Google proves the mailbox whatever account it meets (google-account.ts).*)
LEMMA GoogleKeeps ==
  ASSUME RegInv, NEW b \in Browsers, NEW n \in 1..MaxNonces, NEW s \in Subjects,
         NEW consent \in BOOLEAN, GoogleLogin(b, n, s, consent)
  PROVE  RegInv'
<1>1. /\ UNCHANGED <<lastCode, inbox, continuation, lastNonce>>
      /\ regRequest' = [regRequest EXCEPT ![b] = [step |-> "admit"]]
      /\ nonces' \subseteq nonces /\ registrant \in RegAccount
  BY DEF GoogleLogin, RegInv, RegTypeOK
<1>2. CASE UNCHANGED <<registrant, challenge, signedIn, confirmed>>
  <2>1. regRequest' \in [Browsers -> RegStep] /\ AdmittedProved'
    BY <1>1, <1>2, Onward, Initially
  <2>2. RegTypeOK'
    BY <1>1, <1>2, <2>1 DEF RegInv, RegTypeOK
  <2> QED
    BY <1>2, <2>1, <2>2 DEF RegInv, ProvedOrWaiting, MailboxProvedFirst
<1>3. CASE LinkGoogle(s)
  <2>1. /\ registrant' = [exists |-> TRUE, active |-> TRUE, required |-> registrant.required,
                          verified |-> TRUE, subject |-> s,
                          password |-> IF registrant.exists /\ ~NeedsVerification
                                       THEN registrant.password ELSE "random"]
        /\ challenge' = NoChallenge /\ confirmed' = TRUE /\ signedIn' \subseteq signedIn
    BY <1>3 DEF LinkGoogle
  <2>2. regRequest' \in [Browsers -> RegStep] /\ AdmittedProved'
    BY <1>1, <2>1, Onward, Initially
  <2>3. registrant' \in RegAccount
    BY <1>1, <2>1 DEF RegAccount
  <2>4. RegTypeOK'
    BY <1>1, <2>1, <2>2, <2>3, Initially DEF RegInv, RegTypeOK
  <2>5. ProvedOrWaiting' /\ MailboxProvedFirst'
    BY <2>1 DEF ProvedOrWaiting, MailboxProvedFirst
  <2> QED
    BY <2>2, <2>4, <2>5 DEF RegInv
<1> QED
  BY <1>2, <1>3 DEF GoogleLogin

(* The check and the session are two steps; an account that may be          *)
(* admitted has been proved before the first of them (auth.ts:304-368).     *)
LEMMA SignInKeeps ==
  ASSUME RegInv, NEW b \in Browsers,
         ProvePassword(b) \/ AdmitActor(b) \/ CreateRefreshSession(b)
  PROVE  RegInv'
<1>1. UNCHANGED <<registrant, challenge, lastCode, inbox, continuation, nonces, lastNonce, confirmed>>
  BY DEF ProvePassword, AdmitActor, CreateRefreshSession
<1>2. registrant \in RegAccount /\ regRequest \in [Browsers -> RegStep]
  BY DEF RegInv, RegTypeOK
<1>3. CASE ProvePassword(b)
  <2>a. regRequest' = [regRequest EXCEPT ![b] = [step |-> "admit"]] /\ UNCHANGED signedIn
    BY <1>3 DEF ProvePassword
  <2>1. regRequest' \in [Browsers -> RegStep] /\ AdmittedProved'
    BY <1>1, <2>a, Onward, Initially
  <2>2. RegTypeOK'
    BY <1>1, <2>a, <2>1 DEF RegInv, RegTypeOK
  <2> QED
    BY <1>1, <2>a, <2>1, <2>2 DEF RegInv, ProvedOrWaiting, MailboxProvedFirst
<1>4. CASE AdmitActor(b)
  <2>1. regRequest' \in [Browsers -> RegStep] /\ UNCHANGED signedIn
    BY <1>2, <1>4, Initially DEF AdmitActor
  <2>2. registrant.active /\ ~NeedsVerification => confirmed
    BY <1>2 DEF RegInv, ProvedOrWaiting, NeedsVerification, RegAccount
  <2>3. AdmittedProved'
    BY <1>1, <1>2, <1>4, <2>2, Initially DEF AdmitActor, RegInv, AdmittedProved
  <2>4. RegTypeOK'
    BY <1>1, <2>1 DEF RegInv, RegTypeOK
  <2> QED
    BY <1>1, <2>1, <2>3, <2>4 DEF RegInv, ProvedOrWaiting, MailboxProvedFirst
<1>5. CASE CreateRefreshSession(b)
  <2>1. regRequest' = [regRequest EXCEPT ![b] = RegIdle] /\ signedIn' = signedIn \cup {b}
    BY <1>5 DEF CreateRefreshSession
  <2>2. regRequest' \in [Browsers -> RegStep] /\ AdmittedProved'
    BY <1>1, <2>1, Onward, Initially
  <2>3. regRequest[b] = [step |-> "open"]
    <3>1. regRequest[b] \in RegStep /\ regRequest[b].step = "open"
      BY <1>2, <1>5 DEF CreateRefreshSession
    <3> QED
      BY <3>1 DEF RegStep, RegIdle
  <2>4. confirmed
    BY <2>3 DEF RegInv, AdmittedProved
  <2>5. RegTypeOK'
    BY <1>1, <2>1, <2>2 DEF RegInv, RegTypeOK
  <2> QED
    BY <1>1, <2>2, <2>4, <2>5 DEF RegInv, ProvedOrWaiting, MailboxProvedFirst
<1> QED
  BY <1>3, <1>4, <1>5

LEMMA SurroundingsKeep ==
  ASSUME RegInv,
         (\E b \in Browsers : GoogleChallenge(b)) \/ SetAccountStatus \/ TimePasses
  PROVE  RegInv'
<1>1. UNCHANGED <<lastCode, inbox, regRequest, confirmed>>
  BY DEF GoogleChallenge, SetAccountStatus, TimePasses
<1>2. registrant \in RegAccount /\ challenge \in RegCode
  BY DEF RegInv, RegTypeOK
<1>3. AdmittedProved'
  BY <1>1 DEF RegInv, AdmittedProved
<1>4. ASSUME NEW b \in Browsers, GoogleChallenge(b) PROVE RegInv'
  <2>1. UNCHANGED <<registrant, challenge, continuation, signedIn>>
    BY <1>4 DEF GoogleChallenge
  <2>2. lastNonce' \in 0..MaxNonces /\ lastNonce + 1 \in 1..MaxNonces
    BY <1>4, RegistrationAssumption DEF GoogleChallenge, RegInv, RegTypeOK, RegistrationAssumption
  <2>3. nonces' \subseteq [id : 1..MaxNonces, browser : Browsers]
    BY <1>4, <2>2 DEF GoogleChallenge, RegInv, RegTypeOK
  <2>4. RegTypeOK'
    BY <1>1, <2>1, <2>2, <2>3 DEF RegInv, RegTypeOK
  <2> QED
    BY <1>1, <1>3, <2>1, <2>4 DEF RegInv, ProvedOrWaiting, MailboxProvedFirst
<1>5. CASE SetAccountStatus
  <2>1. UNCHANGED <<challenge, continuation, nonces, lastNonce>> /\ signedIn' \subseteq signedIn
        /\ registrant.exists /\ registrant' = [registrant EXCEPT !.active = ~@]
    BY <1>5 DEF SetAccountStatus
  <2>2. registrant' \in RegAccount /\ registrant'.exists
        /\ registrant'.verified = registrant.verified /\ registrant'.required = registrant.required
    BY <1>2, <2>1 DEF RegAccount
  <2>3. RegTypeOK'
    BY <1>1, <2>1, <2>2 DEF RegInv, RegTypeOK
  <2> QED
    BY <1>1, <1>3, <2>1, <2>2, <2>3 DEF RegInv, ProvedOrWaiting, MailboxProvedFirst
<1>6. CASE TimePasses
  <2>1. UNCHANGED <<registrant, lastNonce, signedIn>> /\ continuation' \subseteq continuation
        /\ nonces' \subseteq nonces
    BY <1>6 DEF TimePasses
  <2>2. challenge' \in RegCode
    BY <1>2, <1>6 DEF TimePasses, RegCode
  <2>3. RegTypeOK'
    BY <1>1, <2>1, <2>2 DEF RegInv, RegTypeOK
  <2> QED
    BY <1>1, <1>3, <2>1, <2>3 DEF RegInv, ProvedOrWaiting, MailboxProvedFirst
<1> QED
  BY <1>4, <1>5, <1>6

-----------------------------------------------------------------------------
LEMMA RegInvStep == RegInv /\ [RegNext]_regVars => RegInv'
<1> SUFFICES ASSUME RegInv, [RegNext]_regVars PROVE RegInv'
  OBVIOUS
<1>1. CASE UNCHANGED regVars
  BY <1>1 DEF RegInv, RegTypeOK, ProvedOrWaiting, AdmittedProved, MailboxProvedFirst, regVars
<1>2. CASE RegNext
  BY <1>2, RegisterKeeps, ResendKeeps, SendKeeps, VerifyKeeps, GoogleKeeps, SignInKeeps,
     SurroundingsKeep DEF RegNext
<1> QED
  BY <1>1, <1>2

LEMMA RegInvHolds == RegSpec => []RegInv
BY RegInvInit, RegInvStep, PTL DEF RegSpec

(* The rows and requests keep their types: attempts never exceed the limit  *)
(* (auth.ts:164-193, email-verification.ts:11-30).                          *)
THEOREM RegistrationTyping == RegSpec => []RegTypeOK
<1>1. RegInv => RegTypeOK
  BY DEF RegInv
<1> QED
  BY <1>1, RegInvHolds, PTL

(* However registrations, codes, Google sign-ins, suspensions and sign-ins  *)
(* of any number of browsers interleave, nobody has a session of an account *)
(* whose mailbox was not proved (auth.ts:304-368, 695-742).                 *)
THEOREM NobodyBeforeTheMailbox == RegSpec => []MailboxProvedFirst
<1>1. RegInv => MailboxProvedFirst
  BY DEF RegInv
<1> QED
  BY <1>1, RegInvHolds, PTL

-----------------------------------------------------------------------------
(* Roles                                                                   *)

(* Two transactions do not hold the same row.                              *)
LocksExclusive ==
  \A r, q \in AdminRequests :
    InTransaction(r) /\ InTransaction(q) /\ roleRequest[r].target = roleRequest[q].target => r = q

(* What was read of the target is still so.                                *)
CheckedStillSo ==
  \A r \in AdminRequests : InTransaction(r) =>
    LET req == roleRequest[r] IN
    /\ req.op = "suspend" => "admin" \notin userRow[req.target].roles
    /\ req.op \in {"grant", "approve"} => userRow[req.target].status = "active"

RolesInv == RolesTypeOK /\ LocksExclusive /\ CheckedStillSo /\ RolesFitAccounts

-----------------------------------------------------------------------------
LEMMA IdleHoldsNothing == RoleIdle.step = "idle" /\ RoleIdle \notin AdminRequest
<1>1. RoleIdle.step = "idle"
  BY DEF RoleIdle
<1>2. \A q \in AdminRequest : q.step # "idle"
  BY DEF AdminRequest
<1> QED
  BY <1>1, <1>2

LEMMA RolesInvInit == RolesInit => RolesInv
<1> SUFFICES ASSUME RolesInit PROVE RolesInv
  OBVIOUS
<1>1. userRow \in [Users -> UserRow]
  BY DEF RolesInit, UserRow, GrantedRoles
<1>2. RolesTypeOK
  BY <1>1, RolesAssumption DEF RolesInit, RolesTypeOK, ReviewStatus, RolesAssumption
<1>3. \A r \in AdminRequests : ~InTransaction(r)
  BY IdleHoldsNothing DEF RolesInit, InTransaction
<1>4. RolesFitAccounts
  BY DEF RolesInit, RolesFitAccounts
<1> QED
  BY <1>2, <1>3, <1>4 DEF RolesInv, LocksExclusive, CheckedStillSo

-----------------------------------------------------------------------------
(* An account after an operation that was allowed is an account, and fits  *)
(* (users.ts:116-237, governance.ts:104-133).                              *)
LEMMA AfterFits ==
  ASSUME NEW req \in AdminRequest, NEW user \in UserRow,
         req.op = "suspend" => "admin" \notin user.roles,
         req.op \in {"grant", "approve"} => user.status = "active",
         "admin" \in user.roles => user.status = "active",
         user.status = "deleted" => user.roles = {}
  PROVE  /\ AccountAfter(req, user) \in UserRow
         /\ "admin" \in AccountAfter(req, user).roles => AccountAfter(req, user).status = "active"
         /\ AccountAfter(req, user).status = "deleted" => AccountAfter(req, user).roles = {}
<1> DEFINE roles == RolesAfter(req, user.roles)
           status == StatusAfter(req.op, user.status)
<1>1. user.roles \subseteq GrantedRoles /\ req.role \in GrantedRoles
      /\ user.status \in {"active", "suspended", "deleted"} /\ req.op \in AdminOps
      /\ user.session \in BOOLEAN
  BY DEF UserRow, AdminRequest
<1>2. roles \subseteq GrantedRoles /\ status \in {"active", "suspended", "deleted"}
  BY <1>1 DEF RolesAfter, StatusAfter
<1>3. "admin" \in roles => status = "active"
  <2>1. CASE req.op \in {"grant", "approve"}
    BY <2>1 DEF StatusAfter
  <2>2. CASE req.op \notin {"grant", "approve"}
    BY <2>2 DEF RolesAfter, StatusAfter
  <2> QED
    BY <2>1, <2>2
<1>4. status = "deleted" => roles = {}
  BY DEF RolesAfter, StatusAfter
<1>5. /\ AccountAfter(req, user) \in UserRow
      /\ AccountAfter(req, user).roles = roles /\ AccountAfter(req, user).status = status
  BY <1>1, <1>2 DEF AccountAfter, UserRow
<1> QED
  BY <1>3, <1>4, <1>5

(* A row that no transaction holds may change without a lock, if it fits.  *)
LEMMA UnlockedRowChanges ==
  ASSUME RolesInv, NEW u \in Users, NEW user \in UserRow,
         userRow' = [userRow EXCEPT ![u] = user],
         "admin" \in user.roles => user.status = "active",
         user.status = "deleted" => user.roles = {}
  PROVE  userRow' \in [Users -> UserRow] /\ RolesFitAccounts'
BY DEF RolesInv, RolesTypeOK, RolesFitAccounts

LEMMA RequestParts ==
  ASSUME RolesInv, NEW r \in AdminRequests, roleRequest[r] # RoleIdle
  PROVE  roleRequest[r] \in AdminRequest
BY DEF RolesInv, RolesTypeOK

LEMMA StartKeeps ==
  ASSUME RolesInv, NEW r \in AdminRequests, NEW a \in Users, NEW op \in AdminOps,
         NEW target \in Users, NEW role \in GrantedRoles,
         StartAdminRequest(r, a, op, target, role)
  PROVE  RolesInv'
<1> DEFINE req == [step |-> "ready", admin |-> a, op |-> op, target |-> target, role |-> role]
<1>1. /\ UNCHANGED <<userRow, application, certificate, privacy>>
      /\ roleRequest' = [roleRequest EXCEPT ![r] = req]
  BY DEF StartAdminRequest
<1>2. req \in AdminRequest /\ req.step # "locked"
  BY DEF AdminRequest
<1> HIDE DEF req
<1>3. RolesTypeOK'
  BY <1>1, <1>2 DEF RolesInv, RolesTypeOK
<1>4. roleRequest \in [AdminRequests -> {RoleIdle} \cup AdminRequest]
  BY DEF RolesInv, RolesTypeOK
<1>5. \A q \in AdminRequests :
        roleRequest'[q].step = "locked" => q # r /\ roleRequest'[q] = roleRequest[q]
  BY <1>1, <1>2, <1>4
<1>6. LocksExclusive' /\ CheckedStillSo'
  BY <1>1, <1>5 DEF RolesInv, LocksExclusive, CheckedStillSo, InTransaction
<1> QED
  BY <1>1, <1>3, <1>6 DEF RolesInv, RolesFitAccounts

(* The check is made with the row locked (users.ts:123-137, 205-213).      *)
LEMMA LockKeeps ==
  ASSUME RolesInv, NEW r \in AdminRequests, LockTarget(r)
  PROVE  RolesInv'
<1> DEFINE req == roleRequest[r]
           locked == [req EXCEPT !.step = "locked"]
           next == IF Allowed(req) THEN locked ELSE RoleIdle
<1>1. /\ UNCHANGED <<userRow, application, certificate, privacy>>
      /\ req.step = "ready" /\ ~RowLocked(req.target)
      /\ roleRequest' = [roleRequest EXCEPT ![r] = next]
  BY DEF LockTarget
<1>2. req \in AdminRequest
  BY <1>1, RequestParts, IdleHoldsNothing
<1>3. /\ locked \in AdminRequest /\ locked.op = req.op /\ locked.target = req.target
      /\ locked.step = "locked"
  BY <1>2 DEF AdminRequest
<1>4. roleRequest \in [AdminRequests -> {RoleIdle} \cup AdminRequest]
  BY DEF RolesInv, RolesTypeOK
<1>5. RolesTypeOK'
  <2>1. next \in {RoleIdle} \cup AdminRequest
    BY <1>3
  <2> HIDE DEF next
  <2> QED
    BY <1>1, <1>4, <2>1 DEF RolesInv, RolesTypeOK
<1>6. \A q \in AdminRequests \ {r} : roleRequest'[q] = roleRequest[q]
  BY <1>1, <1>4
<1>7. roleRequest'[r] = next
  BY <1>1, <1>4
<1>8. CASE ~Allowed(req)
  <2>1. roleRequest'[r].step # "locked"
    BY <1>7, <1>8, IdleHoldsNothing
  <2>2. LocksExclusive' /\ CheckedStillSo'
    BY <1>1, <1>6, <2>1 DEF RolesInv, LocksExclusive, CheckedStillSo, InTransaction
  <2> QED
    BY <1>1, <1>5, <2>2 DEF RolesInv, RolesFitAccounts
<1>9. CASE Allowed(req)
  <2>1. /\ roleRequest'[r].op = req.op /\ roleRequest'[r].target = req.target
    BY <1>3, <1>7, <1>9
  <2>2. LocksExclusive'
    BY <1>1, <1>6, <2>1 DEF RolesInv, LocksExclusive, InTransaction, RowLocked
  <2>3. /\ req.op = "suspend" => "admin" \notin userRow[req.target].roles
        /\ req.op \in {"grant", "approve"} => userRow[req.target].status = "active"
    BY <1>9 DEF Allowed, StatusOps, StatusAllowed, RoleAllowed, DecisionAllowed
  <2> HIDE DEF req, next, locked
  <2>4. CheckedStillSo'
    BY <1>1, <1>6, <2>1, <2>3 DEF RolesInv, CheckedStillSo, InTransaction
  <2> QED
    BY <1>1, <1>5, <2>2, <2>4 DEF RolesInv, RolesFitAccounts
<1> QED
  BY <1>8, <1>9

(* A request that ends lets go of its lock.                                *)
LEMMA LocksAfterEnd ==
  ASSUME RolesInv, NEW r \in AdminRequests,
         roleRequest' = [roleRequest EXCEPT ![r] = RoleIdle]
  PROVE  /\ roleRequest' \in [AdminRequests -> {RoleIdle} \cup AdminRequest]
         /\ LocksExclusive'
         /\ \A q \in AdminRequests :
              roleRequest'[q].step = "locked" => q # r /\ roleRequest'[q] = roleRequest[q]
<1>1. roleRequest \in [AdminRequests -> {RoleIdle} \cup AdminRequest]
  BY DEF RolesInv, RolesTypeOK
<1>2. \A q \in AdminRequests :
        roleRequest'[q].step = "locked" => q # r /\ roleRequest'[q] = roleRequest[q]
  BY <1>1, IdleHoldsNothing
<1>3. LocksExclusive'
  BY <1>2 DEF RolesInv, LocksExclusive, InTransaction
<1> QED
  BY <1>1, <1>2, <1>3

(* The transaction's writes (users.ts:138-156, 180-200, 214-237).          *)
LEMMA CommitKeeps ==
  ASSUME RolesInv, NEW r \in AdminRequests, CommitAdminRequest(r)
  PROVE  RolesInv'
<1> DEFINE req == roleRequest[r]
           user == userRow[req.target]
<1>1. /\ UNCHANGED <<certificate, privacy>> /\ InTransaction(r)
      /\ userRow' = [userRow EXCEPT ![req.target] = AccountAfter(req, user)]
      /\ roleRequest' = [roleRequest EXCEPT ![r] = RoleIdle]
  BY DEF CommitAdminRequest
<1>2. req \in AdminRequest
  BY <1>1, RequestParts, IdleHoldsNothing DEF InTransaction
<1>3. req.target \in Users /\ req.role \in GrantedRoles
  BY <1>2 DEF AdminRequest
<1>4. user \in UserRow
  BY <1>3 DEF RolesInv, RolesTypeOK
<1>5. /\ req.op = "suspend" => "admin" \notin user.roles
      /\ req.op \in {"grant", "approve"} => user.status = "active"
  BY <1>1 DEF RolesInv, CheckedStillSo
<1>6. /\ "admin" \in user.roles => user.status = "active"
      /\ user.status = "deleted" => user.roles = {}
  BY <1>3 DEF RolesInv, RolesFitAccounts
<1>7. /\ AccountAfter(req, user) \in UserRow
      /\ "admin" \in AccountAfter(req, user).roles => AccountAfter(req, user).status = "active"
      /\ AccountAfter(req, user).status = "deleted" => AccountAfter(req, user).roles = {}
  BY <1>2, <1>4, <1>5, <1>6, AfterFits
<1>8. userRow' \in [Users -> UserRow] /\ RolesFitAccounts'
  BY <1>1, <1>3, <1>7, UnlockedRowChanges
<1>9. application' \in [Users -> [AppliedRoles -> ReviewStatus]]
  BY DEF CommitAdminRequest, RolesInv, RolesTypeOK, ReviewStatus
<1>10. CheckedStillSo'
  <2>1. \A q \in AdminRequests : roleRequest'[q].step = "locked" =>
          /\ q # r /\ roleRequest'[q] = roleRequest[q] /\ InTransaction(q)
          /\ roleRequest[q].target # req.target
    BY <1>1, LocksAfterEnd DEF RolesInv, LocksExclusive, InTransaction
  <2>2. \A u \in Users \ {req.target} : userRow'[u] = userRow[u]
    BY <1>1 DEF RolesInv, RolesTypeOK
  <2>3. \A q \in AdminRequests : InTransaction(q) => roleRequest[q].target \in Users
    BY RequestParts, IdleHoldsNothing DEF InTransaction, AdminRequest
  <2> HIDE DEF req, user
  <2> QED
    BY <2>1, <2>2, <2>3 DEF RolesInv, CheckedStillSo, InTransaction
<1>11. RolesTypeOK'
  BY <1>1, <1>8, <1>9, LocksAfterEnd DEF RolesInv, RolesTypeOK
<1> QED
  BY <1>1, <1>8, <1>10, <1>11, LocksAfterEnd DEF RolesInv

LEMMA AbortKeeps ==
  ASSUME RolesInv, NEW r \in AdminRequests, AbortDeadlocked(r)
  PROVE  RolesInv'
<1>1. /\ UNCHANGED <<userRow, application, certificate, privacy>>
      /\ roleRequest' = [roleRequest EXCEPT ![r] = RoleIdle]
  BY DEF AbortDeadlocked
<1>2. CheckedStillSo'
  BY <1>1, LocksAfterEnd DEF RolesInv, CheckedStillSo, InTransaction
<1>3. RolesTypeOK'
  BY <1>1, LocksAfterEnd DEF RolesInv, RolesTypeOK
<1> QED
  BY <1>1, <1>2, <1>3, LocksAfterEnd DEF RolesInv, RolesFitAccounts

-----------------------------------------------------------------------------
(* What members file touches no account (governance.ts:42-101).            *)
LEMMA FilingKeeps ==
  ASSUME RolesInv, NEW u \in Users,
         \/ \E role \in AppliedRoles : CreateRoleApplication(u, role)
         \/ CreateTrainerCertification(u)
         \/ \E a \in Users : DecideTrainerCertification(a, u)
         \/ \E type \in PrivacyTypes : CreatePrivacyRequest(u, type)
  PROVE  RolesInv'
<1>1. UNCHANGED <<userRow, roleRequest>>
  BY DEF CreateRoleApplication, CreateTrainerCertification, DecideTrainerCertification,
         CreatePrivacyRequest
<1>2. application' \in [Users -> [AppliedRoles -> ReviewStatus]]
  BY DEF CreateRoleApplication, CreateTrainerCertification, DecideTrainerCertification,
         CreatePrivacyRequest, RolesInv, RolesTypeOK, ReviewStatus
<1>3. certificate' \in [Users -> 0..MaxCertificates]
  BY RolesAssumption DEF CreateRoleApplication, CreateTrainerCertification, RolesAssumption,
         DecideTrainerCertification, CreatePrivacyRequest, RolesInv, RolesTypeOK
<1>4. privacy' \in [Users -> SUBSET PrivacyTypes]
  BY DEF CreateRoleApplication, CreateTrainerCertification, DecideTrainerCertification,
         CreatePrivacyRequest, RolesInv, RolesTypeOK
<1>5. RolesTypeOK'
  BY <1>1, <1>2, <1>3, <1>4 DEF RolesInv, RolesTypeOK
<1> QED
  BY <1>1, <1>5 DEF RolesInv, LocksExclusive, CheckedStillSo, InTransaction, RolesFitAccounts

LEMMA SessionKeeps ==
  ASSUME RolesInv, NEW u \in Users, OpenSession(u)
  PROVE  RolesInv'
<1> DEFINE user == [userRow[u] EXCEPT !.session = TRUE]
<1>1. /\ UNCHANGED <<application, certificate, privacy, roleRequest>> /\ ~RowLocked(u)
      /\ userRow' = [userRow EXCEPT ![u] = user]
  BY DEF OpenSession
<1>2. userRow \in [Users -> UserRow]
  BY DEF RolesInv, RolesTypeOK
<1>3. user \in UserRow /\ user.roles = userRow[u].roles /\ user.status = userRow[u].status
  BY <1>2 DEF UserRow
<1> HIDE DEF user
<1>4. userRow' \in [Users -> UserRow] /\ RolesFitAccounts'
  BY <1>1, <1>3, UnlockedRowChanges DEF RolesInv, RolesFitAccounts
<1>5. \A v \in Users : userRow'[v].roles = userRow[v].roles /\ userRow'[v].status = userRow[v].status
  BY <1>1, <1>2, <1>3
<1>6. \A q \in AdminRequests : InTransaction(q) => roleRequest[q].target \in Users
  BY RequestParts, IdleHoldsNothing DEF InTransaction, AdminRequest
<1>7. LocksExclusive' /\ CheckedStillSo'
  BY <1>1, <1>5, <1>6 DEF RolesInv, LocksExclusive, CheckedStillSo, InTransaction
<1>8. RolesTypeOK'
  BY <1>1, <1>4 DEF RolesInv, RolesTypeOK
<1> QED
  BY <1>4, <1>7, <1>8 DEF RolesInv

-----------------------------------------------------------------------------
LEMMA RolesInvStep == RolesInv /\ [RolesNext]_roleVars => RolesInv'
<1> SUFFICES ASSUME RolesInv, [RolesNext]_roleVars PROVE RolesInv'
  OBVIOUS
<1>1. CASE UNCHANGED roleVars
  BY <1>1 DEF RolesInv, RolesTypeOK, LocksExclusive, CheckedStillSo, InTransaction,
              RolesFitAccounts, roleVars
<1>2. CASE RolesNext
  <2>1. Members \subseteq Users
    BY RolesAssumption DEF RolesAssumption
  <2> QED
    BY <1>2, <2>1, StartKeeps, LockKeeps, CommitKeeps, AbortKeeps, FilingKeeps, SessionKeeps
       DEF RolesNext
<1> QED
  BY <1>1, <1>2

LEMMA RolesInvHolds == RolesSpec => []RolesInv
BY RolesInvInit, RolesInvStep, PTL DEF RolesSpec

(* Accounts, applications and requests keep their types (users.ts,          *)
(* governance.ts, privacy.ts).                                              *)
THEOREM RolesTyping == RolesSpec => []RolesTypeOK
<1>1. RolesInv => RolesTypeOK
  BY DEF RolesInv
<1> QED
  BY <1>1, RolesInvHolds, PTL

(* Whatever administrators decide, grant, revoke, suspend and delete at the *)
(* same time: an administrator's account is active, and a deleted account   *)
(* has no role (users.ts:116-237, governance.ts:104-133).                   *)
THEOREM RolesFit == RolesSpec => []RolesFitAccounts
<1>1. RolesInv => RolesFitAccounts
  BY DEF RolesInv
<1> QED
  BY <1>1, RolesInvHolds, PTL

-----------------------------------------------------------------------------
(* The second factor                                                       *)

(* A request on its way, and one that has deleted the codes it saw.        *)
SignSteps == {"idle", "check", "fail", "admit", "clear", "act", "notify", "mail"}
SignReq ==
  [op : {"none", "login", "mfa"} \cup GuardedOps, step : SignSteps]
    \cup [op : {"rotate"}, step : {"insert"}, seen : SUBSET ((1..MaxSets) \X (1..CodesPerSet))]

(* A factor that was accepted is behind its secret, or no longer a code.   *)
AcceptedIsSpent ==
  /\ secret.id <= issued.secrets /\ (secret.confirmed => secret.id # 0)
  /\ \A c \in codes : c[1] <= issued.sets
  /\ \A a \in accepted :
       /\ a[1] = "totp" => a[2] \in 1..issued.secrets /\ (a[2] = secret.id => a[3] <= secret.lastStep)
       /\ a[1] = "code" => a[2] <= issued.sets /\ <<a[2], a[3]>> \notin codes

AtStep(s) == {r \in SignRequests : signRequest[r].step = s}

(* Failures that the lock has yet to see: none of an old series, and none  *)
(* of the one that brought the lock that has ended.                        *)
Series == IF failures.stale \/ Locks(failures.count) THEN 0 ELSE failures.count

(* A guess is counted or about to be; under a lock, the requests that read *)
(* it before are all that may still guess.                                 *)
GuessesCounted ==
  /\ failures.locked => guesses + Cardinality(AtStep("check")) <= Threshold - 1 + Cardinality(SignRequests)
  /\ ~failures.locked => guesses <= Series + Cardinality(AtStep("fail"))

SignInv ==
  /\ SignTypeOK /\ signRequest \in [SignRequests -> SignReq]
  /\ AcceptedIsSpent /\ GuessesCounted /\ FactorAcceptedOnce

-----------------------------------------------------------------------------
LEMMA IdleIsRequest == SignIdle \in SignReq /\ SignIdle.step = "idle"
BY DEF SignIdle, SignReq, SignSteps

LEMMA SignInvInit == SignInit => SignInv
<1> SUFFICES ASSUME SignInit PROVE SignInv
  OBVIOUS
<1>1. SignTypeOK
  <2>1. /\ 0 \in 0..Threshold /\ 0 \in 0..MaxEnrolments /\ 0 \in 0..MaxStep + 1
        /\ 0 \in 0..MaxSets /\ 1 \in 1..MaxStep /\ 0 \in Nat
    BY SignInAssumption DEF SignInAssumption
  <2> QED
    BY <2>1 DEF SignInit, SignTypeOK, NoSecret
<1>2. signRequest \in [SignRequests -> SignReq]
  BY IdleIsRequest DEF SignInit
<1>3. AcceptedIsSpent
  BY DEF SignInit, AcceptedIsSpent, NoSecret
<1>4. IsFiniteSet(AtStep("fail")) /\ Cardinality(AtStep("fail")) \in Nat
  BY SignInAssumption, FS_Subset, FS_CardinalityType DEF AtStep, SignInAssumption
<1>5. Cardinality(SignRequests) \in Nat /\ Threshold \in Nat \ {0}
  BY SignInAssumption, FS_CardinalityType DEF SignInAssumption
<1>6. GuessesCounted /\ FactorAcceptedOnce
  BY <1>4, <1>5 DEF SignInit, GuessesCounted, Series, Locks, FactorAcceptedOnce
<1> QED
  BY <1>1, <1>2, <1>3, <1>6 DEF SignInv

-----------------------------------------------------------------------------
(* Requests at a step are counted; one that moves is counted elsewhere.    *)
Holds(x, s) == IF x.step = s THEN 1 ELSE 0

LEMMA CountsAreNumbers ==
  ASSUME NEW s
  PROVE  /\ IsFiniteSet(AtStep(s)) /\ Cardinality(AtStep(s)) \in Nat
         /\ Cardinality(AtStep(s)) <= Cardinality(SignRequests) /\ Cardinality(SignRequests) \in Nat
BY SignInAssumption, FS_Subset, FS_CardinalityType DEF AtStep, SignInAssumption

LEMMA CountsTogether ==
  Cardinality(AtStep("check")) + Cardinality(AtStep("fail")) <= Cardinality(SignRequests)
<1> DEFINE C == AtStep("check")
           F == AtStep("fail")
<1>1. C \cap F = {} /\ C \cup F \in SUBSET SignRequests
  BY DEF AtStep
<1>2. IsFiniteSet(C) /\ IsFiniteSet(F) /\ Cardinality(C) \in Nat /\ Cardinality(F) \in Nat
  BY CountsAreNumbers
<1> HIDE DEF C, F
<1>3. Cardinality(C \cup F) = Cardinality(C) + Cardinality(F)
  BY <1>1, <1>2, FS_Union, FS_EmptySet
<1>4. Cardinality(C \cup F) <= Cardinality(SignRequests)
  BY <1>1, FS_Subset, SignInAssumption DEF SignInAssumption
<1> QED
  BY <1>3, <1>4 DEF C, F

LEMMA CountsMove ==
  ASSUME signRequest \in [SignRequests -> SignReq], NEW r \in SignRequests, NEW q,
         signRequest' = [signRequest EXCEPT ![r] = q], NEW s
  PROVE  Cardinality(AtStep(s))' = Cardinality(AtStep(s)) - Holds(signRequest[r], s) + Holds(q, s)
<1> DEFINE S == AtStep(s)
           T == S \ {r}
<1>1. IsFiniteSet(S) /\ Cardinality(S) \in Nat
  BY CountsAreNumbers
<1>2. r \in S <=> signRequest[r].step = s
  BY DEF AtStep
<1>3. AtStep(s)' = IF q.step = s THEN T \cup {r} ELSE T
  BY DEF AtStep
<1>4. r \notin T
  OBVIOUS
<1> HIDE DEF S, T
<1>5. IsFiniteSet(T) /\ Cardinality(T) = Cardinality(S) - Holds(signRequest[r], s)
  BY <1>1, <1>2, FS_RemoveElement DEF Holds, T
<1>6. Cardinality(T \cup {r}) = Cardinality(T) + 1
  BY <1>4, <1>5, FS_AddElement
<1>7. Cardinality(T) \in Int
  BY <1>1, <1>5 DEF Holds
<1>8. CASE q.step = s
  BY <1>3, <1>5, <1>6, <1>7, <1>8, <1>1 DEF Holds, S
<1>9. CASE q.step # s
  BY <1>3, <1>5, <1>7, <1>9, <1>1 DEF Holds, S
<1> QED
  BY <1>8, <1>9

LEMMA InvBounds == SignInv => FactorsHold
<1> SUFFICES ASSUME SignInv PROVE GuessesBounded
  BY DEF SignInv, FactorsHold
<1>1. /\ guesses \in Nat /\ failures.locked \in BOOLEAN /\ failures.count \in 0..Threshold
      /\ Threshold \in Nat \ {0}
  BY SignInAssumption DEF SignInv, SignTypeOK, SignInAssumption
<1>2. /\ Cardinality(SignRequests) \in Nat /\ Cardinality(AtStep("check")) \in Nat
      /\ Cardinality(AtStep("fail")) \in Nat
      /\ Cardinality(AtStep("fail")) <= Cardinality(SignRequests)
  BY CountsAreNumbers
<1>3. CASE failures.locked
  BY <1>1, <1>2, <1>3 DEF SignInv, GuessesCounted, GuessesBounded
<1>4. CASE ~failures.locked
  BY <1>1, <1>2, <1>4 DEF SignInv, GuessesCounted, Series, Locks, GuessesBounded
<1> QED
  BY <1>3, <1>4

(* A request that does not guess, and has no failure to register.          *)
LEMMA CountedWhenItMoves ==
  ASSUME SignInv, NEW r \in SignRequests, NEW q \in SignReq,
         signRequest' = [signRequest EXCEPT ![r] = q],
         failures'.count = failures.count, failures'.stale = failures.stale,
         failures'.locked = failures.locked, guesses' = guesses,
         signRequest[r].step # "fail", q.step = "check" => ~failures.locked
  PROVE  GuessesCounted'
<1>1. signRequest \in [SignRequests -> SignReq] /\ GuessesCounted /\ guesses \in Nat
      /\ failures.locked \in BOOLEAN
  BY DEF SignInv, SignTypeOK
<1>2. /\ Cardinality(AtStep("check"))' = Cardinality(AtStep("check")) - Holds(signRequest[r], "check")
                                           + Holds(q, "check")
      /\ Cardinality(AtStep("fail"))' = Cardinality(AtStep("fail")) - Holds(signRequest[r], "fail")
                                           + Holds(q, "fail")
  BY <1>1, CountsMove
<1>3. /\ Cardinality(AtStep("check")) \in Nat /\ Cardinality(AtStep("fail")) \in Nat
      /\ Cardinality(SignRequests) \in Nat /\ Threshold \in Nat
  BY CountsAreNumbers, SignInAssumption DEF SignInAssumption
<1>4. Series' = Series /\ Series \in Nat
  BY DEF Series, Locks, SignInv, SignTypeOK
<1>5. CASE failures.locked
  <2>1. Cardinality(AtStep("check"))' <= Cardinality(AtStep("check"))
    BY <1>2, <1>3, <1>5 DEF Holds
  <2>2. Cardinality(AtStep("check"))' \in Int
    BY <1>2, <1>3 DEF Holds
  <2> QED
    BY <1>1, <1>3, <1>5, <2>1, <2>2 DEF GuessesCounted
<1>6. CASE ~failures.locked
  <2>1. Cardinality(AtStep("fail"))' >= Cardinality(AtStep("fail"))
    BY <1>2, <1>3, <1>6 DEF Holds
  <2>2. Cardinality(AtStep("fail"))' \in Int
    BY <1>2, <1>3 DEF Holds
  <2> QED
    BY <1>1, <1>3, <1>4, <1>6, <2>1, <2>2 DEF GuessesCounted
<1> QED
  BY <1>5, <1>6

(* A guess: a password or a factor that is wrong.                          *)
LEMMA CountedWhenItGuesses ==
  ASSUME SignInv, NEW r \in SignRequests, NEW q \in SignReq,
         signRequest' = [signRequest EXCEPT ![r] = q], UNCHANGED failures, guesses' = guesses + 1,
         signRequest[r].step = "check", q.step = "fail"
  PROVE  GuessesCounted'
<1>1. signRequest \in [SignRequests -> SignReq] /\ GuessesCounted /\ guesses \in Nat
      /\ failures.locked \in BOOLEAN
  BY DEF SignInv, SignTypeOK
<1>2. /\ Cardinality(AtStep("check"))' = Cardinality(AtStep("check")) - 1
      /\ Cardinality(AtStep("fail"))' = Cardinality(AtStep("fail")) + 1
  <2>1. /\ Cardinality(AtStep("check"))' = Cardinality(AtStep("check"))
             - Holds(signRequest[r], "check") + Holds(q, "check")
        /\ Cardinality(AtStep("fail"))' = Cardinality(AtStep("fail"))
             - Holds(signRequest[r], "fail") + Holds(q, "fail")
    BY <1>1, CountsMove
  <2>2. Cardinality(AtStep("check")) \in Nat /\ Cardinality(AtStep("fail")) \in Nat
    BY CountsAreNumbers
  <2> QED
    BY <2>1, <2>2 DEF Holds
<1>3. /\ Cardinality(AtStep("check")) \in Nat /\ Cardinality(AtStep("fail")) \in Nat
      /\ Cardinality(SignRequests) \in Nat /\ Threshold \in Nat
  BY CountsAreNumbers, SignInAssumption DEF SignInAssumption
<1>4. Series' = Series /\ Series \in Nat
  BY DEF Series, Locks, SignInv, SignTypeOK
<1> QED
  BY <1>1, <1>2, <1>3, <1>4 DEF GuessesCounted

(* What a request may become.                                              *)
LEMMA RequestMoves ==
  ASSUME SignInv, NEW r \in SignRequests, NEW s \in SignSteps, Goto(r, s),
         signRequest[r].step \in SignSteps
  PROVE  \E q \in SignReq : /\ signRequest' = [signRequest EXCEPT ![r] = q] /\ q.step = s
                            /\ signRequest' \in [SignRequests -> SignReq]
<1> DEFINE q == [signRequest[r] EXCEPT !.step = s]
<1>1. signRequest \in [SignRequests -> SignReq]
  BY DEF SignInv
<1>2. signRequest[r] \in [op : {"none", "login", "mfa"} \cup GuardedOps, step : SignSteps]
  BY <1>1 DEF SignReq, SignSteps
<1>3. q \in [op : {"none", "login", "mfa"} \cup GuardedOps, step : SignSteps] /\ q.step = s
  BY <1>2
<1>4. q \in SignReq
  BY <1>3 DEF SignReq
<1>5. signRequest' = [signRequest EXCEPT ![r] = q]
  BY DEF Goto
<1> QED
  BY <1>1, <1>3, <1>4, <1>5

LEMMA RequestEnds ==
  ASSUME SignInv, NEW r \in SignRequests, End(r)
  PROVE  /\ signRequest' = [signRequest EXCEPT ![r] = SignIdle]
         /\ signRequest' \in [SignRequests -> SignReq]
BY IdleIsRequest DEF SignInv, End

-----------------------------------------------------------------------------
(* Steps that give no factor, no code and no failure away.                 *)
LEMMA FactorsUntouched ==
  ASSUME SignInv, UNCHANGED <<secret, codes, issued, accepted, twice>>
  PROVE  AcceptedIsSpent' /\ FactorAcceptedOnce'
BY DEF SignInv, AcceptedIsSpent, FactorAcceptedOnce

LEMMA StartKeepsCount ==
  ASSUME SignInv, NEW r \in SignRequests, NEW op \in {"login", "mfa"} \cup GuardedOps,
         StartRequest(r, op)
  PROVE  SignInv'
<1> DEFINE q == [op |-> op, step |-> "check"]
<1>1. q \in SignReq /\ q.step = "check"
  BY DEF SignReq, SignSteps
<1>2. signRequest' = [signRequest EXCEPT ![r] = q] /\ signRequest' \in [SignRequests -> SignReq]
  BY <1>1 DEF StartRequest, SignInv
<1>3. SignTypeOK'
  BY DEF StartRequest, SignInv, SignTypeOK
<1>4. GuessesCounted'
  <2>1. signRequest[r].step # "fail"
    BY IdleIsRequest DEF StartRequest
  <2> HIDE DEF q
  <2> QED
    BY <1>1, <1>2, <2>1, CountedWhenItMoves DEF StartRequest
<1>5. AcceptedIsSpent' /\ FactorAcceptedOnce'
  BY FactorsUntouched DEF StartRequest
<1> QED
  BY <1>2, <1>3, <1>4, <1>5 DEF SignInv

LEMMA PasswordKeeps ==
  ASSUME SignInv, NEW r \in SignRequests, CheckPassword(r)
  PROVE  SignInv'
<1>1. signRequest[r].step = "check"
  BY DEF CheckPassword
<1>2. SignTypeOK'
  BY DEF CheckPassword, SignInv, SignTypeOK
<1>3. AcceptedIsSpent' /\ FactorAcceptedOnce'
  BY FactorsUntouched DEF CheckPassword
<1>4. CASE Goto(r, "admit") /\ UNCHANGED guesses
  <2>1. PICK q \in SignReq : /\ signRequest' = [signRequest EXCEPT ![r] = q] /\ q.step = "admit"
                             /\ signRequest' \in [SignRequests -> SignReq]
    BY <1>1, <1>4, RequestMoves DEF SignSteps
  <2>2. GuessesCounted'
    BY <1>1, <1>4, <2>1, CountedWhenItMoves DEF CheckPassword
  <2> QED
    BY <1>2, <1>3, <2>1, <2>2 DEF SignInv
<1>5. CASE Goto(r, "fail") /\ guesses' = guesses + 1
  <2>1. PICK q \in SignReq : /\ signRequest' = [signRequest EXCEPT ![r] = q] /\ q.step = "fail"
                             /\ signRequest' \in [SignRequests -> SignReq]
    BY <1>1, <1>5, RequestMoves DEF SignSteps
  <2>2. GuessesCounted'
    BY <1>1, <1>5, <2>1, CountedWhenItGuesses DEF CheckPassword
  <2> QED
    BY <1>2, <1>3, <2>1, <2>2 DEF SignInv
<1> QED
  BY <1>4, <1>5 DEF CheckPassword


(* A step of the clock is accepted once of a secret, and codes that were   *)
(* not there when it was are of a later set (mfa/service.ts:94-177).       *)
LEMMA TotpIsSpent ==
  ASSUME SignInv, NEW t \in FreshSteps, NEW c \in BOOLEAN, secret.id # 0,
         secret' = [secret EXCEPT !.confirmed = c, !.lastStep = t], Accept("totp", secret.id, t),
         issued'.secrets = issued.secrets, issued'.sets >= issued.sets, issued'.sets \in Nat,
         \A k \in codes' : k[1] <= issued'.sets /\ (k \in codes \/ k[1] > issued.sets)
  PROVE  AcceptedIsSpent' /\ FactorAcceptedOnce'
<1> DEFINE new == <<"totp", secret.id, t>>
<1>1. /\ secret \in [id : 0..MaxEnrolments, confirmed : BOOLEAN, lastStep : 0..MaxStep + 1]
      /\ issued.sets \in Nat /\ issued.secrets \in Nat /\ clock \in Nat /\ MaxStep \in Nat
  BY SignInAssumption DEF SignInv, SignTypeOK, SignInAssumption
<1>2. t \in Nat /\ t > secret.lastStep
  BY <1>1 DEF FreshSteps
<1>3. secret'.id = secret.id /\ secret'.lastStep = t /\ secret.id \in 1..issued.secrets
  BY <1>1 DEF SignInv, AcceptedIsSpent
<1>4. \A a \in accepted : a[1] = "totp" => a[2] \in 1..issued.secrets /\ (a[2] = secret.id => a[3] <= t /\ a[3] # t)
  <2> TAKE a \in accepted
  <2> HAVE a[1] = "totp"
  <2>1. a \in {"totp"} \X (1..MaxEnrolments) \X (1..MaxStep + 1)
    BY DEF SignInv, SignTypeOK
  <2>2. a[2] \in 1..issued.secrets /\ (a[2] = secret.id => a[3] <= secret.lastStep) /\ a[3] \in 1..MaxStep + 1
    BY <2>1 DEF SignInv, AcceptedIsSpent
  <2> QED
    BY <1>1, <1>2, <2>2
<1>5. \A a \in accepted : a[1] = "code" => a[2] <= issued'.sets /\ <<a[2], a[3]>> \notin codes'
  <2> TAKE a \in accepted
  <2> HAVE a[1] = "code"
  <2>1. a \in {"code"} \X (1..MaxSets) \X (1..CodesPerSet)
    BY DEF SignInv, SignTypeOK
  <2>2. a[2] <= issued.sets /\ <<a[2], a[3]>> \notin codes /\ a[2] \in Nat
    BY <2>1, SignInAssumption DEF SignInv, AcceptedIsSpent, SignInAssumption
  <2>3. <<a[2], a[3]>>[1] = a[2]
    OBVIOUS
  <2> QED
    BY <1>1, <2>2, <2>3
<1>6. new \notin accepted
  <2>1. new[1] = "totp" /\ new[2] = secret.id /\ new[3] = t
    OBVIOUS
  <2> QED
    BY <1>4, <2>1
<1>7. accepted' = accepted \cup {new} /\ ~twice'
  BY <1>6 DEF Accept, SignInv, FactorAcceptedOnce
<1>8. \A a \in accepted' :
        /\ a[1] = "totp" => a[2] \in 1..issued'.secrets /\ (a[2] = secret'.id => a[3] <= secret'.lastStep)
        /\ a[1] = "code" => a[2] <= issued'.sets /\ <<a[2], a[3]>> \notin codes'
  <2>1. /\ new[1] = "totp" /\ new[2] = secret.id /\ new[3] = t
    OBVIOUS
  <2>2. new[1] # "code" /\ t <= t
    BY <1>2, <2>1
  <2> QED
    BY <1>3, <1>4, <1>5, <1>7, <2>1, <2>2
<1> QED
  BY <1>1, <1>3, <1>7, <1>8 DEF AcceptedIsSpent, SignInv, FactorAcceptedOnce

LEMMA CodeIsSpent ==
  ASSUME SignInv, NEW c \in codes, codes' = codes \ {c}, UNCHANGED <<secret, issued>>,
         Accept("code", c[1], c[2])
  PROVE  AcceptedIsSpent' /\ FactorAcceptedOnce'
<1> DEFINE new == <<"code", c[1], c[2]>>
<1>1. c \in (1..MaxSets) \X (1..CodesPerSet) /\ c = <<c[1], c[2]>>
  BY DEF SignInv, SignTypeOK
<1>2. new[1] = "code" /\ new[2] = c[1] /\ new[3] = c[2]
  OBVIOUS
<1>3. new \notin accepted
  BY <1>1, <1>2 DEF SignInv, AcceptedIsSpent
<1>4. accepted' = accepted \cup {new} /\ ~twice'
  BY <1>3 DEF Accept, SignInv, FactorAcceptedOnce
<1>5. c[1] <= issued.sets /\ new[1] # "totp" /\ <<new[2], new[3]>> \notin codes'
  BY <1>1, <1>2 DEF SignInv, AcceptedIsSpent
<1>6. \A a \in accepted' :
        /\ a[1] = "totp" => a[2] \in 1..issued'.secrets /\ (a[2] = secret'.id => a[3] <= secret'.lastStep)
        /\ a[1] = "code" => a[2] <= issued'.sets /\ <<a[2], a[3]>> \notin codes'
  BY <1>2, <1>4, <1>5 DEF SignInv, AcceptedIsSpent
<1> QED
  BY <1>4, <1>6 DEF AcceptedIsSpent, SignInv, FactorAcceptedOnce

LEMMA FactorKeeps ==
  ASSUME SignInv, NEW r \in SignRequests, CheckFactor(r)
  PROVE  SignInv'
<1>1. signRequest[r].step = "check" /\ UNCHANGED <<failures, issued, clock, pass>>
  BY DEF CheckFactor
<1>2. CASE Goto(r, "fail") /\ guesses' = guesses + 1 /\ UNCHANGED <<secret, codes, accepted, twice>>
  <2>1. PICK q \in SignReq : /\ signRequest' = [signRequest EXCEPT ![r] = q] /\ q.step = "fail"
                             /\ signRequest' \in [SignRequests -> SignReq]
    BY <1>1, <1>2, RequestMoves DEF SignSteps
  <2>2. GuessesCounted'
    BY <1>1, <1>2, <2>1, CountedWhenItGuesses
  <2>3. SignTypeOK'
    BY <1>1, <1>2 DEF SignInv, SignTypeOK
  <2> QED
    BY <1>1, <1>2, <2>1, <2>2, <2>3, FactorsUntouched DEF SignInv
<1>3. CASE (AcceptTotp(r) \/ AcceptRecoveryCode(r)) /\ secret.confirmed /\ Goto(r, "clear") /\ UNCHANGED guesses
  <2>1. PICK q \in SignReq : /\ signRequest' = [signRequest EXCEPT ![r] = q] /\ q.step = "clear"
                             /\ signRequest' \in [SignRequests -> SignReq]
    BY <1>1, <1>3, RequestMoves DEF SignSteps
  <2>2. GuessesCounted'
    BY <1>1, <1>3, <2>1, CountedWhenItMoves
  <2>3. CASE AcceptTotp(r)
    <3>1. PICK t \in FreshSteps : /\ secret' = [secret EXCEPT !.lastStep = t]
                                  /\ Accept("totp", secret.id, t) /\ UNCHANGED codes
      BY <2>3 DEF AcceptTotp
    <3>2. secret' = [secret EXCEPT !.confirmed = TRUE, !.lastStep = t] /\ secret.id # 0
      BY <1>3, <3>1 DEF SignInv, SignTypeOK, AcceptedIsSpent
    <3>3. issued.sets \in Nat /\ \A k \in codes' : k[1] <= issued'.sets /\ k \in codes
      BY <1>1, <3>1 DEF SignInv, SignTypeOK, AcceptedIsSpent
    <3>4. AcceptedIsSpent' /\ FactorAcceptedOnce'
      <4>1. issued'.secrets = issued.secrets /\ issued'.sets >= issued.sets /\ issued'.sets \in Nat
        BY <1>1, <3>3
      <4>2. TRUE \in BOOLEAN
        OBVIOUS
      <4> QED
        BY <3>1, <3>2, <3>3, <4>1, <4>2, TotpIsSpent
    <3>5. t \in 1..MaxStep + 1 /\ secret.id \in 1..MaxEnrolments
      BY <3>2, SignInAssumption DEF FreshSteps, SignInv, SignTypeOK, SignInAssumption
    <3>6. /\ secret' \in [id : 0..MaxEnrolments, confirmed : BOOLEAN, lastStep : 0..MaxStep + 1]
          /\ <<"totp", secret.id, t>> \in {"totp"} \X (1..MaxEnrolments) \X (1..MaxStep + 1)
          /\ twice' \in BOOLEAN
      BY <3>2, <3>5, <3>1 DEF SignInv, SignTypeOK, Accept
    <3>7. SignTypeOK'
      BY <1>1, <1>3, <3>1, <3>6 DEF SignInv, SignTypeOK, Accept
    <3> QED
      BY <2>1, <2>2, <3>4, <3>7 DEF SignInv
  <2>4. CASE AcceptRecoveryCode(r)
    <3>1. PICK c \in codes : codes' = codes \ {c} /\ Accept("code", c[1], c[2]) /\ UNCHANGED secret
      BY <2>4 DEF AcceptRecoveryCode
    <3>2. AcceptedIsSpent' /\ FactorAcceptedOnce'
      BY <1>1, <3>1, CodeIsSpent
    <3>3. <<"code", c[1], c[2]>> \in {"code"} \X (1..MaxSets) \X (1..CodesPerSet) /\ twice' \in BOOLEAN
      BY <3>1 DEF SignInv, SignTypeOK, Accept
    <3>4. SignTypeOK'
      BY <1>1, <1>3, <3>1, <3>3 DEF SignInv, SignTypeOK, Accept
    <3> QED
      BY <2>1, <2>2, <3>2, <3>4 DEF SignInv
  <2> QED
    BY <1>3, <2>3, <2>4
<1> QED
  BY <1>2, <1>3 DEF CheckFactor

(* A failure is registered: the series grows by one, or brings the lock    *)
(* (lockout.ts:66-127).                                                    *)
LEMMA RegisterKeepsCount ==
  ASSUME SignInv, NEW r \in SignRequests, RegisterFailure(r)
  PROVE  SignInv'
<1> DEFINE count == IF failures.stale THEN 1
                    ELSE IF Locks(failures.count) THEN failures.count ELSE failures.count + 1
<1>1. /\ signRequest[r].step = "fail"
      /\ failures' = [failures EXCEPT !.count = count, !.stale = FALSE, !.locked = Locks(count) \/ @]
      /\ UNCHANGED <<secret, codes, issued, clock, pass, guesses, accepted, twice>>
  BY DEF RegisterFailure
<1>2. /\ failures \in [count : 0..Threshold, locked : BOOLEAN, stale : BOOLEAN, mailed : BOOLEAN]
      /\ Threshold \in Nat \ {0} /\ guesses \in Nat
      /\ signRequest \in [SignRequests -> SignReq] /\ GuessesCounted
  BY SignInAssumption DEF SignInv, SignTypeOK, SignInAssumption
<1>3. count \in 1..Threshold /\ (~Locks(count) => count = Series + 1)
  BY <1>2 DEF Locks, Series
<1>4. \E q \in SignReq : /\ signRequest' = [signRequest EXCEPT ![r] = q]
                         /\ q.step # "check" /\ q.step # "fail"
                         /\ signRequest' \in [SignRequests -> SignReq]
  <2>1. CASE End(r)
    BY <2>1, RequestEnds, IdleIsRequest
  <2>2. CASE Goto(r, "notify")
    BY <1>1, <2>2, RequestMoves DEF SignSteps
  <2> QED
    BY <2>1, <2>2 DEF RegisterFailure
<1> HIDE DEF count
<1>5. PICK q \in SignReq : /\ signRequest' = [signRequest EXCEPT ![r] = q]
                           /\ q.step # "check" /\ q.step # "fail"
                           /\ signRequest' \in [SignRequests -> SignReq]
  BY <1>4
<1>6. /\ Cardinality(AtStep("check"))' = Cardinality(AtStep("check"))
      /\ Cardinality(AtStep("fail"))' = Cardinality(AtStep("fail")) - 1
  <2>1. /\ Cardinality(AtStep("check"))' = Cardinality(AtStep("check"))
             - Holds(signRequest[r], "check") + Holds(q, "check")
        /\ Cardinality(AtStep("fail"))' = Cardinality(AtStep("fail"))
             - Holds(signRequest[r], "fail") + Holds(q, "fail")
    BY <1>2, <1>5, CountsMove
  <2>2. Cardinality(AtStep("check")) \in Nat /\ Cardinality(AtStep("fail")) \in Nat
    BY CountsAreNumbers
  <2> QED
    BY <1>1, <1>5, <2>1, <2>2 DEF Holds
<1>7. /\ Cardinality(AtStep("check")) \in Nat /\ Cardinality(AtStep("fail")) \in Nat
      /\ Cardinality(SignRequests) \in Nat
      /\ Cardinality(AtStep("check")) + Cardinality(AtStep("fail")) <= Cardinality(SignRequests)
  BY CountsAreNumbers, CountsTogether
<1>8. /\ failures'.count = count /\ failures'.stale = FALSE
      /\ failures'.locked = (Locks(count) \/ failures.locked)
      /\ failures' \in [count : 0..Threshold, locked : BOOLEAN, stale : BOOLEAN, mailed : BOOLEAN]
  <2>1. (Locks(count) \/ failures.locked) \in BOOLEAN /\ count \in 0..Threshold
    BY <1>3, <1>2
  <2> QED
    BY <1>1, <1>2, <2>1
<1>9. GuessesCounted'
  <2>1. CASE failures.locked
    <3>1. guesses' + Cardinality(AtStep("check"))' <= Threshold - 1 + Cardinality(SignRequests)
      BY <1>1, <1>2, <1>6, <1>7, <2>1 DEF GuessesCounted
    <3> QED
      BY <1>8, <2>1, <3>1 DEF GuessesCounted
  <2>2. CASE ~failures.locked /\ Locks(count)
    <3>1. Series \in 0..Threshold - 1
      BY <1>2 DEF Series, Locks
    <3>2. guesses' + Cardinality(AtStep("check"))' <= Threshold - 1 + Cardinality(SignRequests)
      BY <1>1, <1>2, <1>6, <1>7, <2>2, <3>1 DEF GuessesCounted
    <3> QED
      BY <1>8, <2>2, <3>2 DEF GuessesCounted
  <2>3. CASE ~failures.locked /\ ~Locks(count)
    <3>1. Series' = Series + 1 /\ Series \in Nat
      BY <1>2, <1>3, <1>8, <2>3 DEF Series, Locks
    <3>2. guesses' <= Series' + Cardinality(AtStep("fail"))'
      BY <1>1, <1>2, <1>6, <1>7, <2>3, <3>1 DEF GuessesCounted
    <3> QED
      BY <1>8, <2>3, <3>2 DEF GuessesCounted
  <2> QED
    BY <2>1, <2>2, <2>3
<1>10. SignTypeOK'
  BY <1>1, <1>8 DEF SignInv, SignTypeOK
<1>11. AcceptedIsSpent' /\ FactorAcceptedOnce'
  BY <1>1, FactorsUntouched
<1> QED
  BY <1>5, <1>9, <1>10, <1>11 DEF SignInv

(* The mail about a lock.                                                  *)
LEMMA MailKeeps ==
  ASSUME SignInv, NEW r \in SignRequests, ClaimLockNotification(r) \/ SendLockNotification(r)
  PROVE  SignInv'
<1>1. /\ signRequest[r].step \in {"notify", "mail"}
      /\ UNCHANGED <<secret, codes, issued, clock, pass, guesses, accepted, twice>>
      /\ \E m \in BOOLEAN : failures' \in {failures, [failures EXCEPT !.mailed = m]}
  BY DEF ClaimLockNotification, SendLockNotification
<1>2. failures \in [count : 0..Threshold, locked : BOOLEAN, stale : BOOLEAN, mailed : BOOLEAN]
  BY DEF SignInv, SignTypeOK
<1>3. /\ failures' \in [count : 0..Threshold, locked : BOOLEAN, stale : BOOLEAN, mailed : BOOLEAN]
      /\ failures'.count = failures.count /\ failures'.stale = failures.stale
      /\ failures'.locked = failures.locked
  BY <1>1, <1>2
<1>4. PICK q \in SignReq : /\ signRequest' = [signRequest EXCEPT ![r] = q]
                           /\ q.step # "check" /\ q.step # "fail"
                           /\ signRequest' \in [SignRequests -> SignReq]
  <2>1. CASE End(r)
    BY <2>1, RequestEnds, IdleIsRequest
  <2>2. CASE Goto(r, "mail")
    BY <1>1, <2>2, RequestMoves DEF SignSteps
  <2> QED
    BY <2>1, <2>2 DEF ClaimLockNotification, SendLockNotification
<1>5. GuessesCounted'
  BY <1>1, <1>3, <1>4, CountedWhenItMoves
<1>6. SignTypeOK'
  BY <1>1, <1>3 DEF SignInv, SignTypeOK
<1> QED
  BY <1>1, <1>4, <1>5, <1>6, FactorsUntouched DEF SignInv

(* What follows a proof: a continuation, a session or a step-up token.     *)
LEMMA GrantKeeps ==
  ASSUME SignInv, NEW r \in SignRequests, AdmitPrimary(r) \/ Grant(r)
  PROVE  SignInv'
<1>1. /\ signRequest[r].step \in {"admit", "act"}
      /\ UNCHANGED <<failures, secret, codes, issued, clock, guesses, accepted, twice>>
      /\ pass' \subseteq pass \cup {"continuation", "session"}
      /\ End(r) \/ Goto(r, "clear")
  BY DEF AdmitPrimary, Grant
<1>2. PICK q \in SignReq : /\ signRequest' = [signRequest EXCEPT ![r] = q]
                           /\ q.step # "check" /\ q.step # "fail"
                           /\ signRequest' \in [SignRequests -> SignReq]
  <2>1. CASE End(r)
    BY <2>1, RequestEnds, IdleIsRequest
  <2>2. CASE Goto(r, "clear")
    BY <1>1, <2>2, RequestMoves DEF SignSteps
  <2> QED
    BY <1>1, <2>1, <2>2
<1>3. GuessesCounted'
  BY <1>1, <1>2, CountedWhenItMoves
<1>4. SignTypeOK'
  BY <1>1 DEF SignInv, SignTypeOK
<1> QED
  BY <1>1, <1>2, <1>3, <1>4, FactorsUntouched DEF SignInv

LEMMA ClearKeeps ==
  ASSUME SignInv, NEW r \in SignRequests, ClearFailures(r)
  PROVE  SignInv'
<1>1. /\ signRequest[r].step = "clear"
      /\ failures' = [failures EXCEPT !.count = 0, !.locked = FALSE] /\ guesses' = 0
      /\ Goto(r, "act") /\ UNCHANGED <<secret, codes, issued, clock, pass, accepted, twice>>
  BY DEF ClearFailures
<1>2. signRequest' \in [SignRequests -> SignReq]
  BY <1>1, RequestMoves DEF SignSteps
<1>3. /\ failures' \in [count : 0..Threshold, locked : BOOLEAN, stale : BOOLEAN, mailed : BOOLEAN]
      /\ failures'.count = 0 /\ ~failures'.locked /\ Threshold \in Nat \ {0}
  <2>1. 0 \in 0..Threshold /\ Threshold \in Nat \ {0}
    BY SignInAssumption DEF SignInAssumption
  <2>2. failures \in [count : 0..Threshold, locked : BOOLEAN, stale : BOOLEAN, mailed : BOOLEAN]
    BY DEF SignInv, SignTypeOK
  <2> QED
    BY <1>1, <2>1, <2>2
<1>4. Cardinality(AtStep("fail")') \in Nat /\ Series' = 0
  <2>1. AtStep("fail")' \in SUBSET SignRequests
    BY DEF AtStep
  <2>2. Series' = 0
    BY <1>3 DEF Series
  <2> QED
    BY <2>1, <2>2, SignInAssumption, FS_Subset, FS_CardinalityType DEF SignInAssumption
<1>5. GuessesCounted'
  BY <1>1, <1>3, <1>4 DEF GuessesCounted
<1>6. SignTypeOK'
  BY <1>1, <1>3 DEF SignInv, SignTypeOK
<1> QED
  BY <1>1, <1>2, <1>5, <1>6, FactorsUntouched DEF SignInv

-----------------------------------------------------------------------------
(* Secrets and codes that are made, replaced and removed.                  *)
LEMMA DisableKeeps ==
  ASSUME SignInv, NEW r \in SignRequests, DisableMfa(r)
  PROVE  SignInv'
<1>1. /\ signRequest[r] = [op |-> "disable", step |-> "act"] /\ End(r)
      /\ secret' = NoSecret /\ codes' = {}
      /\ UNCHANGED <<failures, issued, clock, pass, guesses, accepted, twice>>
  BY DEF DisableMfa
<1>2. signRequest' = [signRequest EXCEPT ![r] = SignIdle] /\ signRequest' \in [SignRequests -> SignReq]
  BY <1>1, RequestEnds
<1>3. GuessesCounted'
  <2>1. signRequest[r].step = "act"
    BY <1>1
  <2> QED
    BY <1>1, <1>2, <2>1, IdleIsRequest, CountedWhenItMoves
<1>4. NoSecret \in [id : 0..MaxEnrolments, confirmed : BOOLEAN, lastStep : 0..MaxStep + 1]
      /\ NoSecret.id = 0 /\ ~NoSecret.confirmed
  <2>1. 0 \in 0..MaxEnrolments /\ 0 \in 0..MaxStep + 1
    BY SignInAssumption DEF SignInAssumption
  <2> QED
    BY <2>1 DEF NoSecret
<1>5. SignTypeOK'
  BY <1>1, <1>4 DEF SignInv, SignTypeOK
<1>6. AcceptedIsSpent'
  <2>1. issued.secrets \in Nat
    BY SignInAssumption DEF SignInv, SignTypeOK, SignInAssumption
  <2>2. \A a \in accepted : a[1] = "totp" => a[2] \in 1..issued.secrets
    BY DEF SignInv, AcceptedIsSpent
  <2>3. 0 \notin 1..issued.secrets
    BY <2>1
  <2>4. \A a \in accepted : a[1] = "totp" => a[2] \in 1..issued.secrets /\ a[2] # 0
    BY <2>2, <2>3
  <2>5. \A a \in accepted : a[1] = "code" => a[2] <= issued.sets
    BY DEF SignInv, AcceptedIsSpent
  <2>6. secret'.id = 0 /\ ~secret'.confirmed /\ 0 <= issued.secrets
    BY <1>1, <1>4, <2>1
  <2> QED
    BY <1>1, <2>4, <2>5, <2>6 DEF AcceptedIsSpent
<1> QED
  BY <1>1, <1>2, <1>3, <1>5, <1>6 DEF SignInv, FactorAcceptedOnce

LEMMA DeleteCodesKeeps ==
  ASSUME SignInv, NEW r \in SignRequests, DeleteRecoveryCodes(r)
  PROVE  SignInv'
<1> DEFINE q == [op |-> "rotate", step |-> "insert", seen |-> codes]
<1>1. /\ signRequest[r] = [op |-> "rotate", step |-> "act"]
      /\ signRequest' = [signRequest EXCEPT ![r] = q]
      /\ UNCHANGED <<failures, secret, codes, issued, clock, pass, guesses, accepted, twice>>
  BY DEF DeleteRecoveryCodes
<1>2. q \in SignReq /\ q.step = "insert"
  BY DEF SignReq, SignInv, SignTypeOK
<1> HIDE DEF q
<1>3. signRequest' \in [SignRequests -> SignReq]
  BY <1>1, <1>2 DEF SignInv
<1>4. GuessesCounted'
  <2>1. signRequest[r].step = "act"
    BY <1>1
  <2> QED
    BY <1>1, <1>2, <2>1, CountedWhenItMoves
<1>5. SignTypeOK'
  BY <1>1 DEF SignInv, SignTypeOK
<1> QED
  BY <1>1, <1>3, <1>4, <1>5, FactorsUntouched DEF SignInv

LEMMA NewSetIsNew ==
  ASSUME SignInv, issued.sets < MaxSets
  PROVE  /\ CodeSet(issued.sets + 1) \subseteq (1..MaxSets) \X (1..CodesPerSet)
         /\ \A k \in CodeSet(issued.sets + 1) : k[1] = issued.sets + 1
         /\ issued.sets + 1 \in 0..MaxSets /\ issued.sets \in Nat
<1>1. issued.sets \in 0..MaxSets /\ MaxSets \in Nat
  BY SignInAssumption DEF SignInv, SignTypeOK, SignInAssumption
<1>2. issued.sets + 1 \in 1..MaxSets
  BY <1>1
<1> QED
  BY <1>1, <1>2 DEF CodeSet

LEMMA InsertCodesKeeps ==
  ASSUME SignInv, NEW r \in SignRequests, InsertRecoveryCodes(r)
  PROVE  SignInv'
<1>1. /\ signRequest[r].step = "insert" /\ End(r) /\ issued.sets < MaxSets
      /\ issued' = [issued EXCEPT !.sets = @ + 1]
      /\ codes' = (codes \ signRequest[r].seen) \cup CodeSet(issued.sets + 1)
      /\ UNCHANGED <<failures, secret, clock, pass, guesses, accepted, twice>>
  BY DEF InsertRecoveryCodes
<1>2. signRequest' = [signRequest EXCEPT ![r] = SignIdle] /\ signRequest' \in [SignRequests -> SignReq]
  BY <1>1, RequestEnds
<1>3. GuessesCounted'
  BY <1>1, <1>2, IdleIsRequest, CountedWhenItMoves
<1>4. /\ issued' \in [secrets : 0..MaxEnrolments, sets : 0..MaxSets]
      /\ issued'.secrets = issued.secrets /\ issued'.sets = issued.sets + 1
  BY <1>1, NewSetIsNew DEF SignInv, SignTypeOK
<1>5. SignTypeOK'
  BY <1>1, <1>4, NewSetIsNew DEF SignInv, SignTypeOK
<1>6. AcceptedIsSpent'
  <2>1. \A k \in codes' : k[1] <= issued'.sets
    BY <1>1, <1>4, NewSetIsNew DEF SignInv, AcceptedIsSpent, SignTypeOK
  <2>2. \A a \in accepted : a[1] = "code" => a[2] <= issued'.sets /\ <<a[2], a[3]>> \notin codes'
    <3> TAKE a \in accepted
    <3> HAVE a[1] = "code"
    <3>1. a \in {"code"} \X (1..MaxSets) \X (1..CodesPerSet)
      BY DEF SignInv, SignTypeOK
    <3>2. a[2] <= issued.sets /\ <<a[2], a[3]>> \notin codes /\ a[2] \in Nat
      BY <3>1, SignInAssumption DEF SignInv, AcceptedIsSpent, SignInAssumption
    <3>3. <<a[2], a[3]>>[1] = a[2]
      OBVIOUS
    <3>4. issued.sets \in Nat /\ \A k \in CodeSet(issued.sets + 1) : k[1] = issued.sets + 1
      BY <1>1, NewSetIsNew
    <3> QED
      BY <1>1, <1>4, <3>2, <3>3, <3>4
  <2> QED
    BY <1>1, <1>4, <2>1, <2>2 DEF SignInv, AcceptedIsSpent
<1> QED
  BY <1>1, <1>2, <1>3, <1>5, <1>6 DEF SignInv, FactorAcceptedOnce

LEMMA BeginKeeps ==
  ASSUME SignInv, BeginEnrolment
  PROVE  SignInv'
<1>1. /\ issued.secrets < MaxEnrolments
      /\ secret' = [id |-> issued.secrets + 1, confirmed |-> FALSE, lastStep |-> 0]
      /\ issued' = [issued EXCEPT !.secrets = @ + 1]
      /\ UNCHANGED <<failures, codes, clock, signRequest, pass, guesses, accepted, twice>>
  BY DEF BeginEnrolment
<1>2. /\ issued \in [secrets : 0..MaxEnrolments, sets : 0..MaxSets]
      /\ MaxEnrolments \in Nat /\ MaxStep \in Nat
  BY SignInAssumption DEF SignInv, SignTypeOK, SignInAssumption
<1>3. /\ issued' \in [secrets : 0..MaxEnrolments, sets : 0..MaxSets]
      /\ issued'.secrets = issued.secrets + 1 /\ issued'.sets = issued.sets
      /\ secret' \in [id : 0..MaxEnrolments, confirmed : BOOLEAN, lastStep : 0..MaxStep + 1]
      /\ secret'.id = issued.secrets + 1 /\ ~secret'.confirmed
  <2>1. issued.secrets + 1 \in 0..MaxEnrolments /\ 0 \in 0..MaxStep + 1
    BY <1>1, <1>2
  <2> QED
    BY <1>1, <1>2, <2>1
<1>4. SignTypeOK'
  BY <1>1, <1>3 DEF SignInv, SignTypeOK
<1>5. \A a \in accepted : a[1] = "totp" => a[2] \in 1..issued'.secrets /\ a[2] # secret'.id
  <2>1. \A a \in accepted : a[1] = "totp" => a[2] \in 1..issued.secrets
    BY DEF SignInv, AcceptedIsSpent
  <2>2. \A n \in 1..issued.secrets : n \in 1..issued'.secrets /\ n # secret'.id
    BY <1>2, <1>3
  <2> QED
    BY <2>1, <2>2
<1>6. AcceptedIsSpent'
  BY <1>1, <1>2, <1>3, <1>5 DEF SignInv, AcceptedIsSpent
<1>7. GuessesCounted'
  BY <1>1 DEF SignInv, GuessesCounted, Series, Locks, AtStep
<1> QED
  BY <1>1, <1>4, <1>6, <1>7 DEF SignInv, FactorAcceptedOnce

LEMMA ConfirmKeeps ==
  ASSUME SignInv, ConfirmEnrolment
  PROVE  SignInv'
<1>1. PICK t \in FreshSteps : /\ secret' = [secret EXCEPT !.confirmed = TRUE, !.lastStep = t]
                              /\ Accept("totp", secret.id, t)
  BY DEF ConfirmEnrolment
<1>2. /\ secret.id # 0 /\ issued.sets < MaxSets
      /\ issued' = [issued EXCEPT !.sets = @ + 1]
      /\ codes' = CodeSet(issued.sets + 1)
      /\ UNCHANGED <<failures, clock, signRequest, pass, guesses>>
  BY DEF ConfirmEnrolment
<1>3. /\ issued' \in [secrets : 0..MaxEnrolments, sets : 0..MaxSets]
      /\ issued'.secrets = issued.secrets /\ issued'.sets = issued.sets + 1
      /\ issued.sets \in Nat
  BY <1>2, NewSetIsNew DEF SignInv, SignTypeOK
<1>4. AcceptedIsSpent' /\ FactorAcceptedOnce'
  <2>1. \A k \in codes' : k[1] <= issued'.sets /\ k[1] > issued.sets
    BY <1>2, <1>3, NewSetIsNew
  <2>2. issued'.sets >= issued.sets /\ issued'.sets \in Nat /\ TRUE \in BOOLEAN
    BY <1>3
  <2> QED
    BY <1>1, <1>2, <1>3, <2>1, <2>2, TotpIsSpent
<1>5. t \in 1..MaxStep + 1 /\ secret.id \in 1..MaxEnrolments
  BY <1>2, SignInAssumption DEF FreshSteps, SignInv, SignTypeOK, SignInAssumption
<1>6. /\ secret' \in [id : 0..MaxEnrolments, confirmed : BOOLEAN, lastStep : 0..MaxStep + 1]
      /\ <<"totp", secret.id, t>> \in {"totp"} \X (1..MaxEnrolments) \X (1..MaxStep + 1)
      /\ twice' \in BOOLEAN
  <2>1. secret \in [id : 0..MaxEnrolments, confirmed : BOOLEAN, lastStep : 0..MaxStep + 1]
    BY DEF SignInv, SignTypeOK
  <2>2. t \in 0..MaxStep + 1
    BY <1>5, SignInAssumption DEF SignInAssumption
  <2>3. twice' \in BOOLEAN
    BY <1>1 DEF Accept
  <2> QED
    BY <1>1, <1>5, <2>1, <2>2, <2>3
<1>7. SignTypeOK'
  BY <1>1, <1>2, <1>3, <1>6, NewSetIsNew DEF SignInv, SignTypeOK, Accept
<1>8. GuessesCounted'
  BY <1>2 DEF SignInv, GuessesCounted, Series, Locks, AtStep
<1> QED
  BY <1>2, <1>4, <1>7, <1>8 DEF SignInv

LEMMA TimeKeeps ==
  ASSUME SignInv, SignTime, UNCHANGED <<secret, codes, issued, signRequest, pass, accepted, twice>>
  PROVE  SignInv'
<1>1. /\ clock' \in 1..MaxStep /\ guesses' \in {guesses, 0}
      /\ failures' \in [count : 0..Threshold, locked : BOOLEAN, stale : BOOLEAN, mailed : BOOLEAN]
  <2>1. /\ failures \in [count : 0..Threshold, locked : BOOLEAN, stale : BOOLEAN, mailed : BOOLEAN]
        /\ clock \in 1..MaxStep /\ MaxStep \in Nat
    BY SignInAssumption DEF SignInv, SignTypeOK, SignInAssumption
  <2>2. clock' \in 1..MaxStep /\ guesses' \in {guesses, 0}
    BY <2>1 DEF SignTime
  <2>3. failures' \in {failures} \cup {[failures EXCEPT !.locked = FALSE],
                        [failures EXCEPT !.stale = TRUE], [failures EXCEPT !.mailed = FALSE]}
    BY DEF SignTime
  <2> QED
    BY <2>1, <2>2, <2>3
<1>2. SignTypeOK'
  BY <1>1 DEF SignInv, SignTypeOK
<1>3. AtStep("check")' = AtStep("check") /\ AtStep("fail")' = AtStep("fail")
  BY DEF AtStep
<1>4. /\ Cardinality(AtStep("fail")) \in Nat /\ guesses \in Nat
      /\ failures \in [count : 0..Threshold, locked : BOOLEAN, stale : BOOLEAN, mailed : BOOLEAN]
      /\ Threshold \in Nat
  BY CountsAreNumbers, SignInAssumption DEF SignInv, SignTypeOK, SignInAssumption
<1>5. GuessesCounted'
  <2>1. CASE UNCHANGED <<failures, guesses>>
    BY <1>3, <2>1 DEF SignInv, GuessesCounted, Series, Locks
  <2>2. CASE guesses' = 0 /\ ~failures'.locked
    <3>1. Series' \in Nat
      BY <1>1, <1>4 DEF Series
    <3> QED
      BY <1>3, <1>4, <2>2, <3>1 DEF GuessesCounted
  <2>3. CASE failures' = [failures EXCEPT !.mailed = FALSE] /\ UNCHANGED guesses
    <3>1. Series' = Series /\ failures'.locked = failures.locked
      BY <1>4, <2>3 DEF Series, Locks
    <3> QED
      BY <1>3, <2>3, <3>1 DEF SignInv, GuessesCounted
  <2> QED
    BY <1>4, <2>1, <2>2, <2>3 DEF SignTime
<1> QED
  BY <1>2, <1>5, FactorsUntouched DEF SignInv

-----------------------------------------------------------------------------
LEMMA SignInvStep == SignInv /\ [SignNext]_signVars => SignInv'
<1> SUFFICES ASSUME SignInv, [SignNext]_signVars PROVE SignInv'
  OBVIOUS
<1>1. CASE UNCHANGED signVars
  BY <1>1 DEF SignInv, SignTypeOK, AcceptedIsSpent, GuessesCounted, Series, Locks, AtStep,
              FactorAcceptedOnce, signVars
<1>2. CASE SignNext
  BY <1>2, StartKeepsCount, PasswordKeeps, FactorKeeps, RegisterKeepsCount, MailKeeps, GrantKeeps,
     ClearKeeps, DisableKeeps, DeleteCodesKeeps, InsertCodesKeeps, BeginKeeps, ConfirmKeeps,
     TimeKeeps DEF SignNext
<1> QED
  BY <1>1, <1>2

(* However requests interleave, for any ladder and any number of requests: *)
(* the guesses that are checked before a lock ends are bounded, and a      *)
(* factor is accepted once (lockout.ts:66-127, guarded-factor.ts:31-50,    *)
(* mfa/service.ts:94-177).                                                 *)
THEOREM FactorsAlwaysHold == SignSpec => []FactorsHold
BY SignInvInit, SignInvStep, InvBounds, PTL DEF SignSpec

-----------------------------------------------------------------------------
(* Security jobs                                                           *)

AtWork == {"reading", "judging", "quarantining", "recording"}

JobRecords ==
  [apply : BOOLEAN, at : AtWork \cup {"idle", "reporting", "closing", "ended"}, query : Nat, after : Nat,
   batch : SUBSET Audited, full : BOOLEAN, subject : Audited \cup {0}, decision : {"allow", "deny"},
   recorded : SUBSET Audited, failed : BOOLEAN, code : {0, 1}]

JobsTypeOK ==
  /\ kind \in Kinds
  /\ ready \subseteq Audited /\ quarantined \subseteq Audited /\ unclean \subseteq Audited
  /\ alerts \subseteq Audited
  /\ job \in JobRecords
  /\ runs \in [count : Nat, failed : BOOLEAN] /\ changes \in Nat

(* Only files are taken out of service, and only the job that may do so    *)
(* comes to it; an audit reads each of its queries once.                   *)
JobInOrder ==
  /\ kind # "backfill" => ready = Audited /\ quarantined = {} /\ ~job.apply
  /\ quarantined \cap ready = {}
  /\ job.at \in {"quarantining", "recording"} => job.subject \in Audited
  /\ job.at = "quarantining" => job.apply
  /\ job.at \in {"idle", "ended"} => alerts = {}
  /\ kind # "backfill" /\ job.at \in {"judging", "recording"} => job.query = Queries(kind) + 1
  /\ kind # "backfill" /\ job.at = "reading" => job.query <= Queries(kind)
  /\ kind = "backfill" /\ job.at \in AtWork => job.query \in 1..2
  /\ kind = "backfill" /\ job.at = "reading" => job.batch = {}
  /\ job.at \in AtWork \cup {"reporting"} => job.code = 0

(* What a job still has to do with a finding: it is in its hands, on its   *)
(* page, or will be read.  A page holds the least of the rest.             *)
InHand(s) == job.at \in {"quarantining", "recording"} /\ s = job.subject
Ahead(s) ==
  IF kind = "backfill"
    THEN \/ Group[s] > job.query
         \/ /\ Group[s] = job.query /\ s > job.after
            /\ job.at = "reading" \/ (job.full /\ \A b \in job.batch : s > b)
    ELSE Group[s] >= job.query
ToCome(s) == InHand(s) \/ (s \in ready /\ (s \in job.batch \/ Ahead(s)))

(* No finding is lost while nothing failed.                                *)
FindingsKept ==
  /\ standing \subseteq unclean \cap Scope
  /\ job.at \in AtWork /\ ~job.failed => \A s \in standing : s \in job.recorded \/ ToCome(s)
  /\ job.at = "reporting" /\ ~job.failed => standing \subseteq job.recorded
  /\ job.at \in {"closing", "ended"} /\ job.code = 0 => standing \subseteq job.recorded

(* What was recorded under --apply is not served.                          *)
AppliedIsDown ==
  job.apply =>
    /\ standing \cap job.recorded \cap ready = {}
    /\ job.at = "recording" /\ job.subject \in standing => job.subject \notin ready

(* A file that was taken out of service is in the ledger, or about to be,  *)
(* or the run knows that it lost something.                                *)
Accounted(s) ==
  \/ <<s, "deny">> \in ledger
  \/ runs.failed
  \/ job.at = "recording" /\ job.subject = s /\ job.decision = "deny"
  \/ job.at \in AtWork \cup {"reporting"} /\ job.failed
  \/ job.at = "closing" /\ job.code = 1
LedgerTrue ==
  /\ \A s \in Audited : <<s, "deny">> \in ledger => s \in quarantined
  /\ job.at = "recording" /\ job.decision = "deny" => job.subject \in quarantined
  /\ \A s \in quarantined : Accounted(s)

JobsInv == JobsTypeOK /\ JobInOrder /\ FindingsKept /\ AppliedIsDown /\ LedgerTrue


-----------------------------------------------------------------------------
(* A set of natural numbers has a least element (NatLessThanWellFounded),  *)
(* which Min then is.                                                      *)
LEMMA LeastOfRelation ==
  ASSUME NEW T, T \subseteq Nat, NEW R,
         \A x, y \in Nat : <<y, x>> \in R <=> y < x,
         \E x \in T : \A y \in T : ~ (<<y, x>> \in R)
  PROVE  \E x \in T : \A y \in T : x <= y
<1>1. PICK x \in T : \A y \in T : ~ (<<y, x>> \in R)
  OBVIOUS
<1>2. \A y \in T : ~ (y < x)
  BY <1>1
<1>3. \A y \in T : x <= y
  BY <1>2
<1> QED BY <1>3

LEMMA HasLeast ==
  ASSUME NEW T, T \subseteq Nat, T # {}
  PROVE  \E x \in T : \A y \in T : x <= y
<1> DEFINE R == OpToRel(<, Nat)
<1>1. IsWellFoundedOn(R, Nat)
  BY NatLessThanWellFounded
<1>2. \A x, y \in Nat : <<y, x>> \in R <=> y < x
  BY DEF OpToRel
<1> HIDE DEF R
<1>3. \E x \in T : \A y \in T : ~ (<<y, x>> \in R)
  BY <1>1, WFMin
<1> QED BY <1>2, <1>3, LeastOfRelation

LEMMA MinIsLeast ==
  ASSUME NEW T, T \subseteq Nat, T # {}
  PROVE  Min(T) \in T /\ \A y \in T : Min(T) <= y
BY HasLeast DEF Min

(* listReady: what is left out of a page comes after all of it, and only a *)
(* full page leaves anything out.                                          *)
RestOfKind == {s \in ready : Group[s] = job.query /\ s > job.after}

LEMMA PageIsLeast ==
  ASSUME JobsTypeOK
  PROVE  /\ Page \subseteq RestOfKind
         /\ \A t \in RestOfKind \ Page : \A b \in Page : t > b
         /\ RestOfKind # Page => ~(Cardinality(Page) < BatchSize)
         /\ Cardinality(Page) \in Nat
<1> DEFINE Below(t) == {u \in RestOfKind : u < t}
<1>1. RestOfKind \subseteq Nat /\ IsFiniteSet(RestOfKind)
  BY FS_Subset, JobAssumption DEF JobsTypeOK, RestOfKind, JobAssumption
<1>2. BatchSize \in Nat
  BY JobAssumption DEF JobAssumption
<1>3. Page = {s \in RestOfKind : Cardinality(Below(s)) < BatchSize}
  BY DEF Page, RestOfKind
<1>4. \A t \in RestOfKind : IsFiniteSet(Below(t)) /\ Cardinality(Below(t)) \in Nat
  <2> TAKE t \in RestOfKind
  <2>1. IsFiniteSet(Below(t))
    BY <1>1, FS_Subset
  <2> QED BY <2>1, FS_CardinalityType
<1>5. Page \subseteq RestOfKind
  BY <1>3
<1>6. IsFiniteSet(Page) /\ Cardinality(Page) \in Nat
  <2>1. IsFiniteSet(Page)
    BY <1>1, <1>5, FS_Subset
  <2> QED BY <2>1, FS_CardinalityType
<1>7. ASSUME NEW t \in RestOfKind \ Page, NEW b \in Page PROVE t > b
  <2> SUFFICES ASSUME ~(t > b) PROVE FALSE
    OBVIOUS
  <2>1. t \in Nat /\ b \in Nat /\ b \in RestOfKind
    BY <1>1, <1>5
  <2>2. Below(t) \subseteq Below(b)
    <3>1. ASSUME NEW u \in RestOfKind, u < t PROVE u < b
      <4>1. u \in Nat /\ t <= b
        BY <1>1, <2>1
      <4> QED BY <2>1, <3>1, <4>1
    <3> QED BY <3>1
  <2>3. Cardinality(Below(t)) <= Cardinality(Below(b))
    BY <1>4, <2>1, <2>2, FS_Subset
  <2>4. Cardinality(Below(b)) < BatchSize /\ ~(Cardinality(Below(t)) < BatchSize)
    BY <1>3
  <2> QED BY <1>2, <1>4, <2>1, <2>3, <2>4
<1>8. ASSUME RestOfKind # Page PROVE ~(Cardinality(Page) < BatchSize)
  <2>1. RestOfKind \ Page # {} /\ RestOfKind \ Page \subseteq Nat
    BY <1>1, <1>5, <1>8
  <2>2. PICK x \in RestOfKind \ Page : \A y \in RestOfKind \ Page : x <= y
    BY <2>1, HasLeast
  <2>3. Below(x) \subseteq Page
    <3>1. ASSUME NEW u \in RestOfKind, u < x PROVE u \in Page
      <4>1. u \in Nat /\ x \in Nat /\ ~(x <= u)
        BY <1>1, <2>2, <3>1
      <4> QED BY <2>2, <4>1
    <3> QED BY <3>1
  <2>4. Cardinality(Below(x)) <= Cardinality(Page)
    BY <1>6, <2>3, FS_Subset
  <2>5. ~(Cardinality(Below(x)) < BatchSize)
    BY <1>3, <2>2
  <2> QED BY <1>2, <1>4, <1>6, <2>2, <2>4, <2>5
<1> QED BY <1>5, <1>6, <1>7, <1>8

LEMMA NextQuery ==
  ASSUME NEW j \in JobRecords
  PROVE  [j EXCEPT !.query = j.query + 1, !.after = 0, !.at = "reading"] \in JobRecords
<1> DEFINE query == j.query + 1
<1>1. query \in Nat
  BY DEF JobRecords
<1> HIDE DEF query
<1>2. [j EXCEPT !.query = query, !.after = 0, !.at = "reading"] \in JobRecords
  BY <1>1 DEF JobRecords, AtWork
<1> QED BY <1>2 DEF query

-----------------------------------------------------------------------------
LEMMA JobsInvInit == JobsInit => JobsInv
<1> SUFFICES ASSUME JobsInit PROVE JobsInv
  OBVIOUS
<1> USE DEF JobsInit, Idle
<1>1. JobsTypeOK
  BY DEF JobsTypeOK, JobRecords
<1>2. JobInOrder
  BY DEF JobInOrder, AtWork
<1>3. FindingsKept
  BY DEF FindingsKept, AtWork
<1>4. AppliedIsDown
  BY DEF AppliedIsDown
<1>5. LedgerTrue
  BY DEF LedgerTrue
<1> QED BY <1>1, <1>2, <1>3, <1>4, <1>5 DEF JobsInv

(* The beginning of a run.                                                 *)
LEMMA StartJobKeeps ==
  ASSUME JobsInv, NEW apply \in BOOLEAN, StartJob(apply)
  PROVE  JobsInv'
<1>0. JobsTypeOK /\ JobInOrder /\ FindingsKept /\ AppliedIsDown /\ LedgerTrue
  BY DEF JobsInv
<1>6. job' \in JobRecords
  BY DEF StartJob, Idle, JobRecords, AtWork
<1>7. runs' \in [count : Nat, failed : BOOLEAN]
  BY <1>0 DEF StartJob, JobsTypeOK
<1>1. JobsTypeOK'
  BY <1>0, <1>6, <1>7 DEF StartJob, JobsTypeOK
<1>2. JobInOrder'
  BY <1>0 DEF StartJob, Idle, JobsTypeOK, JobInOrder, AtWork, Kinds, Queries
<1>3. FindingsKept'
  <2>1. \A s \in Findings \cap Scope : s \in ready /\ s \in unclean /\ Group[s] >= 1 /\ s > 0
    BY <1>0, JobAssumption DEF Findings, Rejected, Scope, JobsTypeOK, JobAssumption
  <2>2. job'.at = "reading" /\ job'.query = 1 /\ job'.after = 0 /\ job'.code = 0
    BY DEF StartJob, Idle
  <2>3. standing' = Findings \cap Scope /\ unclean' = unclean /\ ready' = ready /\ kind' = kind
    BY DEF StartJob
  <2>4. standing' \subseteq (unclean \cap Scope)'
    BY <2>1, <2>3 DEF Scope
  <2>5. \A s \in standing' : ToCome(s)'
    <3> TAKE s \in standing'
    <3>1. s \in ready' /\ Group[s] >= 1 /\ s > 0
      BY <2>1, <2>3
    <3>2. Group[s] \in 1..3
      BY <1>0, <3>1, <2>3, JobAssumption DEF JobAssumption, JobsTypeOK
    <3>3. Ahead(s)'
      BY <2>2, <3>1, <3>2 DEF Ahead
    <3> QED BY <3>1, <3>3 DEF ToCome
  <2> QED BY <2>2, <2>4, <2>5 DEF FindingsKept
<1>4. AppliedIsDown'
  BY <1>0 DEF StartJob, Idle, AppliedIsDown
<1>5. LedgerTrue'
  BY <1>0 DEF StartJob, Idle, LedgerTrue, Accounted, JobsTypeOK, AtWork
<1> QED BY <1>1, <1>2, <1>3, <1>4, <1>5 DEF JobsInv

(* A query of an audit adds the findings of its group.                     *)
LEMMA RowsKeep ==
  ASSUME JobsInv, kind # "backfill", ReadRows
  PROVE  JobsInv'
<1>0. JobsTypeOK /\ JobInOrder /\ FindingsKept /\ AppliedIsDown /\ LedgerTrue
  BY DEF JobsInv
<1>6. job' \in JobRecords
  <2> DEFINE rows == {s \in Findings : Group[s] = job.query}
  <2>1. rows \subseteq Audited
    BY <1>0 DEF Findings, JobsTypeOK
  <2>2. job' = [job EXCEPT !.batch = job.batch \cup rows, !.query = job.query + 1,
                           !.at = IF job.query = Queries(kind) THEN "judging" ELSE "reading"]
    BY DEF ReadRows
  <2> DEFINE batch == job.batch \cup rows
             query == job.query + 1
             at == IF job.query = Queries(kind) THEN "judging" ELSE "reading"
  <2>3. job \in JobRecords /\ batch \subseteq Audited /\ query \in Nat /\ at \in {"judging", "reading"}
    BY <1>0, <2>1 DEF JobsTypeOK, JobRecords
  <2> HIDE DEF rows, batch, query, at
  <2>4. job' = [job EXCEPT !.batch = batch, !.query = query, !.at = at]
    BY <2>2 DEF batch, query, at
  <2> QED BY <2>3, <2>4 DEF JobRecords, AtWork
<1>1. JobsTypeOK'
  BY <1>0, <1>6 DEF ReadRows, JobsTypeOK
<1>2. JobInOrder'
  BY <1>0 DEF ReadRows, JobsTypeOK, JobRecords, JobInOrder, AtWork, Kinds, Queries
<1>3. FindingsKept'
  <2>1. job.at = "reading" /\ job.query \in Nat /\ job.batch \subseteq job'.batch
    BY <1>0 DEF ReadRows, JobsTypeOK, JobRecords
  <2>2. /\ job'.query = job.query + 1 /\ job'.failed = job.failed /\ job'.recorded = job.recorded
        /\ job'.at \in {"reading", "judging"} /\ standing' = standing /\ kind' = kind
        /\ unclean' = unclean /\ ready' = ready
    BY <1>0 DEF ReadRows, JobsTypeOK, JobRecords
  <2>3. \A s \in Findings : Group[s] = job.query => s \in job'.batch
    BY <1>0 DEF ReadRows, JobsTypeOK, JobRecords
  <2>4. ASSUME NEW s \in standing, s \in job.recorded \/ ToCome(s)
        PROVE  s \in job'.recorded \/ ToCome(s)'
    <3>1. CASE s \in job.recorded
      BY <2>2, <3>1
    <3>2. CASE s \notin job.recorded
      <4>1. s \in ready /\ (s \in job.batch \/ Group[s] >= job.query)
        BY <2>1, <2>4, <3>2 DEF ToCome, InHand, Ahead
      <4>2. s \in Findings /\ Group[s] \in 1..3
        BY <1>0, <4>1, JobAssumption DEF FindingsKept, Findings, Rejected, JobsTypeOK, JobAssumption
      <4>3. s \in job'.batch \/ Group[s] >= job.query + 1
        BY <2>1, <2>3, <4>1, <4>2
      <4>4. Ahead(s)' \/ s \in job'.batch
        BY <2>2, <4>3 DEF Ahead
      <4> QED BY <2>2, <4>1, <4>4 DEF ToCome
    <3> QED BY <3>1, <3>2
  <2> QED BY <1>0, <2>1, <2>2, <2>4 DEF FindingsKept, AtWork, Scope
<1>4. AppliedIsDown'
  BY <1>0 DEF ReadRows, AppliedIsDown, JobInOrder, JobsTypeOK, JobRecords
<1>5. LedgerTrue'
  BY <1>0 DEF ReadRows, LedgerTrue, Accounted, JobsTypeOK, JobRecords, AtWork
<1> QED BY <1>1, <1>2, <1>3, <1>4, <1>5 DEF JobsInv

(* listReady gives the next page, or the kind is done.                     *)
LEMMA ListKeeps ==
  ASSUME JobsInv, ListReady
  PROVE  JobsInv'
<1>0. JobsTypeOK /\ JobInOrder /\ FindingsKept /\ AppliedIsDown /\ LedgerTrue
  BY DEF JobsInv
<1> USE DEF NextKind, Queries
<1>6. /\ job.at = "reading" /\ kind = "backfill" /\ job.batch = {} /\ job.query \in 1..2
      /\ ready' = ready /\ kind' = kind /\ standing' = standing /\ unclean' = unclean
  BY <1>0 DEF ListReady, JobInOrder, AtWork
<1>7. Page \subseteq RestOfKind /\ RestOfKind \subseteq ready
  BY <1>0, PageIsLeast DEF RestOfKind
<1>8. job' \in JobRecords
  <2>1. Page \subseteq Audited
    BY <1>0, <1>7 DEF JobsTypeOK
  <2>2. CASE Page = {} /\ job.query < 2
    <3>1. job' = [job EXCEPT !.query = job.query + 1, !.after = 0, !.at = "reading"]
      BY <2>2 DEF ListReady
    <3> QED BY <1>0, <3>1, NextQuery DEF JobsTypeOK
  <2>3. CASE Page = {} /\ ~(job.query < 2)
    <3>1. job' = [job EXCEPT !.at = "reporting"]
      BY <2>3 DEF ListReady
    <3> QED BY <1>0, <3>1 DEF JobsTypeOK, JobRecords, AtWork
  <2>4. CASE Page # {}
    <3> DEFINE full == Cardinality(Page) >= BatchSize
    <3>1. job' = [job EXCEPT !.batch = Page, !.full = full, !.at = "judging"] /\ full \in BOOLEAN
      BY <2>4 DEF ListReady
    <3> HIDE DEF full
    <3> QED BY <1>0, <2>1, <3>1 DEF JobsTypeOK, JobRecords, AtWork
  <2> QED BY <2>2, <2>3, <2>4
<1>1. JobsTypeOK'
  BY <1>0, <1>8 DEF ListReady, JobsTypeOK
<1>2. JobInOrder'
  BY <1>0, <1>6 DEF ListReady, JobsTypeOK, JobRecords, JobInOrder, AtWork
<1>3. FindingsKept'
  <2>1. ASSUME NEW s \in standing PROVE Group[s] \in 1..2 /\ s \in Nat /\ s > 0
    BY <1>0, <1>6, <2>1, JobAssumption DEF FindingsKept, Scope, JobsTypeOK, JobAssumption
  <2>2. ~job.failed => \A s \in standing : s \in job.recorded \/ (s \in ready /\ Ahead(s))
    BY <1>0, <1>6 DEF FindingsKept, ToCome, InHand, AtWork
  <2>3. CASE Page # {}
    <3>1. /\ job'.at = "judging" /\ job'.batch = Page /\ job'.full = (Cardinality(Page) >= BatchSize)
          /\ job'.query = job.query /\ job'.after = job.after /\ job'.failed = job.failed
          /\ job'.recorded = job.recorded /\ job'.code = job.code
      BY <1>0, <2>3 DEF ListReady, JobsTypeOK, JobRecords
    <3>2. ASSUME NEW s \in standing, s \in job.recorded \/ (s \in ready /\ Ahead(s))
          PROVE  s \in job'.recorded \/ ToCome(s)'
      <4>1. CASE s \in job.recorded
        BY <3>1, <4>1
      <4>2. CASE s \in ready /\ Group[s] > job.query
        BY <1>6, <3>1, <4>2 DEF ToCome, Ahead
      <4>3. CASE s \in ready /\ s \in Page
        BY <1>6, <3>1, <4>3 DEF ToCome
      <4>4. CASE s \in RestOfKind \ Page
        <5>1. ~(Cardinality(Page) < BatchSize) /\ \A b \in Page : s > b
          BY <1>0, <4>4, PageIsLeast
        <5>3. Cardinality(Page) \in Nat /\ BatchSize \in Nat
          BY <1>0, PageIsLeast, JobAssumption DEF JobAssumption
        <5>4. Cardinality(Page) >= BatchSize
          BY <5>1, <5>3
        <5>2. job'.full
          BY <3>1, <5>4
        <5> QED BY <1>6, <3>1, <4>4, <5>1, <5>2 DEF ToCome, Ahead, RestOfKind
      <4> QED BY <1>6, <3>2, <4>1, <4>2, <4>3, <4>4 DEF Ahead, RestOfKind
    <3> QED BY <1>0, <1>6, <2>2, <3>1, <3>2 DEF FindingsKept, AtWork, Scope
  <2>4. CASE Page = {}
    <3>1. RestOfKind = {}
      BY <1>0, <2>4, PageIsLeast, FS_EmptySet, JobAssumption DEF JobAssumption
    <3>2. \A s \in standing : s \in ready /\ Ahead(s) => Group[s] > job.query
      BY <1>6, <3>1 DEF Ahead, RestOfKind
    <3>3. CASE job.query = 1
      <4>1. /\ job'.at = "reading" /\ job'.query = 2 /\ job'.after = 0 /\ job'.failed = job.failed
            /\ job'.recorded = job.recorded /\ job'.code = job.code
        BY <1>0, <2>4, <3>3 DEF ListReady, JobsTypeOK, JobRecords
      <4>2. \A s \in standing : Group[s] > 1 => Ahead(s)'
        BY <1>6, <2>1, <4>1 DEF Ahead
      <4> QED BY <1>0, <1>6, <2>2, <3>2, <3>3, <4>1, <4>2 DEF FindingsKept, AtWork, Scope, ToCome
    <3>4. CASE job.query = 2
      <4>1. /\ job'.at = "reporting" /\ job'.failed = job.failed
            /\ job'.recorded = job.recorded /\ job'.code = job.code
        BY <1>0, <2>4, <3>4 DEF ListReady, JobsTypeOK, JobRecords
      <4> QED BY <1>0, <1>6, <2>1, <2>2, <3>2, <3>4, <4>1 DEF FindingsKept, AtWork, Scope
    <3> QED BY <1>6, <3>3, <3>4
  <2> QED BY <2>3, <2>4
<1>4. AppliedIsDown'
  BY <1>0 DEF ListReady, AppliedIsDown, JobsTypeOK, JobRecords
<1>5. LedgerTrue'
  BY <1>0 DEF ListReady, LedgerTrue, Accounted, JobsTypeOK, JobRecords, AtWork
<1> QED BY <1>1, <1>2, <1>3, <1>4, <1>5 DEF JobsInv

(* The end of a batch: another page, the other kind, or the report.        *)
LEMMA BatchKeeps ==
  ASSUME JobsInv, EndOfBatch
  PROVE  JobsInv'
<1>0. JobsTypeOK /\ JobInOrder /\ FindingsKept /\ AppliedIsDown /\ LedgerTrue
  BY DEF JobsInv
<1> USE DEF NextKind
<1>6. /\ job.at = "judging" /\ job.batch = {}
      /\ ready' = ready /\ kind' = kind /\ standing' = standing /\ unclean' = unclean
  BY DEF EndOfBatch
<1>7. job' \in JobRecords
  <2>1. \/ job' = [job EXCEPT !.at = "reporting"]
        \/ job' = [job EXCEPT !.at = "reading"]
        \/ job' = [job EXCEPT !.query = job.query + 1, !.after = 0, !.at = "reading"]
    BY DEF EndOfBatch
  <2>2. CASE job' = [job EXCEPT !.at = "reporting"] \/ job' = [job EXCEPT !.at = "reading"]
    BY <1>0, <2>2 DEF JobsTypeOK, JobRecords, AtWork
  <2>3. CASE job' = [job EXCEPT !.query = job.query + 1, !.after = 0, !.at = "reading"]
    BY <1>0, <2>3, NextQuery DEF JobsTypeOK
  <2> QED BY <2>1, <2>2, <2>3
<1>1. JobsTypeOK'
  BY <1>0, <1>7 DEF EndOfBatch, JobsTypeOK
<1>2. JobInOrder'
  BY <1>0, <1>6 DEF EndOfBatch, JobsTypeOK, JobRecords, JobInOrder, AtWork, Queries, Kinds
<1>3. FindingsKept'
  <2>1. ~job.failed => \A s \in standing : s \in job.recorded \/ (s \in ready /\ Ahead(s))
    BY <1>0, <1>6 DEF FindingsKept, ToCome, InHand, AtWork
  <2>2. \A s \in standing : Group[s] \in 1..3 /\ Group[s] <= Queries(kind) /\ s \in Nat /\ s > 0
    BY <1>0, JobAssumption DEF FindingsKept, Scope, JobsTypeOK, JobAssumption
  <2>3. job'.failed = job.failed /\ job'.recorded = job.recorded /\ job'.code = job.code
    BY <1>0 DEF EndOfBatch, JobsTypeOK, JobRecords
  <2>4. CASE kind # "backfill"
    <3>1. job'.at = "reporting"
      BY <1>0, <2>4 DEF EndOfBatch, JobsTypeOK, JobRecords
    <3>2. job.query = Queries(kind) + 1
      BY <1>0, <1>6, <2>4 DEF JobInOrder
    <3>3. Queries(kind) \in Nat
      BY <1>0 DEF Queries, JobsTypeOK, Kinds
    <3>4. \A s \in standing : ~Ahead(s)
      BY <2>2, <2>4, <3>2, <3>3 DEF Ahead
    <3> QED BY <1>0, <1>6, <2>1, <2>3, <3>1, <3>4 DEF FindingsKept, AtWork, Scope
  <2>5. CASE kind = "backfill" /\ job.full
    <3>1. job'.at = "reading" /\ job'.query = job.query /\ job'.after = job.after
      BY <1>0, <2>5 DEF EndOfBatch, JobsTypeOK, JobRecords
    <3>2. \A s \in standing : Ahead(s) => Ahead(s)'
      BY <1>6, <2>5, <3>1 DEF Ahead
    <3> QED BY <1>0, <1>6, <2>1, <2>3, <3>1, <3>2 DEF FindingsKept, AtWork, Scope, ToCome
  <2>6. CASE kind = "backfill" /\ ~job.full
    <3>1. \A s \in standing : Ahead(s) => Group[s] > job.query
      BY <1>6, <2>6 DEF Ahead
    <3>2. job.query \in 1..2 /\ Queries(kind) = 2
      BY <1>0, <1>6, <2>6 DEF JobInOrder, AtWork, Queries
    <3>3. CASE job.query = 1
      <4>1. job'.at = "reading" /\ job'.query = 2 /\ job'.after = 0
        BY <1>0, <2>6, <3>3 DEF EndOfBatch, JobsTypeOK, JobRecords, Queries
      <4>2. \A s \in standing : Ahead(s) => Ahead(s)'
        BY <1>6, <2>2, <2>6, <3>1, <3>2, <3>3, <4>1 DEF Ahead
      <4> QED BY <1>0, <1>6, <2>1, <2>3, <4>1, <4>2 DEF FindingsKept, AtWork, Scope, ToCome
    <3>4. CASE job.query = 2
      <4>1. job'.at = "reporting"
        BY <1>0, <2>6, <3>4 DEF EndOfBatch, JobsTypeOK, JobRecords, Queries
      <4> QED BY <1>0, <1>6, <2>1, <2>2, <2>3, <3>1, <3>2, <3>4, <4>1 DEF FindingsKept, AtWork, Scope
    <3> QED BY <3>2, <3>3, <3>4
  <2> QED BY <2>4, <2>5, <2>6
<1>4. AppliedIsDown'
  BY <1>0 DEF EndOfBatch, AppliedIsDown, JobsTypeOK, JobRecords
<1>5. LedgerTrue'
  BY <1>0 DEF EndOfBatch, LedgerTrue, Accounted, JobsTypeOK, JobRecords, AtWork
<1> QED BY <1>1, <1>2, <1>3, <1>4, <1>5 DEF JobsInv

(* The next row is judged: the least of the page, so none is passed over.  *)
LEMMA JudgeKeeps ==
  ASSUME JobsInv, NEW answers \in BOOLEAN, Judge(answers)
  PROVE  JobsInv'
<1>0. JobsTypeOK /\ JobInOrder /\ FindingsKept /\ AppliedIsDown /\ LedgerTrue
  BY DEF JobsInv
<1> DEFINE m == Min(job.batch)
<1>6. /\ job.at = "judging" /\ job.batch # {} /\ job.batch \subseteq Audited
      /\ ready' = ready /\ kind' = kind /\ standing' = standing /\ unclean' = unclean
      /\ quarantined' = quarantined /\ ledger' = ledger /\ alerts' = alerts /\ runs' = runs
      /\ changes' = changes
  BY <1>0 DEF Judge, JobsTypeOK, JobRecords
<1>7. m \in job.batch /\ m \in Audited /\ m \in Nat /\ \A b \in job.batch : m <= b
  BY <1>6, MinIsLeast, JobAssumption DEF JobAssumption
<1> DEFINE next == [job EXCEPT !.batch = job.batch \ {m}, !.subject = m, !.decision = "allow"]
           file == [next EXCEPT !.after = m]
<1> HIDE DEF m
<1>10. /\ next \in JobRecords /\ next.at = "judging" /\ next.failed = job.failed /\ next.after = job.after
       /\ next.batch = job.batch \ {m} /\ next.subject = m /\ next.decision = "allow"
       /\ next.apply = job.apply /\ next.query = job.query /\ next.full = job.full
       /\ next.recorded = job.recorded /\ next.code = job.code
  BY <1>0, <1>6, <1>7 DEF JobsTypeOK, JobRecords
<1>11. \/ kind # "backfill" /\ job' = [next EXCEPT !.at = "recording"]
       \/ kind = "backfill" /\ job' = [file EXCEPT !.failed = TRUE]
       \/ kind = "backfill" /\ ~Rejected(m) /\ job' = file
       \/ kind = "backfill" /\ job.apply /\ job' = [file EXCEPT !.at = "quarantining"]
       \/ kind = "backfill" /\ ~job.apply /\ job' = [file EXCEPT !.at = "recording"]
  BY DEF Judge, m
<1> HIDE DEF next
<1>12. /\ file \in JobRecords /\ file.at = "judging" /\ file.failed = job.failed /\ file.after = m
       /\ file.batch = job.batch \ {m} /\ file.subject = m /\ file.decision = "allow"
       /\ file.apply = job.apply /\ file.query = job.query /\ file.full = job.full
       /\ file.recorded = job.recorded /\ file.code = job.code
  BY <1>7, <1>10 DEF JobRecords
<1> HIDE DEF file
<1>9. job' \in JobRecords
  <2>1. CASE job' = [next EXCEPT !.at = "recording"]
    BY <1>10, <2>1 DEF JobRecords, AtWork
  <2>2. CASE job' = [file EXCEPT !.failed = TRUE]
    BY <1>12, <2>2 DEF JobRecords
  <2>3. CASE job' = file
    BY <1>12, <2>3
  <2>4. CASE job' = [file EXCEPT !.at = "quarantining"] \/ job' = [file EXCEPT !.at = "recording"]
    BY <1>12, <2>4 DEF JobRecords, AtWork
  <2> QED BY <1>11, <2>1, <2>2, <2>3, <2>4
<1>13. /\ job'.batch = job.batch \ {m} /\ job'.subject = m /\ job'.decision = "allow"
       /\ job'.apply = job.apply /\ job'.query = job.query /\ job'.full = job.full
       /\ job'.recorded = job.recorded /\ job'.code = job.code
       /\ job'.after = IF kind = "backfill" THEN m ELSE job.after
  BY <1>10, <1>11, <1>12 DEF JobRecords
<1>14. /\ job'.at \in {"judging", "quarantining", "recording"}
       /\ job'.at = "quarantining" => job.apply
       /\ job'.at = "recording" => kind # "backfill" \/ ~job.apply
       /\ job'.at = "judging" => kind = "backfill" /\ (job'.failed \/ ~Rejected(m))
       /\ job'.failed \in BOOLEAN /\ (job.failed => job'.failed)
  <2>0. job.failed \in BOOLEAN
    BY <1>0 DEF JobsTypeOK, JobRecords
  <2>1. CASE kind # "backfill" /\ job' = [next EXCEPT !.at = "recording"]
    <3>1. job'.at = "recording" /\ job'.failed = job.failed
      BY <1>10, <2>1 DEF JobRecords
    <3> QED BY <2>0, <2>1, <3>1
  <2>2. CASE kind = "backfill" /\ job' = [file EXCEPT !.failed = TRUE]
    <3>1. job'.at = "judging" /\ job'.failed = TRUE
      BY <1>12, <2>2 DEF JobRecords
    <3> QED BY <2>0, <2>2, <3>1
  <2>3. CASE kind = "backfill" /\ ~Rejected(m) /\ job' = file
    BY <1>12, <2>0, <2>3
  <2>4. CASE kind = "backfill" /\ job.apply /\ job' = [file EXCEPT !.at = "quarantining"]
    <3>1. job'.at = "quarantining" /\ job'.failed = job.failed
      BY <1>12, <2>4 DEF JobRecords
    <3> QED BY <2>0, <2>4, <3>1
  <2>5. CASE kind = "backfill" /\ ~job.apply /\ job' = [file EXCEPT !.at = "recording"]
    <3>1. job'.at = "recording" /\ job'.failed = job.failed
      BY <1>12, <2>5 DEF JobRecords
    <3> QED BY <2>0, <2>5, <3>1
  <2> QED BY <1>11, <2>1, <2>2, <2>3, <2>4, <2>5
<1>1. JobsTypeOK'
  BY <1>0, <1>6, <1>9 DEF JobsTypeOK, JobRecords
<1>2. JobInOrder'
  BY <1>0, <1>6, <1>7, <1>13, <1>14 DEF JobsTypeOK, JobInOrder, AtWork, Queries
<1>3. FindingsKept'
  <2>1. ASSUME NEW s \in standing, s \in job.recorded \/ ToCome(s), ~job'.failed
        PROVE  s \in job'.recorded \/ ToCome(s)'
    <3>1. s \in Nat /\ Rejected(s)
      BY <1>0, JobAssumption DEF FindingsKept, Rejected, JobsTypeOK, JobAssumption
    <3>2. CASE s \in job.recorded
      BY <1>13, <1>14, <3>2
    <3>3. CASE s = m
      BY <1>13, <1>14, <2>1, <3>1, <3>3 DEF ToCome, InHand
    <3>4. CASE s # m /\ s \in ready /\ s \in job.batch
      BY <1>6, <1>13, <1>14, <3>4 DEF ToCome
    <3>5. CASE s # m /\ s \in ready /\ Ahead(s)
      <4>1. Ahead(s)'
        BY <1>6, <1>7, <1>13, <1>14, <3>5 DEF Ahead
      <4> QED BY <1>6, <3>5, <4>1 DEF ToCome
    <3> QED BY <1>6, <2>1, <3>2, <3>3, <3>4, <3>5 DEF ToCome, InHand
  <2>2. job'.at \in AtWork /\ (~job'.failed => \A s \in standing : s \in job.recorded \/ ToCome(s))
    BY <1>0, <1>6, <1>13, <1>14 DEF FindingsKept, AtWork
  <2> QED BY <1>0, <1>6, <1>13, <1>14, <2>1, <2>2 DEF FindingsKept, AtWork, Scope
<1>4. AppliedIsDown'
  BY <1>0, <1>6, <1>13, <1>14 DEF AppliedIsDown, JobInOrder
<1>5. LedgerTrue'
  BY <1>0, <1>6, <1>13, <1>14 DEF LedgerTrue, Accounted, AtWork
<1> QED BY <1>1, <1>2, <1>3, <1>4, <1>5 DEF JobsInv

(* A file is taken out of service, and only that file.                     *)
LEMMA QuarantineKeeps ==
  ASSUME JobsInv, NEW answers \in BOOLEAN, NEW takesEffect \in BOOLEAN, Quarantine(answers, takesEffect)
  PROVE  JobsInv'
<1>0. JobsTypeOK /\ JobInOrder /\ FindingsKept /\ AppliedIsDown /\ LedgerTrue
  BY DEF JobsInv
<1>6. /\ job.at = "quarantining" /\ job.subject \in Audited /\ job.apply /\ kind = "backfill"
      /\ kind' = kind /\ standing' = standing /\ unclean' = unclean
      /\ ledger' = ledger /\ alerts' = alerts /\ runs' = runs /\ changes' = changes
  BY <1>0 DEF Quarantine, JobInOrder
<1>7. /\ ready' \in {ready, ready \ {job.subject}}
      /\ quarantined' = quarantined \cup (ready \ ready')
  BY DEF Quarantine
<1>8. \/ /\ job' = [job EXCEPT !.code = 1, !.at = "closing"]
      \/ /\ job' = [job EXCEPT !.decision = "deny", !.at = "recording"]
         /\ job.subject \in quarantined' /\ job.subject \notin ready'
      \/ /\ job' = [job EXCEPT !.decision = "allow", !.at = "recording"]
         /\ job.subject \notin ready' /\ ready' = ready
  BY DEF Quarantine
<1>9. /\ job' \in JobRecords /\ job'.at \in {"recording", "closing"}
      /\ job'.apply = job.apply /\ job'.query = job.query /\ job'.after = job.after
      /\ job'.batch = job.batch /\ job'.full = job.full /\ job'.subject = job.subject
      /\ job'.recorded = job.recorded /\ job'.failed = job.failed
      /\ job'.at = "closing" => job'.code = 1
      /\ job'.at = "recording" =>
           /\ job'.code = job.code /\ job.subject \notin ready'
           /\ job'.decision = "deny" => job.subject \in quarantined'
           /\ job'.decision = "allow" => ready' = ready
  <2>1. CASE job' = [job EXCEPT !.code = 1, !.at = "closing"]
    BY <1>0, <2>1 DEF JobsTypeOK, JobRecords
  <2>2. CASE /\ job' = [job EXCEPT !.decision = "deny", !.at = "recording"]
             /\ job.subject \in quarantined' /\ job.subject \notin ready'
    BY <1>0, <2>2 DEF JobsTypeOK, JobRecords, AtWork
  <2>3. CASE /\ job' = [job EXCEPT !.decision = "allow", !.at = "recording"]
             /\ job.subject \notin ready' /\ ready' = ready
    BY <1>0, <2>3 DEF JobsTypeOK, JobRecords, AtWork
  <2> QED BY <1>8, <2>1, <2>2, <2>3
<1>1. JobsTypeOK'
  BY <1>0, <1>6, <1>7, <1>9 DEF JobsTypeOK
<1>2. JobInOrder'
  BY <1>0, <1>6, <1>7, <1>9 DEF JobInOrder, AtWork
<1>3. FindingsKept'
  <2>1. ASSUME NEW s \in standing, s \in job.recorded \/ ToCome(s), job'.at = "recording"
        PROVE  s \in job'.recorded \/ ToCome(s)'
    <3>1. CASE s \in job.recorded \/ s = job.subject
      BY <1>9, <2>1, <3>1 DEF ToCome, InHand
    <3>2. CASE s \notin job.recorded /\ s # job.subject
      <4>1. s \in ready' /\ (s \in job.batch \/ Ahead(s))
        BY <1>7, <2>1, <3>2 DEF ToCome, InHand
      <4>2. Ahead(s) => Ahead(s)'
        BY <1>6, <1>9 DEF Ahead
      <4> QED BY <1>9, <4>1, <4>2 DEF ToCome
    <3> QED BY <3>1, <3>2
  <2> QED BY <1>0, <1>6, <1>9, <2>1 DEF FindingsKept, AtWork, Scope
<1>4. AppliedIsDown'
  BY <1>0, <1>6, <1>7, <1>9 DEF AppliedIsDown
<1>5. LedgerTrue'
  <2>1. \A s \in quarantined : Accounted(s)'
    BY <1>0, <1>6, <1>9 DEF LedgerTrue, Accounted, AtWork
  <2>2. \A s \in quarantined' \ quarantined : s = job.subject /\ ready' # ready
    BY <1>7
  <2>3. \A s \in quarantined' \ quarantined : Accounted(s)'
    BY <1>0, <1>6, <1>8, <1>9, <2>2 DEF Accounted, JobsTypeOK, JobRecords
  <2> QED BY <1>0, <1>6, <1>7, <1>9, <2>1, <2>3 DEF LedgerTrue
<1> QED BY <1>1, <1>2, <1>3, <1>4, <1>5 DEF JobsInv

(* The event of a finding.                                                 *)
LEMMA RecordKeeps ==
  ASSUME JobsInv, NEW answers \in BOOLEAN, NEW takesEffect \in BOOLEAN, NEW severe \in BOOLEAN,
         Record(answers, takesEffect, severe)
  PROVE  JobsInv'
<1>0. JobsTypeOK /\ JobInOrder /\ FindingsKept /\ AppliedIsDown /\ LedgerTrue
  BY DEF JobsInv
<1>6. /\ job.at = "recording" /\ job.subject \in Audited
      /\ kind' = kind /\ ready' = ready /\ standing' = standing /\ unclean' = unclean
      /\ quarantined' = quarantined /\ runs' = runs /\ changes' = changes
  BY <1>0 DEF Record, JobInOrder
<1>7. /\ alerts' \subseteq alerts \cup {job.subject}
      /\ ledger \subseteq ledger' /\ ledger' \subseteq ledger \cup {<<job.subject, job.decision>>}
      /\ answers => <<job.subject, job.decision>> \in ledger'
  BY DEF Record
<1>8. /\ job' \in JobRecords /\ job'.at = "judging"
      /\ job'.apply = job.apply /\ job'.query = job.query /\ job'.after = job.after
      /\ job'.batch = job.batch /\ job'.full = job.full /\ job'.code = job.code
      /\ answers => job'.recorded = job.recorded \cup {job.subject} /\ job'.failed = job.failed
      /\ ~answers => job'.recorded = job.recorded /\ job'.failed
  BY <1>0, <1>6 DEF Record, JobsTypeOK, JobRecords, AtWork
<1>1. JobsTypeOK'
  BY <1>0, <1>6, <1>7, <1>8 DEF JobsTypeOK
<1>2. JobInOrder'
  BY <1>0, <1>6, <1>8 DEF JobInOrder, AtWork
<1>3. FindingsKept'
  <2>1. ASSUME NEW s \in standing, s \in job.recorded \/ ToCome(s), answers
        PROVE  s \in job'.recorded \/ ToCome(s)'
    <3>1. Ahead(s) => Ahead(s)'
      BY <1>6, <1>8 DEF Ahead
    <3> QED BY <1>6, <1>8, <2>1, <3>1 DEF ToCome, InHand
  <2> QED BY <1>0, <1>6, <1>8, <2>1 DEF FindingsKept, AtWork, Scope
<1>4. AppliedIsDown'
  BY <1>0, <1>6, <1>8 DEF AppliedIsDown
<1>5. LedgerTrue'
  <2>1. \A s \in Audited : <<s, "deny">> \in ledger' => s \in quarantined'
    BY <1>0, <1>6, <1>7 DEF LedgerTrue
  <2>2. \A s \in quarantined' : Accounted(s)'
    BY <1>0, <1>6, <1>7, <1>8 DEF LedgerTrue, Accounted, AtWork
  <2> QED BY <1>8, <2>1, <2>2 DEF LedgerTrue
<1> QED BY <1>1, <1>2, <1>3, <1>4, <1>5 DEF JobsInv

(* The end of a run, reported or not.                                      *)
LEMMA EndKeeps ==
  ASSUME JobsInv, Report \/ ReadFails \/ Kill \/ \E code \in {0, 1} : CloseConnections(code)
  PROVE  JobsInv'
<1>0. JobsTypeOK /\ JobInOrder /\ FindingsKept /\ AppliedIsDown /\ LedgerTrue
  BY DEF JobsInv
<1>6. /\ kind' = kind /\ ready' = ready /\ standing' = standing /\ unclean' = unclean
      /\ quarantined' = quarantined /\ ledger' = ledger /\ changes' = changes
      /\ alerts' \in {alerts, {}}
  BY DEF Report, ReadFails, Kill, CloseConnections, Exit
<1>7. /\ job' \in JobRecords
      /\ job'.apply = job.apply /\ job'.recorded = job.recorded
      /\ job'.at \in {"closing", "ended"}
  <2>1. ASSUME NEW code \in {0, 1}, NEW at \in {"closing", "ended"},
               job' = [job EXCEPT !.code = code, !.at = at]
        PROVE  <1>7!:
    BY <1>0, <2>1 DEF JobsTypeOK, JobRecords
  <2>2. \E code \in {0, 1}, at \in {"closing", "ended"} : job' = [job EXCEPT !.code = code, !.at = at]
    <3>1. CASE Report
      <4>1. (IF job.failed THEN 1 ELSE 0) \in {0, 1}
        OBVIOUS
      <4> QED BY <3>1, <4>1 DEF Report
    <3>2. CASE ReadFails
      BY <3>2 DEF ReadFails
    <3>3. CASE Kill
      BY <3>3 DEF Kill, Exit
    <3>4. CASE \E code \in {0, 1} : CloseConnections(code)
      BY <3>4 DEF CloseConnections, Exit
    <3> QED BY <3>1, <3>2, <3>3, <3>4
  <2> QED BY <2>1, <2>2
<1>8. \/ /\ job.at = "reporting" /\ job'.at = "closing" /\ runs' = runs
         /\ job'.code = 0 => ~job.failed
         /\ job'.code = 1 => job.failed
      \/ job.at = "reading" /\ job'.at = "closing" /\ job'.code = 1 /\ runs' = runs
      \/ /\ job'.at = "ended" /\ alerts' = {}
         /\ runs' \in [count : Nat, failed : BOOLEAN] /\ (runs.failed => runs'.failed)
         /\ job'.code = 1 => runs'.failed
         /\ job'.code = 0 => job.at = "closing" /\ job.code = 0
  <2>1. ASSUME NEW code \in {0, 1}, Exit(code)
        PROVE  /\ job'.at = "ended" /\ job'.code = code
               /\ runs' \in [count : Nat, failed : BOOLEAN] /\ (runs.failed => runs'.failed)
               /\ code = 1 => runs'.failed
    <3>1. job'.at = "ended" /\ job'.code = code
      BY <1>0, <2>1 DEF Exit, JobsTypeOK, JobRecords
    <3> DEFINE failed == runs.failed \/ code # 0
    <3>2. runs' = [runs EXCEPT !.failed = failed] /\ failed \in BOOLEAN
      BY <2>1 DEF Exit
    <3>3. (runs.failed => failed) /\ (code = 1 => failed)
      OBVIOUS
    <3> HIDE DEF failed
    <3>4. runs' \in [count : Nat, failed : BOOLEAN] /\ runs'.failed = failed
      BY <1>0, <3>2 DEF JobsTypeOK
    <3> QED BY <3>1, <3>3, <3>4
  <2>2. CASE Report
    <3>1. job.at = "reporting" /\ job'.at = "closing" /\ runs' = runs
      BY <1>0, <2>2 DEF Report, JobsTypeOK, JobRecords
    <3>2. job'.code = IF job.failed THEN 1 ELSE 0
      BY <1>0, <2>2 DEF Report, JobsTypeOK, JobRecords
    <3> QED BY <3>1, <3>2
  <2>3. CASE ReadFails
    BY <1>0, <2>3 DEF ReadFails, JobsTypeOK, JobRecords
  <2>4. CASE Kill
    BY <2>1, <2>4 DEF Kill
  <2>5. ASSUME NEW code \in {0, 1}, CloseConnections(code) PROVE <1>8!3
    <3>1. alerts' = {} /\ job.at = "closing" /\ (code = 0 => job.code = 0)
      BY <1>0, <2>5 DEF CloseConnections, JobsTypeOK, JobRecords
    <3> QED BY <2>1, <2>5, <3>1 DEF CloseConnections
  <2> QED BY <2>2, <2>3, <2>4, <2>5
<1>1. JobsTypeOK'
  BY <1>0, <1>6, <1>7, <1>8 DEF JobsTypeOK
<1>2. JobInOrder'
  BY <1>0, <1>6, <1>7, <1>8 DEF JobInOrder, AtWork
<1>3. FindingsKept'
  BY <1>0, <1>6, <1>7, <1>8 DEF FindingsKept, AtWork, Scope
<1>4. AppliedIsDown'
  BY <1>0, <1>6, <1>7, <1>8 DEF AppliedIsDown
<1>5. LedgerTrue'
  <2>1. ASSUME NEW s \in quarantined, Accounted(s) PROVE Accounted(s)'
    <3>1. CASE <<s, "deny">> \in ledger
      BY <1>6, <3>1 DEF Accounted
    <3>2. CASE runs.failed
      BY <1>8, <3>2 DEF Accounted
    <3>3. CASE ~runs.failed /\ <<s, "deny">> \notin ledger
      <4>1. job'.code \in {0, 1} /\ job.code \in {0, 1}
        BY <1>0, <1>7 DEF JobsTypeOK, JobRecords
      <4>2. CASE job.at = "reporting"
        BY <1>8, <2>1, <3>3, <4>1, <4>2 DEF Accounted
      <4>3. CASE job.at # "reporting"
        BY <1>8, <2>1, <3>3, <4>1, <4>3 DEF Accounted, AtWork
      <4> QED BY <4>2, <4>3
    <3> QED BY <3>1, <3>2, <3>3
  <2> QED BY <1>0, <1>6, <1>7, <2>1 DEF LedgerTrue
<1> QED BY <1>1, <1>2, <1>3, <1>4, <1>5 DEF JobsInv

LEMMA AlertsKeep ==
  ASSUME JobsInv, NEW s \in Audited, AlertSettles(s)
  PROVE  JobsInv'
<1>0. JobsTypeOK /\ JobInOrder /\ FindingsKept /\ AppliedIsDown /\ LedgerTrue
  BY DEF JobsInv
<1> USE DEF AlertSettles
<1>1. JobsTypeOK'
  BY <1>0 DEF JobsTypeOK
<1>2. JobInOrder'
  BY <1>0 DEF JobInOrder
<1>3. FindingsKept'
  BY <1>0 DEF FindingsKept, Scope, ToCome, InHand, Ahead
<1>4. AppliedIsDown'
  BY <1>0 DEF AppliedIsDown
<1>5. LedgerTrue'
  BY <1>0 DEF LedgerTrue, Accounted
<1> QED BY <1>1, <1>2, <1>3, <1>4, <1>5 DEF JobsInv

(* What changes beside the job is no finding of it any more.               *)
LEMMA ChangesKeep ==
  ASSUME JobsInv, NEW c \in Audited, FileChanges(c) \/ RowsChange(c)
  PROVE  JobsInv'
<1>0. JobsTypeOK /\ JobInOrder /\ FindingsKept /\ AppliedIsDown /\ LedgerTrue
  BY DEF JobsInv
<1>6. /\ kind' = kind /\ quarantined' = quarantined /\ ledger' = ledger /\ alerts' = alerts
      /\ job' = job /\ runs' = runs /\ changes' = changes + 1 /\ standing' = standing \ {c}
      /\ ready' \subseteq ready \cup {c} /\ ready \subseteq ready' \cup {c}
      /\ unclean' \subseteq unclean \cup {c} /\ unclean \subseteq unclean' \cup {c}
      /\ kind # "backfill" => ready' = ready
      /\ c \in quarantined => c \notin ready'
  BY <1>0 DEF FileChanges, RowsChange, Rejected, JobInOrder
<1>1. JobsTypeOK'
  BY <1>0, <1>6 DEF JobsTypeOK
<1>2. JobInOrder'
  BY <1>0, <1>6 DEF JobInOrder
<1>3. FindingsKept'
  <2>1. \A s \in standing' : ToCome(s) => ToCome(s)'
    BY <1>6 DEF ToCome, InHand, Ahead
  <2> QED BY <1>0, <1>6, <2>1 DEF FindingsKept, Scope
<1>4. AppliedIsDown'
  BY <1>0, <1>6 DEF AppliedIsDown
<1>5. LedgerTrue'
  BY <1>0, <1>6 DEF LedgerTrue, Accounted
<1> QED BY <1>1, <1>2, <1>3, <1>4, <1>5 DEF JobsInv

LEMMA JobsInvStep == JobsInv /\ [JobsNext]_jobVars => JobsInv'
<1> SUFFICES ASSUME JobsInv, [JobsNext]_jobVars PROVE JobsInv'
  OBVIOUS
<1>1. CASE \E apply \in BOOLEAN : StartJob(apply)
  BY <1>1, StartJobKeeps
<1>2. CASE ReadLedgerBalances \/ ReadAggregates \/ ReadPatterns
  BY <1>2, RowsKeep DEF ReadLedgerBalances, ReadAggregates, ReadPatterns
<1>3. CASE ListReady
  BY <1>3, ListKeeps
<1>4. CASE EndOfBatch
  BY <1>4, BatchKeeps
<1>5. CASE \E answers \in BOOLEAN : Judge(answers)
  BY <1>5, JudgeKeeps
<1>6. CASE \E answers, takesEffect \in BOOLEAN : Quarantine(answers, takesEffect)
  BY <1>6, QuarantineKeeps
<1>7. CASE \E answers, takesEffect, severe \in BOOLEAN : Record(answers, takesEffect, severe)
  BY <1>7, RecordKeeps
<1>8. CASE Report \/ ReadFails \/ Kill \/ \E code \in {0, 1} : CloseConnections(code)
  BY <1>8, EndKeeps
<1>9. CASE \E s \in Audited : AlertSettles(s)
  BY <1>9, AlertsKeep
<1>10. CASE \E s \in Audited : FileChanges(s) \/ RowsChange(s)
  BY <1>10, ChangesKeep
<1>11. CASE UNCHANGED jobVars
  <2>0. JobsTypeOK /\ JobInOrder /\ FindingsKept /\ AppliedIsDown /\ LedgerTrue
    BY DEF JobsInv
  <2> USE <1>11 DEF jobVars
  <2>1. JobsTypeOK'
    BY <2>0 DEF JobsTypeOK
  <2>2. JobInOrder'
    BY <2>0 DEF JobInOrder
  <2>3. FindingsKept'
    BY <2>0 DEF FindingsKept, Scope, ToCome, InHand, Ahead
  <2>4. AppliedIsDown'
    BY <2>0 DEF AppliedIsDown
  <2>5. LedgerTrue'
    BY <2>0 DEF LedgerTrue, Accounted
  <2> QED BY <2>1, <2>2, <2>3, <2>4, <2>5 DEF JobsInv
<1> QED BY <1>1, <1>2, <1>3, <1>4, <1>5, <1>6, <1>7, <1>8, <1>9, <1>10, <1>11 DEF JobsNext

LEMMA JobsInvReports == JobsInv => JobsReportAll
<1> SUFFICES ASSUME JobsInv PROVE JobsReportAll
  OBVIOUS
<1>1. CleanRunMissedNothing
  BY DEF JobsInv, JobInOrder, FindingsKept, AppliedIsDown, CleanRunMissedNothing
<1>2. QuarantinesAreAccounted
  BY DEF JobsInv, LedgerTrue, Accounted, AtWork, QuarantinesAreAccounted
<1> QED BY <1>1, <1>2 DEF JobsReportAll

(* Whatever changes and fails while a job runs: a run that ends without an *)
(* error has written an event for every finding that stood from its start  *)
(* to its end, under --apply none of them is served, and the ledger claims *)
(* exactly the quarantines there were, but for those of a run that says it *)
(* failed (upload-backfill.ts:50-94, ledger-audit.ts:90-92).               *)
THEOREM JobsAlwaysReportAll == JobsSpec => []JobsReportAll
<1>1. JobsSpec => []JobsInv
  BY JobsInvInit, JobsInvStep, PTL DEF JobsSpec
<1> QED BY <1>1, JobsInvReports, PTL
=============================================================================
