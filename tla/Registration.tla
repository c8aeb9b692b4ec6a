---- MODULE Registration ----
(* How the account of one mailbox comes to be: registration with a password,    *)
(* the emailed code, resending it, the continuation cookie that signs the       *)
(* registering browser in, and Google sign-in, which may meet an account that    *)
(* somebody else registered with the same address (auth/auth.ts, auth/google.ts, *)
(* auth/google-account.ts).  A transaction is one action; what a handler does     *)
(* before and after it are steps of its request, and other requests run between.  *)
(* The lockout ladder and the second factor of the same handlers: SignIn.         *)
EXTENDS Integers, FiniteSets

CONSTANTS
  Browsers,       \* browsers that send requests, at most one at a time each
  OwnerBrowsers,  \* those used by the person who reads the mailbox
  Subjects,       \* Google identities that carry the address
  MaxAttempts,    \* EMAIL_VERIFICATION_MAX_ATTEMPTS
  MaxCodes,       \* bound on the codes created
  MaxNonces       \* bound on the Google challenges created

ASSUME RegistrationAssumption ==
  /\ OwnerBrowsers \subseteq Browsers
  /\ MaxAttempts \in Nat \ {0} /\ MaxCodes \in Nat /\ MaxNonces \in Nat

VARIABLES
  registrant,    \* the users row of the address
  challenge,     \* its email_verification_challenges row
  lastCode,      \* codes created so far
  inbox,         \* codes delivered to the mailbox
  continuation,  \* browsers that hold a registration continuation cookie
  nonces,        \* live google_login_challenges rows
  lastNonce,     \* Google challenges created so far
  regRequest,    \* what each browser's request in progress does next
  signedIn,      \* browsers with a live session of the account
  confirmed      \* history: the mailbox's owner proved it

regVars == <<registrant, challenge, lastCode, inbox, continuation, nonces, lastNonce,
             regRequest, signedIn, confirmed>>

-----------------------------------------------------------------------------
NoCode == 0
NoSubject == "none"
RegIdle == [step |-> "idle"]
NoAccount == [exists |-> FALSE, active |-> FALSE, required |-> FALSE, verified |-> FALSE,
              password |-> "random", subject |-> NoSubject]
NoChallenge == [code |-> NoCode, expired |-> FALSE, cooling |-> FALSE, attempts |-> 0]

PasswordOf(b) == IF b \in OwnerBrowsers THEN "owner" ELSE "stranger"

RegInit ==
  /\ registrant = NoAccount /\ challenge = NoChallenge
  /\ lastCode = NoCode /\ inbox = {} /\ continuation = {}
  /\ nonces = {} /\ lastNonce = 0
  /\ regRequest = [b \in Browsers |-> RegIdle]
  /\ signedIn = {} /\ confirmed = FALSE

CanContinueRegistration ==
  registrant.exists /\ registrant.active /\ registrant.required /\ ~registrant.verified

ChallengeUsable ==
  challenge.code # NoCode /\ ~challenge.expired /\ challenge.attempts < MaxAttempts

NeedsVerification == registrant.required /\ ~registrant.verified

(* createChallenge and the upsert that stores it: a new code, its cooldown,   *)
(* and no failed attempts; the request goes on to send it.                    *)
CreateChallenge(b, cookie) ==
  /\ lastCode < MaxCodes
  /\ lastCode' = lastCode + 1
  /\ challenge' = [code |-> lastCode + 1, expired |-> FALSE, cooling |-> TRUE, attempts |-> 0]
  /\ regRequest' = [regRequest EXCEPT ![b] =
                      [step |-> "send", code |-> lastCode + 1, cookie |-> cookie]]

(* register.  An address that exists, or that another registration inserts     *)
(* first (the unique violation), resumes the pending registration, which takes  *)
(* its password; any other existing account is a conflict and changes nothing.  *)
Register(b) ==
  /\ regRequest[b] = RegIdle
  /\ \/ /\ ~registrant.exists
        /\ registrant' = [exists |-> TRUE, active |-> TRUE, required |-> TRUE, verified |-> FALSE,
                       password |-> PasswordOf(b), subject |-> NoSubject]
        /\ CreateChallenge(b, TRUE)
        /\ UNCHANGED continuation
     \/ /\ CanContinueRegistration /\ registrant.password = PasswordOf(b)
        /\ \/ /\ ChallengeUsable
              /\ continuation' = continuation \cup {b}
              /\ UNCHANGED <<lastCode, challenge, regRequest>>
           \/ /\ ~ChallengeUsable
              /\ CreateChallenge(b, TRUE)
              /\ UNCHANGED continuation
        /\ UNCHANGED registrant
  /\ UNCHANGED <<inbox, nonces, lastNonce, signedIn, confirmed>>

(* resendEmailVerification: answers anybody who knows the address, changes     *)
(* something only for a pending account outside its cooldown, and renews the   *)
(* cookie of a browser that had one.                                           *)
ResendEmailVerification(b) ==
  /\ regRequest[b] = RegIdle
  /\ CanContinueRegistration
  /\ ~(challenge.code # NoCode /\ challenge.cooling)
  /\ CreateChallenge(b, b \in continuation)
  /\ UNCHANGED <<registrant, inbox, continuation, nonces, lastNonce, signedIn, confirmed>>

(* sendPendingChallenge, and the answer with its cookie (an error answer       *)
(* carries it too).  A failed delivery ends the cooldown of the challenge that  *)
(* the account has by then, which may be a later one.                           *)
SendPendingChallenge(b) ==
  /\ regRequest[b].step = "send"
  /\ \/ inbox' = inbox \cup {regRequest[b].code} /\ UNCHANGED challenge
     \/ challenge' = [challenge EXCEPT !.cooling = FALSE] /\ UNCHANGED inbox
  /\ continuation' = IF regRequest[b].cookie THEN continuation \cup {b} ELSE continuation
  /\ regRequest' = [regRequest EXCEPT ![b] = RegIdle]
  /\ UNCHANGED <<registrant, lastCode, nonces, lastNonce, signedIn, confirmed>>

(* verifyEmail.  Only the mailbox's owner has received codes, the current or   *)
(* an earlier one; anybody may type a wrong one.  The browser that holds the   *)
(* continuation goes on to be signed in.                                       *)
CodesOf(b) == {NoCode} \cup IF b \in OwnerBrowsers THEN inbox ELSE {}

VerifyEmail(b, code) ==
  /\ regRequest[b] = RegIdle
  /\ CanContinueRegistration /\ ChallengeUsable
  /\ code \in CodesOf(b)
  /\ IF code = challenge.code
     THEN /\ registrant' = [registrant EXCEPT !.verified = TRUE]
          /\ challenge' = NoChallenge
          /\ continuation' = continuation \ {b}
          /\ regRequest' = [regRequest EXCEPT ![b] =
               IF b \in continuation THEN [step |-> "admit"] ELSE RegIdle]
          /\ confirmed' = TRUE
     ELSE /\ challenge' = [challenge EXCEPT !.attempts = @ + 1]
          /\ UNCHANGED <<registrant, continuation, regRequest, confirmed>>
  /\ UNCHANGED <<lastCode, inbox, nonces, lastNonce, signedIn>>

-----------------------------------------------------------------------------
(* googleChallenge: a nonce for this browser. *)
GoogleChallenge(b) ==
  /\ lastNonce < MaxNonces
  /\ lastNonce' = lastNonce + 1
  /\ nonces' = nonces \cup {[id |-> lastNonce + 1, browser |-> b]}
  /\ UNCHANGED <<registrant, challenge, lastCode, inbox, continuation, regRequest, signedIn,
                 confirmed>>

(* resolveGoogleAccount once no identity is known for the subject: the account *)
(* of the address is created, or linked; one that waits for its email loses     *)
(* the password and the sessions of whoever registered it.  (Reset links exist  *)
(* only for accounts that do not wait: forgotPassword.)                         *)
LinkGoogle(s) ==
  /\ ~registrant.exists \/ (registrant.active /\ registrant.subject = NoSubject)
  /\ registrant' = [exists |-> TRUE, active |-> TRUE,
                 required |-> registrant.required, verified |-> TRUE,
                 password |-> IF registrant.exists /\ ~NeedsVerification THEN registrant.password ELSE "random",
                 subject |-> s]
  /\ signedIn' = IF NeedsVerification THEN {} ELSE signedIn
  /\ challenge' = NoChallenge
  /\ confirmed' = TRUE

(* googleLogin with a credential of the owner's Google account for a nonce of  *)
(* this browser.  Without consent a first sign-in creates nothing and keeps the *)
(* nonce; otherwise the nonce is deleted with the transaction.                  *)
GoogleLogin(b, n, s, consent) ==
  /\ regRequest[b] = RegIdle /\ b \in OwnerBrowsers
  /\ [id |-> n, browser |-> b] \in nonces
  /\ \/ /\ registrant.subject = s /\ registrant.active
        /\ UNCHANGED <<registrant, challenge, signedIn, confirmed>>
     \/ /\ registrant.subject # s
        /\ registrant.exists \/ consent
        /\ LinkGoogle(s)
  /\ nonces' = nonces \ {[id |-> n, browser |-> b]}
  /\ regRequest' = [regRequest EXCEPT ![b] = [step |-> "admit"]]
  /\ UNCHANGED <<lastCode, inbox, continuation, lastNonce>>

(* login: the password is compared with the hash that the request has read. *)
ProvePassword(b) ==
  /\ regRequest[b] = RegIdle
  /\ registrant.exists /\ registrant.password = PasswordOf(b)
  /\ regRequest' = [regRequest EXCEPT ![b] = [step |-> "admit"]]
  /\ UNCHANGED <<registrant, challenge, lastCode, inbox, continuation, nonces, lastNonce, signedIn,
                 confirmed>>

(* Mutant: a session for an account that waits for its email. *)
AdmitUnverified(b) ==
  /\ regRequest[b].step = "admit"
  /\ regRequest' = [regRequest EXCEPT ![b] =
       IF registrant.active THEN [step |-> "open"] ELSE RegIdle]
  /\ UNCHANGED <<registrant, challenge, lastCode, inbox, continuation, nonces, lastNonce, signedIn,
                 confirmed>>

(* completePrimarySignIn and the end of verifyEmail: the account is loaded ... *)
AdmitActor(b) ==
  /\ regRequest[b].step = "admit"
  /\ regRequest' = [regRequest EXCEPT ![b] =
       IF registrant.active /\ ~NeedsVerification THEN [step |-> "open"] ELSE RegIdle]
  /\ UNCHANGED <<registrant, challenge, lastCode, inbox, continuation, nonces, lastNonce, signedIn,
                 confirmed>>

(* ... and its session inserted. *)
CreateRefreshSession(b) ==
  /\ regRequest[b].step = "open"
  /\ signedIn' = signedIn \cup {b}
  /\ regRequest' = [regRequest EXCEPT ![b] = RegIdle]
  /\ UNCHANGED <<registrant, challenge, lastCode, inbox, continuation, nonces, lastNonce,
                 confirmed>>

(* An administrator suspends the account, which ends its sessions, or lets it  *)
(* in again.                                                                   *)
SetAccountStatus ==
  /\ registrant.exists
  /\ registrant' = [registrant EXCEPT !.active = ~@]
  /\ signedIn' = IF registrant.active THEN {} ELSE signedIn
  /\ UNCHANGED <<challenge, lastCode, inbox, continuation, nonces, lastNonce, regRequest,
                 confirmed>>

(* Time: a code expires, its cooldown ends, a cookie or a nonce lapses. *)
TimePasses ==
  /\ \/ /\ challenge.code # NoCode
        /\ \/ challenge' = [challenge EXCEPT !.expired = TRUE]
           \/ challenge' = [challenge EXCEPT !.cooling = FALSE]
        /\ UNCHANGED <<continuation, nonces>>
     \/ \E b \in continuation : continuation' = continuation \ {b} /\ UNCHANGED <<challenge, nonces>>
     \/ \E n \in nonces : nonces' = nonces \ {n} /\ UNCHANGED <<challenge, continuation>>
  /\ UNCHANGED <<registrant, lastCode, inbox, lastNonce, regRequest, signedIn, confirmed>>

RegNext ==
  \/ \E b \in Browsers :
       \/ Register(b) \/ ResendEmailVerification(b) \/ SendPendingChallenge(b)
       \/ \E code \in 0..MaxCodes : VerifyEmail(b, code)
       \/ GoogleChallenge(b)
       \/ \E n \in 1..MaxNonces, s \in Subjects, consent \in BOOLEAN : GoogleLogin(b, n, s, consent)
       \/ ProvePassword(b) \/ AdmitActor(b) \/ CreateRefreshSession(b)
  \/ SetAccountStatus
  \/ TimePasses

RegSpec == RegInit /\ [][RegNext]_regVars

-----------------------------------------------------------------------------
RegAccount == [exists : BOOLEAN, active : BOOLEAN, required : BOOLEAN, verified : BOOLEAN,
               password : {"owner", "stranger", "random"}, subject : Subjects \cup {NoSubject}]
RegCode == [code : 0..MaxCodes, expired : BOOLEAN, cooling : BOOLEAN, attempts : 0..MaxAttempts]
RegStep == {RegIdle, [step |-> "admit"], [step |-> "open"]} \cup
             [step : {"send"}, code : 1..MaxCodes, cookie : BOOLEAN]

RegTypeOK ==
  /\ registrant \in RegAccount /\ challenge \in RegCode
  /\ lastCode \in 0..MaxCodes /\ inbox \subseteq 1..MaxCodes
  /\ continuation \subseteq Browsers /\ signedIn \subseteq Browsers
  /\ nonces \subseteq [id : 1..MaxNonces, browser : Browsers] /\ lastNonce \in 0..MaxNonces
  /\ regRequest \in [Browsers -> RegStep]
  /\ confirmed \in BOOLEAN

(* Nobody is signed in to an account, whichever way, before the person who     *)
(* reads its mailbox has proved it: by the code of the current challenge or by  *)
(* Google (auth.ts:304-368, 695-742).                                           *)
MailboxProvedFirst == signedIn # {} => confirmed
====
