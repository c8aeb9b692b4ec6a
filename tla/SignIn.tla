---- MODULE SignIn ----
(* The second factor of one account and the failure counter that guards its      *)
(* password and its factor together: sign-in with a password, its completion      *)
(* with a code, step-up, switching the factor off, new recovery codes, and the    *)
(* mail about a lock (auth/lockout.ts, auth/auth.ts, auth/mfa/).                   *)
(* Every request reads the lock, checks what it was given and counts a failure    *)
(* in transactions of their own, so requests that guess in parallel interleave.    *)
(* TOTP time is counted in steps; a lock, the memory of failures and the interval   *)
(* between two mails end by actions of time.                                        *)
EXTENDS Integers, FiniteSets

CONSTANTS
  SignRequests,   \* requests in progress at a time
  Threshold,      \* failures at the first rung of the ladder (5)
  CodesPerSet,    \* recovery codes of one set
  MaxSets,        \* bound on the sets of codes issued
  MaxEnrolments,  \* bound on the secrets created
  MaxStep         \* bound on the TOTP clock

ASSUME SignInAssumption ==
  /\ IsFiniteSet(SignRequests) /\ Threshold \in Nat \ {0} /\ CodesPerSet \in Nat \ {0}
  /\ MaxSets \in Nat /\ MaxEnrolments \in Nat /\ MaxStep \in Nat \ {0}

VARIABLES
  failures,    \* auth_failure_counters: consecutive failures, lock, age, last mail
  secret,      \* user_mfa_secrets
  codes,       \* unused user_recovery_codes
  issued,      \* secrets and sets of recovery codes issued so far
  clock,       \* current TOTP step
  signRequest, \* the requests in progress
  pass,        \* tokens in the user's hands: continuation, session
  guesses,     \* history: wrong guesses checked since failures were forgotten
  accepted,    \* history: the factors accepted
  twice        \* history: one of them was accepted again

signVars == <<failures, secret, codes, issued, clock, signRequest, pass, guesses, accepted, twice>>

-----------------------------------------------------------------------------
SignIdle == [op |-> "none", step |-> "idle"]
NoSecret == [id |-> 0, confirmed |-> FALSE, lastStep |-> 0]
GuardedOps == {"stepup", "disable", "rotate"}
CodeSet(k) == {k} \X (1..CodesPerSet)

SignInit ==
  /\ failures = [count |-> 0, locked |-> FALSE, stale |-> FALSE, mailed |-> FALSE]
  /\ secret = NoSecret /\ codes = {} /\ issued = [secrets |-> 0, sets |-> 0] /\ clock = 1
  /\ signRequest = [r \in SignRequests |-> SignIdle]
  /\ pass = {} /\ guesses = 0
  /\ accepted = {} /\ twice = FALSE

Goto(r, step) == signRequest' = [signRequest EXCEPT ![r].step = step]
End(r) == signRequest' = [signRequest EXCEPT ![r] = SignIdle]

(* The history of a factor that is accepted. *)
Accept(kind, id, n) ==
  /\ accepted' = accepted \cup {<<kind, id, n>>}
  /\ twice' = (twice \/ <<kind, id, n>> \in accepted)

(* lockDurationSeconds is positive from the first rung on: the model counts no   *)
(* further, and lets a lock end at any time.                                     *)
Locks(count) == count >= Threshold

(* The lock is read before anything is checked, by login, verifyMfaLogin and   *)
(* verifyFactorWithLockout alike; a locked account is refused.  A second       *)
(* factor needs the token of the first one, the guarded operations a session    *)
(* and an enrolled factor.                                                     *)
StartRequest(r, op) ==
  /\ signRequest[r] = SignIdle
  /\ op = "mfa" => "continuation" \in pass
  /\ op \in GuardedOps => "session" \in pass /\ secret.confirmed
  /\ ~failures.locked
  /\ signRequest' = [signRequest EXCEPT ![r] = [op |-> op, step |-> "check"]]
  /\ UNCHANGED <<failures, secret, codes, issued, clock, pass, guesses, accepted, twice>>

(* login compares the password. *)
CheckPassword(r) ==
  /\ signRequest[r] = [op |-> "login", step |-> "check"]
  /\ \/ Goto(r, "admit") /\ UNCHANGED guesses
     \/ Goto(r, "fail") /\ guesses' = guesses + 1
  /\ UNCHANGED <<failures, secret, codes, issued, clock, pass, accepted, twice>>

(* verifyTotp: a step of the window that is later than the last one used. *)
FreshSteps == {t \in (clock - 1)..(clock + 1) : t >= 1 /\ t > secret.lastStep}

(* verifySecondFactor, in one transaction under the lock of the secret: a code *)
(* of the authenticator persists its step, a recovery code is consumed.         *)
AcceptTotp(r) ==
  \E t \in FreshSteps :
    /\ secret' = [secret EXCEPT !.lastStep = t]
    /\ Accept("totp", secret.id, t)
    /\ UNCHANGED codes

AcceptRecoveryCode(r) ==
  \E c \in codes :
    /\ codes' = codes \ {c}
    /\ Accept("code", c[1], c[2])
    /\ UNCHANGED secret

CheckFactor(r) ==
  /\ signRequest[r].step = "check" /\ signRequest[r].op # "login"
  /\ \/ /\ secret.confirmed
        /\ AcceptTotp(r) \/ AcceptRecoveryCode(r)
        /\ Goto(r, "clear")
        /\ UNCHANGED guesses
     \/ /\ Goto(r, "fail")
        /\ guesses' = guesses + 1
        /\ UNCHANGED <<secret, codes, accepted, twice>>
  /\ UNCHANGED <<failures, issued, clock, pass>>

(* registerFailure, under the lock of the counter's row: an old series is       *)
(* forgotten, the ladder applied, and whoever moves the account into a lock     *)
(* goes on to send the mail.                                                    *)
RegisterFailure(r) ==
  /\ signRequest[r].step = "fail"
  /\ LET count == IF failures.stale THEN 1
                  ELSE IF Locks(failures.count) THEN failures.count ELSE failures.count + 1 IN
     /\ failures' = [failures EXCEPT !.count = count, !.stale = FALSE,
                                     !.locked = Locks(count) \/ @]
     /\ IF Locks(count) /\ ~failures.locked THEN Goto(r, "notify") ELSE End(r)
  /\ UNCHANGED <<secret, codes, issued, clock, pass, guesses, accepted, twice>>

(* notifyAccountLocked: the conditional update that claims the mail ... *)
ClaimLockNotification(r) ==
  /\ signRequest[r].step = "notify"
  /\ IF failures.mailed
     THEN End(r) /\ UNCHANGED failures
     ELSE Goto(r, "mail") /\ failures' = [failures EXCEPT !.mailed = TRUE]
  /\ UNCHANGED <<secret, codes, issued, clock, pass, guesses, accepted, twice>>

(* ... and its delivery; a failed one puts back the time that the claim had     *)
(* found, which is none or one that no later claim minds.                        *)
SendLockNotification(r) ==
  /\ signRequest[r].step = "mail"
  /\ UNCHANGED failures \/ failures' = [failures EXCEPT !.mailed = FALSE]
  /\ End(r)
  /\ UNCHANGED <<secret, codes, issued, clock, pass, guesses, accepted, twice>>

(* completePrimarySignIn: the lock is read again, and an enrolled account gets *)
(* the continuation instead of a session.                                      *)
AdmitPrimary(r) ==
  /\ signRequest[r].step = "admit"
  /\ CASE failures.locked -> End(r) /\ UNCHANGED pass
       [] ~failures.locked /\ secret.confirmed -> End(r) /\ pass' = pass \cup {"continuation"}
       [] OTHER -> Goto(r, "clear") /\ UNCHANGED pass
  /\ UNCHANGED <<failures, secret, codes, issued, clock, guesses, accepted, twice>>

(* clearFailures: only a completed proof clears the ladder. *)
ClearFailures(r) ==
  /\ signRequest[r].step = "clear"
  /\ failures' = [failures EXCEPT !.count = 0, !.locked = FALSE]
  /\ guesses' = 0
  /\ Goto(r, "act")
  /\ UNCHANGED <<secret, codes, issued, clock, pass, accepted, twice>>

(* What the proof was for: a session, or a step-up token, which the action that *)
(* needs it presents (its binding to the session: Sessions).                    *)
Grant(r) ==
  /\ signRequest[r].step = "act" /\ signRequest[r].op \in {"login", "mfa", "stepup"}
  /\ pass' = IF signRequest[r].op = "stepup" THEN pass ELSE pass \cup {"session"}
  /\ End(r)
  /\ UNCHANGED <<failures, secret, codes, issued, clock, guesses, accepted, twice>>

DisableMfa(r) ==
  /\ signRequest[r] = [op |-> "disable", step |-> "act"]
  /\ secret' = NoSecret /\ codes' = {}
  /\ End(r)
  /\ UNCHANGED <<failures, issued, clock, pass, guesses, accepted, twice>>

(* regenerateRecoveryCodes: the transaction deletes the codes that its DELETE   *)
(* statement sees and adds a set; no row is locked before, so another one may    *)
(* commit between the two.                                                       *)
DeleteRecoveryCodes(r) ==
  /\ signRequest[r] = [op |-> "rotate", step |-> "act"]
  /\ signRequest' = [signRequest EXCEPT ![r] = [op |-> "rotate", step |-> "insert", seen |-> codes]]
  /\ UNCHANGED <<failures, secret, codes, issued, clock, pass, guesses, accepted, twice>>

InsertRecoveryCodes(r) ==
  /\ signRequest[r].step = "insert" /\ issued.sets < MaxSets
  /\ issued' = [issued EXCEPT !.sets = @ + 1]
  /\ codes' = (codes \ signRequest[r].seen) \cup CodeSet(issued.sets + 1)
  /\ End(r)
  /\ UNCHANGED <<failures, secret, clock, pass, guesses, accepted, twice>>

(* beginEnrolment: starts over unless a factor is confirmed. *)
BeginEnrolment ==
  /\ "session" \in pass /\ issued.secrets < MaxEnrolments /\ ~secret.confirmed
  /\ secret' = [id |-> issued.secrets + 1, confirmed |-> FALSE, lastStep |-> 0]
  /\ issued' = [issued EXCEPT !.secrets = @ + 1]
  /\ UNCHANGED <<failures, codes, clock, signRequest, pass, guesses, accepted, twice>>

(* Mutant: the confirmation does not persist its step. *)
ConfirmUnused ==
  /\ "session" \in pass /\ secret.id # 0 /\ ~secret.confirmed /\ issued.sets < MaxSets
  /\ \E t \in FreshSteps : Accept("totp", secret.id, t)
  /\ secret' = [secret EXCEPT !.confirmed = TRUE]
  /\ issued' = [issued EXCEPT !.sets = @ + 1]
  /\ codes' = CodeSet(issued.sets + 1)
  /\ UNCHANGED <<failures, clock, signRequest, pass, guesses>>

(* confirmEnrolment: a code of the pending secret; its step counts as used, and *)
(* a set of recovery codes takes the place of any there was.                     *)
ConfirmEnrolment ==
  /\ "session" \in pass /\ secret.id # 0 /\ ~secret.confirmed /\ issued.sets < MaxSets
  /\ \E t \in FreshSteps :
       /\ secret' = [secret EXCEPT !.confirmed = TRUE, !.lastStep = t]
       /\ Accept("totp", secret.id, t)
  /\ issued' = [issued EXCEPT !.sets = @ + 1]
  /\ codes' = CodeSet(issued.sets + 1)
  /\ UNCHANGED <<failures, clock, signRequest, pass, guesses>>

(* Time.  A lock ends (at most six hours), later the failures are too old to    *)
(* count (twelve, by default) and the next mail may be sent; no request lasts    *)
(* that long.  Tokens lapse too, which only takes requests away.                 *)
AllIdle == \A r \in SignRequests : signRequest[r] = SignIdle

SignTime ==
  \/ /\ clock < MaxStep /\ clock' = clock + 1
     /\ UNCHANGED <<failures, guesses>>
  \/ /\ failures.locked
     /\ failures' = [failures EXCEPT !.locked = FALSE]
     /\ guesses' = 0
     /\ UNCHANGED clock
  \/ /\ AllIdle /\ ~failures.locked /\ failures.count > 0 /\ ~failures.stale
     /\ failures' = [failures EXCEPT !.stale = TRUE]
     /\ guesses' = 0
     /\ UNCHANGED clock
  \/ /\ AllIdle /\ failures.mailed
     /\ failures' = [failures EXCEPT !.mailed = FALSE]
     /\ UNCHANGED <<clock, guesses>>

SignNext ==
  \/ \E r \in SignRequests :
       \/ \E op \in {"login", "mfa"} \cup GuardedOps : StartRequest(r, op)
       \/ CheckPassword(r) \/ CheckFactor(r) \/ RegisterFailure(r)
       \/ ClaimLockNotification(r) \/ SendLockNotification(r)
       \/ AdmitPrimary(r) \/ ClearFailures(r) \/ Grant(r)
       \/ DisableMfa(r) \/ DeleteRecoveryCodes(r) \/ InsertRecoveryCodes(r)
  \/ BeginEnrolment \/ ConfirmEnrolment
  \/ SignTime /\ UNCHANGED <<secret, codes, issued, signRequest, pass, accepted, twice>>

SignSpec == SignInit /\ [][SignNext]_signVars

-----------------------------------------------------------------------------
SignTypeOK ==
  /\ failures \in [count : 0..Threshold, locked : BOOLEAN, stale : BOOLEAN,
                   mailed : BOOLEAN]
  /\ secret \in [id : 0..MaxEnrolments, confirmed : BOOLEAN, lastStep : 0..MaxStep + 1]
  /\ codes \subseteq (1..MaxSets) \X (1..CodesPerSet)
  /\ issued \in [secrets : 0..MaxEnrolments, sets : 0..MaxSets] /\ clock \in 1..MaxStep
  /\ pass \subseteq {"continuation", "session"}
  /\ guesses \in Nat /\ twice \in BOOLEAN
  /\ accepted \subseteq ({"totp"} \X (1..MaxEnrolments) \X (1..MaxStep + 1)) \cup
                          ({"code"} \X (1..MaxSets) \X (1..CodesPerSet))

(* Parallel requests that read the lock before any of them has failed guess on, *)
(* but no more than one each: before a lock ends, failures age or a proof        *)
(* succeeds, at most Threshold - 1 guesses and one of every request in progress  *)
(* are checked, passwords and factors together (lockout.ts:66-127,               *)
(* guarded-factor.ts:31-50, auth.ts:634-691, 762-825).                           *)
GuessesBounded == guesses <= Threshold - 1 + Cardinality(SignRequests)

(* No code of the authenticator and no recovery code is accepted twice, in any  *)
(* of the operations that take one, the confirmation of the enrolment included,  *)
(* however the requests interleave (mfa/service.ts:94-177).                      *)
FactorAcceptedOnce == ~twice

(* A factor protects whatever runs in parallel: neither are more guesses checked *)
(* than that, nor is a proof taken again (guarded-factor.ts:31-50).              *)
FactorsHold == GuessesBounded /\ FactorAcceptedOnce


====
