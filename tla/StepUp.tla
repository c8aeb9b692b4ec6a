---- MODULE StepUp ----
(* The confirmation of a second factor before an administrator's action.  A tab   *)
(* asks once for all actions that wait, and keeps the token it gets; the account  *)
(* of the tab changes, the dialog is cancelled or left, a token expires in the    *)
(* tab and on the server at different times, and the server checks for which      *)
(* session it was given.  A session stands for the chain of its rotations.        *)
EXTENDS Naturals, Sequences

CONSTANTS
  Logins,     \* sessions that the tab may have, of any administrators
  Clicks,     \* actions that are taken, each once
  MaxTokens

ASSUME StepUpAssumption == MaxTokens \in Nat

VARIABLES
  used,      \* sessions the tab has had
  ended,     \* sessions the server has ended
  session,   \* the session of the tab, or NoSession
  workspace, \* `handler': the administrator's pages are open
  cached,    \* the token the tab keeps
  prompt,    \* `pending' and the dialog
  action,    \* each click
  lapsed,    \* tokens the server takes no more
  tokens,    \* how many were given
  effects    \* what was done for each click

stepUpVars ==
  <<used, ended, session, workspace, cached, prompt, action, lapsed, tokens, effects>>

NoSession == "none"
NoToken == [id |-> 0, session |-> NoSession]
Closed == [step |-> "closed", token |-> NoToken]

StepUpInit ==
  /\ used = {} /\ ended = {} /\ session = NoSession
  /\ workspace = FALSE /\ cached = NoToken /\ prompt = Closed
  /\ action = [c \in Clicks |->
       [phase |-> "idle", session |-> NoSession, token |-> NoToken, retried |-> FALSE]]
  /\ lapsed = {} /\ tokens = 0 /\ effects = [c \in Clicks |-> <<>>]

-----------------------------------------------------------------------------
(* A generation ends: the actions that wait fail, and those on their way are not  *)
(* tried again.                                                                   *)
Superseded == [c \in Clicks |->
  CASE action[c].phase = "waiting" -> [action[c] EXCEPT !.phase = "failed"]
    [] action[c].phase \in {"sent", "rejected"} -> [action[c] EXCEPT !.retried = TRUE]
    [] OTHER -> action[c]]

(* Mutant: the tab keeps its token. *)
ClearAuthorization_KeepsToken ==
  action' = Superseded /\ prompt' = Closed /\ UNCHANGED cached

(* clearStepUpAuthorization *)
ClearAuthorization == action' = Superseded /\ prompt' = Closed /\ cached' = NoToken

SignIn(l) ==
  /\ l \notin used /\ used' = used \cup {l} /\ session' = l
  /\ ClearAuthorization
  /\ UNCHANGED <<ended, workspace, lapsed, tokens, effects>>

SignOut ==
  /\ session # NoSession /\ session' = NoSession /\ ended' = ended \cup {session}
  /\ ClearAuthorization
  /\ UNCHANGED <<used, workspace, lapsed, tokens, effects>>

(* Elsewhere all sessions are signed out, or the account is suspended. *)
EndSession(l) ==
  /\ l \in used \ ended /\ ended' = ended \cup {l}
  /\ UNCHANGED <<used, session, workspace, cached, prompt, action, lapsed, tokens, effects>>

(* A rotation that is refused: setAccessToken(""). *)
DropSession ==
  /\ session \in ended /\ session' = NoSession
  /\ ClearAuthorization
  /\ UNCHANGED <<used, ended, workspace, lapsed, tokens, effects>>

(* StepUpProvider is mounted with the administrator's pages. *)
OpenWorkspace ==
  /\ ~workspace /\ session # NoSession /\ workspace' = TRUE
  /\ UNCHANGED <<used, ended, session, cached, prompt, action, lapsed, tokens, effects>>

LeaveWorkspace ==
  /\ workspace /\ workspace' = FALSE
  /\ ClearAuthorization
  /\ UNCHANGED <<used, ended, session, lapsed, tokens, effects>>

-----------------------------------------------------------------------------
(* authorize: with the token that is kept, the dialog that is open, or a new one. *)
Authorize(c, click, kept) ==
  IF kept # NoToken
    THEN /\ action' = [action EXCEPT ![c] = [click EXCEPT !.phase = "sent", !.token = kept]]
         /\ UNCHANGED prompt
  ELSE IF prompt # Closed
    THEN action' = [action EXCEPT ![c] = [click EXCEPT !.phase = "waiting"]] /\ UNCHANGED prompt
  ELSE IF workspace
    THEN /\ action' = [action EXCEPT ![c] = [click EXCEPT !.phase = "waiting"]]
         /\ prompt' = [Closed EXCEPT !.step = "open"]
  ELSE action' = [action EXCEPT ![c] = [click EXCEPT !.phase = "failed"]] /\ UNCHANGED prompt

(* mutateApi and getWithStepUp *)
Click(c) ==
  /\ action[c].phase = "idle" /\ session # NoSession
  /\ Authorize(c, [action[c] EXCEPT !.session = session], cached)
  /\ UNCHANGED <<used, ended, session, workspace, cached, lapsed, tokens, effects>>

EnterCode ==
  /\ prompt.step = "open" /\ prompt' = [prompt EXCEPT !.step = "verifying"]
  /\ UNCHANGED <<used, ended, session, workspace, cached, action, lapsed, tokens, effects>>

(* requestStepUp on the server: a factor was accepted (SignIn), and the token is  *)
(* bound to the account and the session that sent it.                             *)
GrantToken ==
  /\ prompt.step = "verifying" /\ session \notin ended /\ tokens < MaxTokens
  /\ tokens' = tokens + 1
  /\ prompt' = [step |-> "granted", token |-> [id |-> tokens + 1, session |-> session]]
  /\ UNCHANGED <<used, ended, session, workspace, cached, action, lapsed, effects>>

(* A wrong code, a locked account or a lost answer: the dialog shows the error.   *)
RefuseCode ==
  /\ prompt.step \in {"verifying", "granted"} /\ prompt' = [Closed EXCEPT !.step = "open"]
  /\ UNCHANGED <<used, ended, session, workspace, cached, action, lapsed, tokens, effects>>

(* The token is kept, and everything that waits for it is sent. *)
ReceiveToken ==
  /\ prompt.step = "granted" /\ prompt' = Closed /\ cached' = prompt.token
  /\ action' = [c \in Clicks |-> IF action[c].phase = "waiting"
       THEN [action[c] EXCEPT !.phase = "sent", !.token = prompt.token] ELSE action[c]]
  /\ UNCHANGED <<used, ended, session, workspace, lapsed, tokens, effects>>

Cancel ==
  /\ prompt # Closed /\ prompt' = Closed
  /\ action' = [c \in Clicks |-> IF action[c].phase = "waiting"
       THEN [action[c] EXCEPT !.phase = "failed"] ELSE action[c]]
  /\ UNCHANGED <<used, ended, session, workspace, cached, lapsed, tokens, effects>>

(* The tab gives up a token five seconds before it would expire, but counts from  *)
(* when it came: the server may be first.                                         *)
ForgetToken ==
  /\ cached # NoToken /\ cached' = NoToken
  /\ UNCHANGED <<used, ended, session, workspace, prompt, action, lapsed, tokens, effects>>

Lapse(id) ==
  /\ id \in 1..tokens /\ id \notin lapsed /\ lapsed' = lapsed \cup {id}
  /\ UNCHANGED <<used, ended, session, workspace, cached, prompt, action, tokens, effects>>

-----------------------------------------------------------------------------
(* requireStepUp: the token is for the account and the session of the request.    *)
Accepted(c) ==
  /\ action[c].token.id \notin lapsed
  /\ action[c].token.session = action[c].session

Handle(c) ==
  /\ action[c].phase = "sent" /\ action[c].session \notin ended
  /\ IF Accepted(c)
       THEN /\ action' = [action EXCEPT ![c].phase = "handled"]
            /\ effects' = [effects EXCEPT ![c] = Append(@,
                 [for |-> action[c].session, confirmed |-> action[c].token.session])]
       ELSE action' = [action EXCEPT ![c].phase = "rejected"] /\ UNCHANGED effects
  /\ UNCHANGED <<used, ended, session, workspace, cached, prompt, lapsed, tokens>>

(* STEP_UP_REQUIRED: once more with another token, unless the generation ended.   *)
Retry(c) ==
  /\ action[c].phase = "rejected" /\ ~action[c].retried
  /\ LET kept == IF cached = action[c].token THEN NoToken ELSE cached IN
       cached' = kept /\ Authorize(c, [action[c] EXCEPT !.retried = TRUE], kept)
  /\ UNCHANGED <<used, ended, session, workspace, lapsed, tokens, effects>>

(* Answered for good, with an error, or not at all. *)
Settle(c) ==
  /\ \/ action[c].phase = "handled" \/ (action[c].phase = "rejected" /\ action[c].retried)
     \/ action[c].phase = "sent"
  /\ \E phase \in {"failed", "done"} :
       /\ phase = "done" => action[c].phase = "handled"
       /\ action' = [action EXCEPT ![c].phase = phase]
  /\ UNCHANGED <<used, ended, session, workspace, cached, prompt, lapsed, tokens, effects>>

StepUpNext ==
  \/ SignOut \/ DropSession \/ OpenWorkspace \/ LeaveWorkspace
  \/ EnterCode \/ GrantToken \/ RefuseCode \/ ReceiveToken \/ Cancel \/ ForgetToken
  \/ \E l \in Logins : SignIn(l) \/ EndSession(l)
  \/ \E id \in 1..MaxTokens : Lapse(id)
  \/ \E c \in Clicks : Click(c) \/ Handle(c) \/ Retry(c) \/ Settle(c)

StepUpSpec == StepUpInit /\ [][StepUpNext]_stepUpVars

-----------------------------------------------------------------------------
(* An action is done at most once, for the session whose owner clicked, and after *)
(* that session confirmed its factor; a token is never kept past its session;     *)
(* while something waits there is a dialog to answer or to cancel; and what is    *)
(* shown as done was done (stepUp.js:1-2 "Account changes abort the prompt and    *)
(* invalidate queued actions as well as the cached token"; guards.ts:66-68).      *)
ConfirmedByWhoActs ==
  /\ \A c \in Clicks :
       /\ Len(effects[c]) <= 1
       /\ \A n \in DOMAIN effects[c] :
            effects[c][n].for = action[c].session /\ effects[c][n].confirmed = action[c].session
       /\ action[c].phase = "done" => effects[c] # <<>>
  /\ cached # NoToken => cached.session = session
  /\ (\E c \in Clicks : action[c].phase = "waiting") => prompt # Closed
====
