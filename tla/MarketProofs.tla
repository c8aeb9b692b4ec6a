---- MODULE MarketProofs ----
(* Theorems about what members and administrators do from their pages: actions    *)
(* that wait for a second factor (StepUp), actions under a key (Keyed), listings   *)
(* with their review (Listings), the inspection of what is uploaded (Inspections), *)
(* what a tab says of a payment (TopUpDesk) and what a long list holds that was    *)
(* read to its end (Lists), with the inductive invariants that carry them.         *)
EXTENDS StepUp, Keyed, Listings, Inspections, TopUpDesk, Lists, FiniteSetTheorems, SequenceTheorems, TLAPS

Tokens == [id : Nat, session : Logins \cup {NoSession}]
Phases == {"idle", "waiting", "sent", "handled", "rejected", "failed", "done"}
Action == [phase : Phases, session : Logins \cup {NoSession}, token : Tokens, retried : BOOLEAN]
Effect == [for : Logins \cup {NoSession}, confirmed : Logins \cup {NoSession}]

StepUpTypeOK ==
  /\ session \in Logins \cup {NoSession} /\ cached \in Tokens /\ tokens \in Nat
  /\ prompt \in [step : {"closed", "open", "verifying", "granted"}, token : Tokens]
  /\ action \in [Clicks -> Action]
  /\ effects \in [Clicks -> Seq(Effect)]

(* The answer on its way to the dialog is for the session of the tab; and  *)
(* nothing was done for an action that can still be handled.               *)
StepUpInv ==
  /\ StepUpTypeOK /\ ConfirmedByWhoActs
  /\ prompt.step = "granted" => prompt.token.session = session
  /\ prompt.step = "closed" => prompt = Closed
  /\ \A c \in Clicks :
       /\ action[c].phase \in {"idle", "waiting", "sent", "rejected"} => effects[c] = <<>>
       /\ action[c].phase = "handled" => effects[c] # <<>>

-----------------------------------------------------------------------------
LEMMA Constants ==
  /\ NoToken \in Tokens /\ Closed \in [step : {"closed", "open", "verifying", "granted"}, token : Tokens]
  /\ Closed.step = "closed" /\ NoToken.id = 0
BY DEF NoToken, Tokens, Closed, NoSession

LEMMA StepUpInvInit == StepUpInit => StepUpInv
<1> SUFFICES ASSUME StepUpInit PROVE StepUpInv
  OBVIOUS
<1>1. /\ [phase |-> "idle", session |-> NoSession, token |-> NoToken, retried |-> FALSE] \in Action
      /\ <<>> \in Seq(Effect) /\ Len(<<>>) = 0 /\ DOMAIN <<>> = {}
  BY Constants DEF Action, Phases
<1>2. StepUpTypeOK
  BY <1>1, Constants DEF StepUpInit, StepUpTypeOK
<1>3. ConfirmedByWhoActs
  BY <1>1 DEF StepUpInit, ConfirmedByWhoActs
<1> QED
  BY <1>2, <1>3, Constants DEF StepUpInit, StepUpInv

-----------------------------------------------------------------------------
(* A step that handles nothing keeps what was done, if no action goes back *)
(* to an earlier phase or to another session once something was.           *)
LEMMA NothingDone ==
  ASSUME StepUpInv, StepUpTypeOK', UNCHANGED effects,
         \A c \in Clicks :
           /\ effects[c] # <<>> => /\ action'[c].session = action[c].session
                                   /\ action'[c].phase \in {"handled", "failed", "done"}
           /\ action'[c].phase \in {"handled", "done"} => action[c].phase \in {"handled", "done"},
         (\E c \in Clicks : action'[c].phase = "waiting") => prompt' # Closed,
         cached' # NoToken => cached'.session = session',
         prompt'.step = "granted" => prompt'.token.session = session',
         prompt'.step = "closed" => prompt' = Closed
  PROVE  StepUpInv'
<1>1. \A c \in Clicks :
        /\ action'[c].phase \in {"idle", "waiting", "sent", "rejected"} => effects'[c] = <<>>
        /\ action'[c].phase = "handled" => effects'[c] # <<>>
        /\ action'[c].phase = "done" => effects'[c] # <<>>
  BY DEF StepUpInv, ConfirmedByWhoActs
<1>2. \A c \in Clicks :
        /\ Len(effects'[c]) <= 1
        /\ \A n \in DOMAIN effects'[c] : effects'[c][n].for = action'[c].session
                                         /\ effects'[c][n].confirmed = action'[c].session
  <2> TAKE c \in Clicks
  <2>1. effects[c] = <<>> => DOMAIN effects[c] = {}
    OBVIOUS
  <2> QED
    BY <2>1 DEF StepUpInv, ConfirmedByWhoActs
<1> QED
  BY <1>1, <1>2 DEF StepUpInv, ConfirmedByWhoActs

(* The end of a generation (stepUp.js:33-47).                              *)
LEMMA ClearKeepsAuth ==
  ASSUME StepUpInv, ClearAuthorization, UNCHANGED <<effects, tokens>>,
         session' \in Logins \cup {NoSession}
  PROVE  StepUpInv'
<1>1. action' = Superseded /\ prompt' = Closed /\ cached' = NoToken
  BY DEF ClearAuthorization
<1>2. \A c \in Clicks : /\ Superseded[c] \in Action /\ Superseded[c].session = action[c].session
                        /\ Superseded[c].phase = IF action[c].phase = "waiting" THEN "failed" ELSE action[c].phase
  <2> TAKE c \in Clicks
  <2>1. action[c] \in Action
    BY DEF StepUpInv, StepUpTypeOK
  <2> QED
    BY <2>1 DEF Superseded, Action, Phases
<1>3. StepUpTypeOK'
  <2>1. Superseded \in [Clicks -> Action]
    BY <1>2 DEF Superseded
  <2> QED
    BY <1>1, <2>1, Constants DEF StepUpInv, StepUpTypeOK
<1>4. \A c \in Clicks : effects[c] # <<>> => action[c].phase \in {"handled", "failed", "done"}
  BY DEF StepUpInv, StepUpTypeOK, Action, Phases
<1> QED
  BY <1>1, <1>2, <1>3, <1>4, Constants, NothingDone

(* An action is sent with a token, waits for the dialog, or fails.         *)
LEMMA AuthorizeKeeps ==
  ASSUME StepUpInv, NEW c \in Clicks, NEW click \in Action, effects[c] = <<>>,
         NEW kept \in {NoToken, cached}, Authorize(c, click, kept), cached' = kept,
         UNCHANGED <<session, tokens, effects>>
  PROVE  StepUpInv'
<1>1. /\ action \in [Clicks -> Action] /\ cached \in Tokens
      /\ prompt \in [step : {"closed", "open", "verifying", "granted"}, token : Tokens]
      /\ kept \in Tokens
  BY Constants DEF StepUpInv, StepUpTypeOK
<1>2. PICK new : /\ new \in Action /\ new.phase \in {"sent", "waiting", "failed"}
                 /\ action' = [action EXCEPT ![c] = new]
                 /\ new.phase = "waiting" => prompt # Closed \/ prompt' = [Closed EXCEPT !.step = "open"]
                 /\ prompt' = prompt \/ prompt' = [Closed EXCEPT !.step = "open"]
  <2>1. /\ [click EXCEPT !.phase = "sent", !.token = kept] \in Action
        /\ [click EXCEPT !.phase = "waiting"] \in Action
        /\ [click EXCEPT !.phase = "failed"] \in Action
        /\ [click EXCEPT !.phase = "sent", !.token = kept].phase = "sent"
        /\ [click EXCEPT !.phase = "waiting"].phase = "waiting"
        /\ [click EXCEPT !.phase = "failed"].phase = "failed"
    BY <1>1 DEF Action, Phases
  <2>2. CASE kept # NoToken
    BY <2>1, <2>2 DEF Authorize
  <2>3. CASE kept = NoToken /\ prompt # Closed
    BY <2>1, <2>3 DEF Authorize
  <2>4. CASE kept = NoToken /\ prompt = Closed /\ workspace
    BY <2>1, <2>4 DEF Authorize
  <2>5. CASE kept = NoToken /\ prompt = Closed /\ ~workspace
    BY <2>1, <2>5 DEF Authorize
  <2> QED
    BY <2>2, <2>3, <2>4, <2>5
<1>3. /\ [Closed EXCEPT !.step = "open"] \in [step : {"closed", "open", "verifying", "granted"}, token : Tokens]
      /\ [Closed EXCEPT !.step = "open"].step = "open" /\ [Closed EXCEPT !.step = "open"] # Closed
  BY Constants
<1>4. StepUpTypeOK'
  BY <1>1, <1>2, <1>3 DEF StepUpInv, StepUpTypeOK
<1>5. action'[c] = new /\ \A d \in Clicks : d # c => action'[d] = action[d]
  BY <1>1, <1>2
<1>6. \A d \in Clicks : effects[d] # <<>> => d # c /\ action[d].phase \in {"handled", "failed", "done"}
  BY DEF StepUpInv, StepUpTypeOK, Action, Phases
<1>7. (\E d \in Clicks : action'[d].phase = "waiting") => prompt' # Closed
  BY <1>2, <1>3, <1>5 DEF StepUpInv, ConfirmedByWhoActs
<1>8. /\ cached' # NoToken => cached'.session = session'
      /\ prompt'.step = "granted" => prompt'.token.session = session'
      /\ prompt'.step = "closed" => prompt' = Closed
  BY <1>2, <1>3 DEF StepUpInv, ConfirmedByWhoActs
<1>9. \A d \in Clicks : action'[d].phase \in {"handled", "done"} => action[d].phase \in {"handled", "done"}
  BY <1>2, <1>5
<1> QED
  BY <1>4, <1>5, <1>6, <1>7, <1>8, <1>9, NothingDone

LEMMA ClickKeeps ==
  ASSUME StepUpInv, NEW c \in Clicks, Click(c) \/ Retry(c)
  PROVE  StepUpInv'
<1>1. action[c] \in Action /\ session \in Logins \cup {NoSession} /\ effects[c] = <<>>
      /\ UNCHANGED <<session, tokens, effects>>
  BY DEF StepUpInv, StepUpTypeOK, Click, Retry
<1>2. CASE Click(c)
  <2>1. [action[c] EXCEPT !.session = session] \in Action
    BY <1>1 DEF Action
  <2> QED
    BY <1>1, <1>2, <2>1, AuthorizeKeeps DEF Click
<1>3. CASE Retry(c)
  <2>1. [action[c] EXCEPT !.retried = TRUE] \in Action
    BY <1>1 DEF Action
  <2> QED
    BY <1>1, <1>3, <2>1, AuthorizeKeeps DEF Retry
<1> QED
  BY <1>2, <1>3

(* The dialog and the token it obtains (StepUpProvider.jsx).               *)
LEMMA DialogKeeps ==
  ASSUME StepUpInv, EnterCode \/ GrantToken \/ RefuseCode
  PROVE  StepUpInv'
<1>1. /\ UNCHANGED <<session, cached, action, effects>>
      /\ prompt \in [step : {"closed", "open", "verifying", "granted"}, token : Tokens]
      /\ tokens \in Nat /\ session \in Logins \cup {NoSession}
  BY DEF StepUpInv, StepUpTypeOK, EnterCode, GrantToken, RefuseCode
<1>2. /\ tokens' \in Nat
      /\ prompt' \in [step : {"open", "verifying", "granted"}, token : Tokens]
      /\ prompt'.step = "granted" => prompt'.token.session = session
  <2>1. CASE EnterCode
    BY <1>1, <2>1 DEF EnterCode
  <2>2. CASE GrantToken
    BY <1>1, <2>2 DEF GrantToken, Tokens
  <2>3. CASE RefuseCode
    BY <1>1, <2>3, Constants DEF RefuseCode
  <2> QED
    BY <2>1, <2>2, <2>3
<1>3. StepUpTypeOK' /\ prompt' # Closed
  BY <1>1, <1>2, Constants DEF StepUpInv, StepUpTypeOK
<1>4. \A c \in Clicks : effects[c] # <<>> => action[c].phase \in {"handled", "failed", "done"}
  BY DEF StepUpInv, StepUpTypeOK, Action, Phases
<1> QED
  BY <1>1, <1>2, <1>3, <1>4, NothingDone DEF StepUpInv, ConfirmedByWhoActs

LEMMA ReleaseKeeps ==
  ASSUME StepUpInv, ReceiveToken \/ Cancel
  PROVE  StepUpInv'
<1>1. /\ prompt' = Closed /\ UNCHANGED <<session, tokens, effects>>
      /\ action \in [Clicks -> Action] /\ prompt.token \in Tokens /\ cached \in Tokens
      /\ cached' = cached \/ cached' = prompt.token
      /\ cached' # NoToken => cached'.session = session'
  BY DEF StepUpInv, StepUpTypeOK, ConfirmedByWhoActs, ReceiveToken, Cancel
<1>2. \A c \in Clicks : /\ action'[c] \in Action /\ action'[c].session = action[c].session
                        /\ action[c].phase # "waiting" => action'[c] = action[c]
                        /\ action[c].phase = "waiting" => action'[c].phase \in {"sent", "failed"}
  <2>1. CASE ReceiveToken
    <3>1. \A c \in Clicks : action'[c] = IF action[c].phase = "waiting"
            THEN [action[c] EXCEPT !.phase = "sent", !.token = prompt.token] ELSE action[c]
      BY <2>1 DEF ReceiveToken
    <3> QED
      BY ZenonT(60), <1>1, <3>1 DEF Action, Phases
  <2>2. CASE Cancel
    <3>1. \A c \in Clicks : action'[c] = IF action[c].phase = "waiting"
            THEN [action[c] EXCEPT !.phase = "failed"] ELSE action[c]
      BY <2>2 DEF Cancel
    <3> QED
      BY <1>1, <3>1 DEF Action, Phases
  <2> QED
    BY <2>1, <2>2
<1>3. action' \in [Clicks -> Action]
  <2>1. action' = [c \in Clicks |-> action'[c]]
    BY DEF ReceiveToken, Cancel
  <2> QED
    BY <1>2, <2>1
<1>4. StepUpTypeOK'
  <2>1. cached' \in Tokens /\ prompt' \in [step : {"closed", "open", "verifying", "granted"}, token : Tokens]
    BY <1>1, Constants
  <2> QED
    BY <1>1, <1>3, <2>1 DEF StepUpInv, StepUpTypeOK
<1>5. \A c \in Clicks : effects[c] # <<>> => action[c].phase \in {"handled", "failed", "done"}
  BY DEF StepUpInv, StepUpTypeOK, Action, Phases
<1>6. \A c \in Clicks :
        /\ effects[c] # <<>> => /\ action'[c].session = action[c].session
                                /\ action'[c].phase \in {"handled", "failed", "done"}
        /\ action'[c].phase \in {"handled", "done"} => action[c].phase \in {"handled", "done"}
        /\ action'[c].phase # "waiting"
  <2> TAKE c \in Clicks
  <2>1. CASE action[c].phase = "waiting"
    BY <1>2, <1>5, <2>1
  <2>2. CASE action[c].phase # "waiting"
    BY <1>2, <1>5, <2>2
  <2> QED
    BY <2>1, <2>2
<1>7. prompt'.step = "closed"
  BY <1>1, Constants
<1> QED
  BY <1>1, <1>4, <1>6, <1>7, NothingDone

(* What changes neither the dialog nor an action.                          *)
LEMMA BesidesKeeps ==
  ASSUME StepUpInv, \/ OpenWorkspace \/ ForgetToken \/ \E l \in Logins : EndSession(l)
                    \/ \E id \in 1..MaxTokens : Lapse(id)
  PROVE  StepUpInv'
<1>1. UNCHANGED <<session, prompt, action, tokens, effects>> /\ cached' \in {cached, NoToken}
  BY DEF OpenWorkspace, ForgetToken, EndSession, Lapse
<1>2. StepUpTypeOK'
  BY <1>1, Constants DEF StepUpInv, StepUpTypeOK
<1>3. \A c \in Clicks : effects[c] # <<>> => action[c].phase \in {"handled", "failed", "done"}
  BY DEF StepUpInv, StepUpTypeOK, Action, Phases
<1> QED
  BY <1>1, <1>2, <1>3, NothingDone DEF StepUpInv, ConfirmedByWhoActs

LEMMA SettleKeeps ==
  ASSUME StepUpInv, NEW c \in Clicks, Settle(c)
  PROVE  StepUpInv'
<1>1. PICK end \in {"failed", "done"} :
        /\ end = "done" => action[c].phase = "handled"
        /\ action' = [action EXCEPT ![c] = [action[c] EXCEPT !.phase = end]]
  BY DEF Settle
<1>2. /\ UNCHANGED <<session, cached, prompt, tokens, effects>> /\ action \in [Clicks -> Action]
  BY DEF StepUpInv, StepUpTypeOK, Settle
<1>3. /\ action' \in [Clicks -> Action] /\ action'[c].phase = end
      /\ action'[c].session = action[c].session
      /\ \A d \in Clicks : d # c => action'[d] = action[d]
  <2>1. action[c] \in Action
    BY <1>2
  <2>2. /\ [action[c] EXCEPT !.phase = end] \in Action
        /\ [action[c] EXCEPT !.phase = end].phase = end
        /\ [action[c] EXCEPT !.phase = end].session = action[c].session
    BY <2>1 DEF Action, Phases
  <2> QED
    BY <1>1, <1>2, <2>2
<1>4. StepUpTypeOK'
  BY <1>2, <1>3 DEF StepUpInv, StepUpTypeOK
<1>5. \A d \in Clicks : effects[d] # <<>> => action[d].phase \in {"handled", "failed", "done"}
  BY DEF StepUpInv, StepUpTypeOK, Action, Phases
<1>6. /\ (\E d \in Clicks : action'[d].phase = "waiting") => prompt # Closed
  BY <1>1, <1>3 DEF StepUpInv, ConfirmedByWhoActs
<1> QED
  BY <1>1, <1>2, <1>3, <1>4, <1>5, <1>6, NothingDone DEF StepUpInv, ConfirmedByWhoActs

(* The server acts for a session that its own token confirms (guards.ts:66). *)
LEMMA HandleKeeps ==
  ASSUME StepUpInv, NEW c \in Clicks, Handle(c)
  PROVE  StepUpInv'
<1>1. /\ action[c].phase = "sent" /\ UNCHANGED <<session, cached, prompt, tokens>>
      /\ action \in [Clicks -> Action] /\ action[c] \in Action /\ effects[c] = <<>>
      /\ effects \in [Clicks -> Seq(Effect)]
  BY DEF StepUpInv, StepUpTypeOK, Handle
<1>2. CASE ~Accepted(c)
  <2>1. action' = [action EXCEPT ![c].phase = "rejected"] /\ UNCHANGED effects
    BY <1>2 DEF Handle
  <2>2. /\ action' \in [Clicks -> Action] /\ action'[c].phase = "rejected"
        /\ \A d \in Clicks : d # c => action'[d] = action[d]
    BY <1>1, <2>1 DEF Action, Phases
  <2>3. StepUpTypeOK'
    BY <1>1, <2>1, <2>2 DEF StepUpInv, StepUpTypeOK
  <2>4. \A d \in Clicks : effects[d] # <<>> => d # c /\ action[d].phase \in {"handled", "failed", "done"}
    BY <1>1 DEF StepUpInv, StepUpTypeOK, Action, Phases
  <2>5. (\E d \in Clicks : action'[d].phase = "waiting") => prompt # Closed
    BY <2>2 DEF StepUpInv, ConfirmedByWhoActs
  <2> QED
    BY <1>1, <2>1, <2>2, <2>3, <2>4, <2>5, NothingDone DEF StepUpInv, ConfirmedByWhoActs
<1>3. CASE Accepted(c)
  <2> DEFINE e == [for |-> action[c].session, confirmed |-> action[c].token.session]
  <2>1. /\ action' = [action EXCEPT ![c].phase = "handled"]
        /\ effects' = [effects EXCEPT ![c] = Append(@, e)]
    BY <1>3 DEF Handle
  <2>2. e \in Effect /\ e.for = action[c].session /\ e.confirmed = action[c].session
    BY <1>1, <1>3 DEF Accepted, Effect, Action, Tokens
  <2>3. /\ action' \in [Clicks -> Action] /\ action'[c].phase = "handled"
        /\ action'[c].session = action[c].session
        /\ \A d \in Clicks : d # c => action'[d] = action[d]
    BY <1>1, <2>1 DEF Action, Phases
  <2> HIDE DEF e
  <2>4. /\ Append(<<>>, e) \in Seq(Effect) /\ Len(Append(<<>>, e)) = 1
        /\ DOMAIN Append(<<>>, e) = {1} /\ Append(<<>>, e)[1] = e
    BY <2>2
  <2>5. /\ effects'[c] = Append(<<>>, e) /\ effects' \in [Clicks -> Seq(Effect)]
        /\ \A d \in Clicks : d # c => effects'[d] = effects[d]
    BY <1>1, <2>1, <2>4
  <2>6. StepUpTypeOK'
    BY <1>1, <2>3, <2>5 DEF StepUpInv, StepUpTypeOK
  <2>7. effects'[c] # <<>>
    BY <2>4, <2>5
  <2>8. ConfirmedByWhoActs'
    <3>1. \A d \in Clicks :
            /\ Len(effects'[d]) <= 1
            /\ \A n \in DOMAIN effects'[d] :
                 effects'[d][n].for = action'[d].session /\ effects'[d][n].confirmed = action'[d].session
            /\ action'[d].phase = "done" => effects'[d] # <<>>
      <4> TAKE d \in Clicks
      <4>1. CASE d = c
        <5>1. effects'[c] = Append(<<>>, e) /\ \A n \in DOMAIN effects'[c] : effects'[c][n] = e
          BY <2>4, <2>5
        <5>2. Len(effects'[c]) <= 1 /\ effects'[c] # <<>>
          BY <2>4, <2>7, <5>1
        <5> QED
          BY <2>2, <2>3, <4>1, <5>1, <5>2
      <4>2. CASE d # c
        BY <2>3, <2>5, <4>2 DEF StepUpInv, ConfirmedByWhoActs
      <4> QED
        BY <4>1, <4>2
    <3>2. (\E d \in Clicks : action'[d].phase = "waiting") => prompt' # Closed
      BY <1>1, <2>3 DEF StepUpInv, ConfirmedByWhoActs
    <3> QED
      BY <1>1, <3>1, <3>2 DEF StepUpInv, ConfirmedByWhoActs
  <2> QED
    BY <1>1, <2>3, <2>5, <2>6, <2>7, <2>8 DEF StepUpInv
<1> QED
  BY <1>2, <1>3

-----------------------------------------------------------------------------
LEMMA StepUpInvStep == StepUpInv /\ [StepUpNext]_stepUpVars => StepUpInv'
<1> SUFFICES ASSUME StepUpInv, [StepUpNext]_stepUpVars PROVE StepUpInv'
  OBVIOUS
<1>1. CASE UNCHANGED stepUpVars
  BY <1>1 DEF StepUpInv, StepUpTypeOK, ConfirmedByWhoActs, stepUpVars
<1>2. CASE SignOut \/ DropSession \/ LeaveWorkspace \/ \E l \in Logins : SignIn(l)
  <2>1. ClearAuthorization /\ UNCHANGED <<effects, tokens>> /\ session' \in Logins \cup {NoSession}
    BY <1>2 DEF SignOut, DropSession, LeaveWorkspace, SignIn, StepUpInv, StepUpTypeOK
  <2> QED
    BY <2>1, ClearKeepsAuth
<1>3. CASE StepUpNext
  BY <1>2, <1>3, ClickKeeps, DialogKeeps, ReleaseKeeps, BesidesKeeps, SettleKeeps, HandleKeeps DEF StepUpNext
<1> QED
  BY <1>1, <1>3

(* For any sessions, actions and tokens: an action is done once at most,   *)
(* for the session whose owner clicked and that confirmed its factor; no   *)
(* token outlives its session in the tab, and nothing waits without a      *)
(* dialog (stepUp.js, guards.ts:56-70).                                    *)
THEOREM ActionsAreConfirmed == StepUpSpec => []ConfirmedByWhoActs
<1>1. StepUpInv => ConfirmedByWhoActs
  BY DEF StepUpInv
<1> QED
  BY <1>1, StepUpInvInit, StepUpInvStep, PTL DEF StepUpSpec

-----------------------------------------------------------------------------
Texts == Payloads \cup {"none"}
Dialog == [step : {"closed", "open", "busy", "error", "success"}, key : 0..MaxKeys,
           payload : Texts, about : 0..MaxKeys, keyed : Texts, call : Nat]
Call == [purpose : Purposes, key : 0..MaxKeys, payload : Texts, about : 0..MaxKeys,
         stage : {"sent", "working", "ok", "refused"}]
Act == [purpose : Purposes, key : 0..MaxKeys, call : Nat, payload : Texts, about : 0..MaxKeys]

KeyedTypeOK ==
  /\ purpose \in [Dialogs -> Purposes] /\ dialog \in [Dialogs -> Dialog] /\ keys \in 0..MaxKeys
  /\ calls \in Seq(Call) /\ records \subseteq Call /\ acts \subseteq Act
  /\ reports \in [0..MaxKeys -> {"none", "pending", "decided"}]

(* A key that a dialog holds is for its purpose and for no other dialog. *)
KeysHeld ==
  /\ \A d \in Dialogs : dialog[d].step # "closed" =>
       /\ dialog[d].key <= keys /\ (purpose[d] # "refund" => dialog[d].key > 0)
       /\ \A n \in DOMAIN calls : calls[n].key = dialog[d].key => calls[n].purpose = purpose[d]
       /\ \A e \in Dialogs : e # d /\ dialog[e].step # "closed" /\ dialog[e].key = dialog[d].key
                              => dialog[d].key = 0
  /\ \A n \in DOMAIN calls :
       /\ calls[n].key <= keys /\ (calls[n].purpose # "refund" => calls[n].key > 0)
       /\ \A m \in DOMAIN calls : calls[m].key = calls[n].key => calls[m].purpose = calls[n].purpose

(* What a dialog waits for or shows is its call. *)
Awaited ==
  \A d \in Dialogs : dialog[d].step \in {"busy", "success"} =>
    /\ dialog[d].call \in DOMAIN calls
    /\ calls[dialog[d].call].key = dialog[d].key
    /\ calls[dialog[d].call].payload = dialog[d].keyed
    /\ calls[dialog[d].call].about = dialog[d].about
    /\ dialog[d].step = "success" => calls[dialog[d].call].stage = "ok"

(* An answer repeats an act; acts and records are of one transaction, which *)
(* nothing else is in with the same key.                                    *)
Reserved ==
  /\ \A n \in DOMAIN calls : calls[n].stage = "ok" =>
       \E e \in acts : e.key = calls[n].key /\ e.payload = calls[n].payload /\ e.about = calls[n].about
  /\ \A r \in records :
       \E e \in acts : e.key = r.key /\ e.payload = r.payload /\ e.about = r.about
  /\ \A n \in DOMAIN calls : calls[n].stage = "working" /\ calls[n].purpose # "refund" =>
       /\ Record(calls[n].key) = {}
       /\ \A m \in DOMAIN calls : calls[m].stage = "working" /\ calls[m].key = calls[n].key => m = n
  /\ \A e \in acts : /\ e.purpose # "refund" => Record(e.key) # {}
                     /\ e.call \in DOMAIN calls /\ calls[e.call].key = e.key
                     /\ calls[e.call].purpose = e.purpose

(* A report comes from its act, and what was decided stays decided. *)
Decided ==
  /\ \A k \in 1..MaxKeys : reports[k] # "none" => \E e \in acts : e.key = k /\ e.purpose = "report"
  /\ \A e \in acts : e.purpose = "decide" => reports[e.about] = "decided"
  /\ \A j, k \in 1..MaxKeys : Pending(j) /\ Pending(k) => j = k

KeyedInv == KeyedTypeOK /\ KeysHeld /\ Awaited /\ Reserved /\ Decided /\ RecordedAsConfirmed

-----------------------------------------------------------------------------
LEMMA CallsTyped ==
  ASSUME KeyedInv
  PROVE  \A n \in DOMAIN calls : n \in Nat /\ calls[n] \in Call /\ calls[n].key \in Nat
<1>1. calls \in Seq(Call) /\ MaxKeys \in Nat
  BY KeyedAssumption DEF KeyedInv, KeyedTypeOK
<1>2. \A n \in DOMAIN calls : n \in 1..Len(calls) /\ calls[n] \in Call
  BY <1>1, ElementOfSeq, LenProperties
<1>3. \A c \in Call : c.key \in Nat
  BY <1>1 DEF Call
<1> QED
  BY <1>1, <1>2, <1>3, LenProperties

LEMMA KeyedInvInit == KeyedInit => KeyedInv
<1> SUFFICES ASSUME KeyedInit PROVE KeyedInv
  OBVIOUS
<1>1. /\ MaxKeys \in Nat /\ 0 \in 0..MaxKeys /\ Blank \in Dialog /\ Blank.step = "closed"
      /\ <<>> \in Seq(Call) /\ DOMAIN <<>> = {}
  BY KeyedAssumption DEF Blank, Dialog, Texts
<1>2. KeyedTypeOK
  BY <1>1 DEF KeyedInit, KeyedTypeOK
<1>3. KeysHeld /\ Awaited /\ Reserved
  BY <1>1 DEF KeyedInit, KeysHeld, Awaited, Reserved
<1>4. \A k \in 1..MaxKeys : reports[k] = "none"
  BY <1>1 DEF KeyedInit
<1>5. Decided
  BY <1>4 DEF KeyedInit, Decided, Pending
<1>6. {k \in 1..MaxKeys : Pending(k)} = {}
  BY <1>4 DEF Pending
<1>7. RecordedAsConfirmed
  BY <1>1, <1>6, FS_EmptySet DEF KeyedInit, RecordedAsConfirmed
<1> QED
  BY <1>2, <1>3, <1>5, <1>7 DEF KeyedInv

-----------------------------------------------------------------------------
(* Dialogs that are opened, edited, closed, answered or given up.           *)
LEMMA DialogStep ==
  ASSUME KeyedInv, NEW d \in Dialogs, NEW q \in Dialog,
         dialog' = [dialog EXCEPT ![d] = q],
         keys' \in 0..MaxKeys, keys <= keys',
         UNCHANGED <<purpose, calls, records, reports, acts>>,
         q.step # "closed" =>
           /\ q.key <= keys' /\ (purpose[d] # "refund" => q.key > 0)
           /\ \A n \in DOMAIN calls : calls[n].key = q.key => calls[n].purpose = purpose[d]
           /\ \A e \in Dialogs : e # d /\ dialog[e].step # "closed" /\ dialog[e].key = q.key => q.key = 0,
         q.step \in {"busy", "success"} =>
           /\ q.call \in DOMAIN calls /\ calls[q.call].key = q.key
           /\ calls[q.call].payload = q.keyed /\ calls[q.call].about = q.about
           /\ q.step = "success" => calls[q.call].stage = "ok"
  PROVE  KeyedInv'
<1>1. /\ dialog'[d] = q /\ \A e \in Dialogs : e # d => dialog'[e] = dialog[e]
      /\ dialog' \in [Dialogs -> Dialog] /\ dialog \in [Dialogs -> Dialog]
  BY DEF KeyedInv, KeyedTypeOK
<1>2. KeyedTypeOK'
  BY <1>1 DEF KeyedInv, KeyedTypeOK
<1>3. KeysHeld'
  <2>1. MaxKeys \in Nat /\ keys \in Nat /\ keys' \in Nat /\ \A e \in Dialogs : dialog[e].key \in Nat
    BY <1>1, KeyedAssumption DEF KeyedInv, KeyedTypeOK, Dialog
  <2>2. \A n \in DOMAIN calls : calls[n].key \in Nat
    BY CallsTyped
  <2> QED
    BY <1>1, <2>1, <2>2 DEF KeyedInv, KeysHeld
<1>4. Awaited'
  BY <1>1 DEF KeyedInv, Awaited
<1>5. Reserved' /\ Decided'
  BY DEF KeyedInv, Reserved, Decided, Record, Pending
<1>6. \A e \in Dialogs : dialog'[e].step = "success" =>
        \E f \in acts' : f.key = dialog'[e].key /\ f.payload = dialog'[e].keyed /\ f.about = dialog'[e].about
  <2> TAKE e \in Dialogs
  <2>1. dialog'[e].step = "success" => /\ dialog'[e].call \in DOMAIN calls /\ calls[dialog'[e].call].stage = "ok"
                                       /\ calls[dialog'[e].call].key = dialog'[e].key
                                       /\ calls[dialog'[e].call].payload = dialog'[e].keyed
                                       /\ calls[dialog'[e].call].about = dialog'[e].about
    BY <1>4 DEF Awaited
  <2> QED
    BY <2>1 DEF KeyedInv, Reserved
<1>7. RecordedAsConfirmed'
  BY <1>6 DEF KeyedInv, RecordedAsConfirmed, Pending
<1> QED
  BY <1>2, <1>3, <1>4, <1>5, <1>7 DEF KeyedInv

LEMMA OpenKeeps ==
  ASSUME KeyedInv, NEW d \in Dialogs, OpenDialog(d)
  PROVE  KeyedInv'
<1>1. PICK p \in Payloads, k \in 0..MaxKeys :
        /\ IF purpose[d] = "refund" THEN UNCHANGED keys ELSE keys < MaxKeys /\ keys' = keys + 1
        /\ dialog' = [dialog EXCEPT ![d] =
             [Blank EXCEPT !.step = "open", !.key = IF purpose[d] = "refund" THEN 0 ELSE keys',
                           !.payload = p, !.about = k]]
  BY DEF OpenDialog
<1> DEFINE q == [Blank EXCEPT !.step = "open", !.key = IF purpose[d] = "refund" THEN 0 ELSE keys',
                              !.payload = p, !.about = k]
<1>2. /\ keys \in 0..MaxKeys /\ MaxKeys \in Nat /\ keys' \in 0..MaxKeys /\ keys <= keys'
      /\ purpose[d] # "refund" => keys' = keys + 1
  BY <1>1, KeyedAssumption DEF KeyedInv, KeyedTypeOK
<1>3. q.step = "open" /\ q.key = (IF purpose[d] = "refund" THEN 0 ELSE keys')
  BY DEF Blank
<1>4. q \in Dialog
  <2>1. (IF purpose[d] = "refund" THEN 0 ELSE keys') \in 0..MaxKeys /\ 0 \in 0..MaxKeys /\ 0 \in Nat
    BY <1>2
  <2>2. Blank \in Dialog
    BY <2>1 DEF Blank, Dialog, Texts
  <2> QED
    BY <2>1, <2>2 DEF Dialog, Texts
<1>5. \A n \in DOMAIN calls : calls[n].key \in Nat /\ calls[n].key <= keys
  BY CallsTyped DEF KeyedInv, KeysHeld
<1>6. \A e \in Dialogs : dialog[e].key \in Nat /\ (dialog[e].step # "closed" => dialog[e].key <= keys)
  BY DEF KeyedInv, KeyedTypeOK, KeysHeld, Dialog
<1>7. UNCHANGED <<purpose, calls, records, reports, acts>> /\ dialog' = [dialog EXCEPT ![d] = q]
  BY <1>1 DEF OpenDialog
<1> HIDE DEF q
<1>8. \A n \in DOMAIN calls : calls[n].key = q.key => calls[n].purpose = purpose[d]
  BY <1>2, <1>3, <1>5 DEF KeyedInv, KeysHeld
<1>9. /\ q.key <= keys' /\ (purpose[d] # "refund" => q.key > 0)
      /\ \A e \in Dialogs : e # d /\ dialog[e].step # "closed" /\ dialog[e].key = q.key => q.key = 0
  BY <1>2, <1>3, <1>6
<1> QED
  BY <1>2, <1>3, <1>4, <1>7, <1>8, <1>9, DialogStep

(* The dialog keeps its key.                                                *)
LEMMA EntryKeeps ==
  ASSUME KeyedInv, NEW d \in Dialogs,
         CloseDialog(d) \/ ReceiveAnswer(d) \/ GiveUp(d) \/ \E p \in Payloads : EditDialog(d, p)
  PROVE  KeyedInv'
<1>1. /\ dialog[d] \in Dialog /\ keys \in 0..MaxKeys /\ keys <= keys /\ UNCHANGED <<purpose, keys, calls, records, reports, acts>>
  BY KeyedAssumption DEF KeyedInv, KeyedTypeOK, CloseDialog, ReceiveAnswer, GiveUp, EditDialog
<1>2. ASSUME dialog[d].step # "closed"
      PROVE  /\ dialog[d].key <= keys /\ (purpose[d] # "refund" => dialog[d].key > 0)
             /\ \A n \in DOMAIN calls : calls[n].key = dialog[d].key => calls[n].purpose = purpose[d]
             /\ \A e \in Dialogs : e # d /\ dialog[e].step # "closed" /\ dialog[e].key = dialog[d].key
                                    => dialog[d].key = 0
  BY <1>2 DEF KeyedInv, KeysHeld
<1>3. CASE CloseDialog(d)
  <2>1. Blank \in Dialog /\ Blank.step = "closed"
    BY KeyedAssumption DEF Blank, Dialog, Texts
  <2> QED
    BY <1>1, <1>3, <2>1, DialogStep DEF CloseDialog
<1>4. CASE ReceiveAnswer(d)
  <2>1. PICK s \in {"success", "error"} :
          dialog' = [dialog EXCEPT ![d].step = s] /\ (s = "success" => calls[dialog[d].call].stage = "ok")
    BY <1>4 DEF ReceiveAnswer
  <2> DEFINE q == [dialog[d] EXCEPT !.step = s]
  <2>2. /\ q \in Dialog /\ q.step = s /\ q.key = dialog[d].key /\ q.keyed = dialog[d].keyed
        /\ q.about = dialog[d].about /\ q.call = dialog[d].call
    BY <1>1 DEF Dialog
  <2>3. dialog' = [dialog EXCEPT ![d] = q] /\ dialog[d].step = "busy"
    BY <1>4, <2>1 DEF ReceiveAnswer
  <2> HIDE DEF q
  <2>4. q.step \in {"busy", "success"} =>
           /\ q.call \in DOMAIN calls /\ calls[q.call].key = q.key
           /\ calls[q.call].payload = q.keyed /\ calls[q.call].about = q.about
           /\ q.step = "success" => calls[q.call].stage = "ok"
    BY <2>1, <2>2, <2>3 DEF KeyedInv, Awaited
  <2> QED
    BY ZenonT(60), <1>1, <1>2, <2>2, <2>3, <2>4, DialogStep
<1>5. CASE GiveUp(d)
  <2> DEFINE q == [dialog[d] EXCEPT !.step = "error"]
  <2>1. q \in Dialog /\ q.step = "error" /\ q.key = dialog[d].key
    BY <1>1 DEF Dialog
  <2>2. dialog' = [dialog EXCEPT ![d] = q] /\ dialog[d].step = "busy"
    BY <1>5 DEF GiveUp
  <2> HIDE DEF q
  <2> QED
    BY <1>1, <1>2, <2>1, <2>2, DialogStep
<1>6. ASSUME NEW p \in Payloads, EditDialog(d, p) PROVE KeyedInv'
  <2> DEFINE q == [dialog[d] EXCEPT !.payload = p]
  <2>1. /\ q \in Dialog /\ q.step = dialog[d].step /\ q.key = dialog[d].key /\ q.keyed = dialog[d].keyed
        /\ q.about = dialog[d].about /\ q.call = dialog[d].call
    BY <1>1 DEF Dialog, Texts
  <2>2. dialog' = [dialog EXCEPT ![d] = q] /\ dialog[d].step \in {"open", "busy", "error"}
    BY <1>6 DEF EditDialog
  <2> HIDE DEF q
  <2>3. q.step \in {"busy", "success"} =>
           /\ q.call \in DOMAIN calls /\ calls[q.call].key = q.key
           /\ calls[q.call].payload = q.keyed /\ calls[q.call].about = q.about
           /\ q.step = "success" => calls[q.call].stage = "ok"
    BY <2>1, <2>2 DEF KeyedInv, Awaited
  <2> QED
    BY ZenonT(60), <1>1, <1>2, <2>1, <2>2, <2>3, DialogStep
<1> QED
  BY <1>3, <1>4, <1>5, <1>6
-----------------------------------------------------------------------------
LEMMA ConfirmKeeps ==
  ASSUME KeyedInv, NEW d \in Dialogs, Confirm(d)
  PROVE  KeyedInv'
<1> DEFINE fresh == purpose[d] = "refund" /\ dialog[d].keyed # dialog[d].payload
           key == IF fresh THEN keys + 1 ELSE dialog[d].key
           c == [purpose |-> purpose[d], key |-> key, payload |-> dialog[d].payload,
                 about |-> dialog[d].about, stage |-> "sent"]
           q == [dialog[d] EXCEPT !.step = "busy", !.key = key, !.call = Len(calls'),
                                  !.keyed = dialog[d].payload]
<1>1. /\ dialog[d].step \in {"open", "error"} /\ (fresh => keys < MaxKeys)
      /\ keys' = (IF fresh THEN key ELSE keys) /\ calls' = Append(calls, c)
      /\ UNCHANGED <<purpose, records, reports, acts>>
  BY DEF Confirm
<1>2. /\ dialog \in [Dialogs -> Dialog] /\ dialog[d] \in Dialog /\ calls \in Seq(Call) /\ MaxKeys \in Nat
      /\ keys \in 0..MaxKeys /\ purpose[d] \in Purposes
  BY KeyedAssumption DEF KeyedInv, KeyedTypeOK
<1>3. /\ key \in 0..MaxKeys /\ keys' \in 0..MaxKeys /\ keys <= keys' /\ key <= keys'
      /\ fresh => key = keys + 1
      /\ ~fresh => key = dialog[d].key
  <2>1. dialog[d].key \in 0..MaxKeys /\ dialog[d].key <= keys
    BY <1>1, <1>2 DEF KeyedInv, KeysHeld, Dialog
  <2> QED
    BY <1>1, <1>2, <2>1
<1> HIDE DEF fresh, key
<1>4. c \in Call /\ c.key = key /\ c.purpose = purpose[d] /\ c.stage = "sent"
      /\ c.payload = dialog[d].payload /\ c.about = dialog[d].about
  BY <1>2, <1>3 DEF Dialog, Call
<1> HIDE DEF c
<1>5. /\ calls' \in Seq(Call) /\ Len(calls') = Len(calls) + 1 /\ DOMAIN calls = 1..Len(calls)
      /\ DOMAIN calls' = 1..(Len(calls) + 1) /\ calls'[Len(calls) + 1] = c
      /\ \A n \in 1..Len(calls) : calls'[n] = calls[n]
      /\ Len(calls) \in Nat
  BY <1>1, <1>2, <1>4, AppendProperties, LenProperties
<1>6. /\ DOMAIN calls \subseteq DOMAIN calls' /\ Len(calls') \in DOMAIN calls' /\ calls'[Len(calls')] = c
      /\ \A n \in DOMAIN calls : calls'[n] = calls[n] /\ n # Len(calls')
      /\ \A n \in DOMAIN calls' : n \in DOMAIN calls \/ n = Len(calls')
      /\ Len(calls') \in Nat
  BY <1>5
<1>7. /\ q \in Dialog /\ q.step = "busy" /\ q.key = key /\ q.call = Len(calls')
      /\ q.keyed = dialog[d].payload /\ q.about = dialog[d].about
  BY <1>2, <1>3, <1>6 DEF Dialog
<1>8. dialog' = [dialog EXCEPT ![d] = q]
  BY <1>1, <1>2 DEF Confirm, fresh, key
<1> HIDE DEF q
<1>9. /\ dialog'[d] = q /\ \A e \in Dialogs : e # d => dialog'[e] = dialog[e]
      /\ dialog' \in [Dialogs -> Dialog]
  BY <1>2, <1>7, <1>8
<1>10. KeyedTypeOK'
  BY <1>1, <1>3, <1>5, <1>9 DEF KeyedInv, KeyedTypeOK
<1>11. /\ \A n \in DOMAIN calls : calls[n].key \in Nat /\ calls[n].key <= keys
       /\ \A e \in Dialogs : dialog[e].key \in Nat /\ (dialog[e].step # "closed" => dialog[e].key <= keys)
  BY CallsTyped DEF KeyedInv, KeyedTypeOK, KeysHeld, Dialog
<1>12. \A n \in DOMAIN calls : calls[n].key = key => calls[n].purpose = purpose[d]
  <2>1. CASE fresh
    BY <1>2, <1>3, <1>11, <2>1
  <2>2. CASE ~fresh
    BY <1>1, <1>3, <2>2 DEF KeyedInv, KeysHeld
  <2> QED
    BY <2>1, <2>2
<1>13. purpose[d] # "refund" => key > 0
  BY <1>1, <1>2, <1>3 DEF KeyedInv, KeysHeld, fresh
<1>14. \A e \in Dialogs : e # d /\ dialog[e].step # "closed" /\ dialog[e].key = key => key = 0
  <2>1. CASE fresh
    BY <1>2, <1>3, <1>11, <2>1
  <2>2. CASE ~fresh
    BY <1>1, <1>3, <2>2 DEF KeyedInv, KeysHeld
  <2> QED
    BY <2>1, <2>2
<1>15. \A e \in Dialogs : e # d /\ dialog[e].step # "closed" /\ dialog[e].key = key => purpose[e] = purpose[d]
  <2> SUFFICES ASSUME NEW e \in Dialogs, e # d, dialog[e].step # "closed", dialog[e].key = key
               PROVE  purpose[e] = purpose[d]
    OBVIOUS
  <2>1. key = 0
    BY <1>14
  <2>2. purpose[e] = "refund"
    BY <2>1 DEF KeyedInv, KeysHeld
  <2> QED
    BY <1>13, <2>1, <2>2
<1>16. KeysHeld'
  <2>1. ASSUME NEW e \in Dialogs, dialog'[e].step # "closed"
        PROVE  /\ dialog'[e].key <= keys' /\ (purpose'[e] # "refund" => dialog'[e].key > 0)
               /\ \A n \in DOMAIN calls' : calls'[n].key = dialog'[e].key => calls'[n].purpose = purpose'[e]
               /\ \A f \in Dialogs : f # e /\ dialog'[f].step # "closed" /\ dialog'[f].key = dialog'[e].key
                                      => dialog'[e].key = 0
    <3>1. CASE e = d
      BY <1>1, <1>3, <1>4, <1>6, <1>7, <1>9, <1>12, <1>13, <1>14, <3>1
    <3>2. CASE e # d
      <4>1. dialog'[e] = dialog[e] /\ dialog[e].step # "closed" /\ purpose' = purpose
        BY <1>1, <1>9, <2>1, <3>2
      <4>2. dialog[e].key <= keys' /\ (purpose[e] # "refund" => dialog[e].key > 0)
        BY <1>2, <1>3, <1>11, <4>1 DEF KeyedInv, KeysHeld
      <4>3. \A n \in DOMAIN calls' : calls'[n].key = dialog[e].key => calls'[n].purpose = purpose[e]
        <5> TAKE n \in DOMAIN calls'
        <5>1. CASE n \in DOMAIN calls
          BY <1>6, <4>1, <5>1 DEF KeyedInv, KeysHeld
        <5>2. CASE n = Len(calls')
          BY <1>4, <1>6, <1>15, <3>2, <4>1, <5>2
        <5> QED
          BY <1>6, <5>1, <5>2
      <4>4. \A f \in Dialogs : f # e /\ dialog'[f].step # "closed" /\ dialog'[f].key = dialog[e].key
                                => dialog[e].key = 0
        <5> TAKE f \in Dialogs
        <5>1. CASE f = d
          BY <1>7, <1>9, <1>14, <3>2, <4>1, <5>1
        <5>2. CASE f # d
          BY <1>9, <4>1, <5>2 DEF KeyedInv, KeysHeld
        <5> QED
          BY <5>1, <5>2
      <4> QED
        BY <4>1, <4>2, <4>3, <4>4
    <3> QED
      BY <3>1, <3>2
  <2>2. ASSUME NEW n \in DOMAIN calls'
        PROVE  /\ calls'[n].key <= keys' /\ (calls'[n].purpose # "refund" => calls'[n].key > 0)
               /\ \A m \in DOMAIN calls' : calls'[m].key = calls'[n].key => calls'[m].purpose = calls'[n].purpose
    <3>1. CASE n = Len(calls')
      BY <1>3, <1>4, <1>6, <1>12, <1>13, <3>1
    <3>2. CASE n \in DOMAIN calls
      <4>1. calls'[n] = calls[n] /\ calls[n].key <= keys' /\ (calls[n].purpose # "refund" => calls[n].key > 0)
        BY <1>2, <1>3, <1>6, <1>11, <3>2 DEF KeyedInv, KeysHeld
      <4>2. \A m \in DOMAIN calls' : calls'[m].key = calls[n].key => calls'[m].purpose = calls[n].purpose
        BY <1>4, <1>6, <1>12, <3>2 DEF KeyedInv, KeysHeld
      <4> QED
        BY <4>1, <4>2
    <3> QED
      BY <1>6, <3>1, <3>2
  <2> QED
    BY <2>1, <2>2 DEF KeysHeld
<1>17. Awaited'
  BY <1>4, <1>6, <1>7, <1>9 DEF KeyedInv, Awaited
<1>18. Reserved'
  BY <1>1, <1>4, <1>6 DEF KeyedInv, Reserved, Record
<1>19. Decided' /\ RecordedAsConfirmed'
  BY <1>1, <1>7, <1>9 DEF KeyedInv, Decided, RecordedAsConfirmed, Pending
<1> QED
  BY <1>10, <1>16, <1>17, <1>18, <1>19 DEF KeyedInv

-----------------------------------------------------------------------------
(* A call that was not answered comes to another stage.                     *)
LEMMA StageStep ==
  ASSUME KeyedInv, NEW n \in DOMAIN calls, NEW s \in {"working", "ok", "refused"},
         calls[n].stage # "ok", calls' = [calls EXCEPT ![n].stage = s],
         UNCHANGED <<purpose, dialog, keys>>
  PROVE  /\ DOMAIN calls' = DOMAIN calls /\ calls' \in Seq(Call)
         /\ \A m \in DOMAIN calls : m # n => calls'[m] = calls[m]
         /\ calls'[n].stage = s /\ calls'[n] \in Call
         /\ \A m \in DOMAIN calls : /\ calls'[m].key = calls[m].key /\ calls'[m].purpose = calls[m].purpose
                                    /\ calls'[m].payload = calls[m].payload
                                    /\ calls'[m].about = calls[m].about
         /\ KeysHeld' /\ Awaited'
<1>1. calls \in Seq(Call) /\ n \in 1..Len(calls) /\ DOMAIN calls = 1..Len(calls) /\ calls[n] \in Call
  BY CallsTyped, LenProperties DEF KeyedInv, KeyedTypeOK
<1> DEFINE c == [calls[n] EXCEPT !.stage = s]
<1>2. /\ c \in Call /\ c.stage = s /\ c.key = calls[n].key /\ c.purpose = calls[n].purpose
      /\ c.payload = calls[n].payload /\ c.about = calls[n].about
  BY <1>1 DEF Call
<1>3. calls' = [calls EXCEPT ![n] = c]
  OBVIOUS
<1> HIDE DEF c
<1>4. calls' \in Seq(Call) /\ Len(calls') = Len(calls) /\ DOMAIN calls' = DOMAIN calls
  BY <1>1, <1>2, <1>3, ExceptSeq, LenProperties
<1>5. calls'[n] = c /\ \A m \in DOMAIN calls : m # n => calls'[m] = calls[m]
  BY <1>1, <1>3
<1>6. \A m \in DOMAIN calls : /\ calls'[m].key = calls[m].key /\ calls'[m].purpose = calls[m].purpose
                              /\ calls'[m].payload = calls[m].payload
                              /\ calls'[m].about = calls[m].about
  BY <1>2, <1>5
<1>7. KeysHeld'
  BY <1>4, <1>6 DEF KeyedInv, KeysHeld
<1>8. \A m \in DOMAIN calls : calls[m].stage = "ok" => calls'[m].stage = "ok"
  BY <1>5
<1>9. Awaited'
  BY <1>4, <1>6, <1>8 DEF KeyedInv, Awaited
<1> QED
  BY <1>2, <1>4, <1>5, <1>6, <1>7, <1>9

(* One call with a key is in a transaction, and no record is there yet; a   *)
(* replay answers what is recorded.                                         *)
LEMMA ReserveKeeps ==
  ASSUME KeyedInv, NEW n \in DOMAIN calls, Reserve(n)
  PROVE  KeyedInv'
<1> DEFINE keyed == calls[n].purpose # "refund"
           s == IF keyed /\ Record(calls[n].key) # {}
                  THEN IF \E r \in Record(calls[n].key) : SameRequest(calls[n], r) THEN "ok" ELSE "refused"
                ELSE "working"
<1>1. /\ calls[n].stage = "sent" /\ calls' = [calls EXCEPT ![n].stage = s]
      /\ keyed => ~\E m \in DOMAIN calls : calls[m].stage = "working" /\ calls[m].key = calls[n].key
      /\ UNCHANGED <<purpose, dialog, keys, records, reports, acts>>
  BY DEF Reserve
<1>2. /\ s \in {"working", "ok", "refused"}
      /\ s = "ok" => \E r \in records : r.key = calls[n].key /\ SameRequest(calls[n], r)
      /\ s = "working" /\ keyed => Record(calls[n].key) = {}
  BY DEF Record
<1> HIDE DEF s
<1>3. /\ DOMAIN calls' = DOMAIN calls /\ calls' \in Seq(Call)
      /\ \A m \in DOMAIN calls : m # n => calls'[m] = calls[m]
      /\ calls'[n].stage = s /\ calls'[n] \in Call
      /\ \A m \in DOMAIN calls : /\ calls'[m].key = calls[m].key /\ calls'[m].purpose = calls[m].purpose
                                 /\ calls'[m].payload = calls[m].payload
                                 /\ calls'[m].about = calls[m].about
      /\ KeysHeld' /\ Awaited'
  BY <1>1, <1>2, StageStep
<1>4. KeyedTypeOK'
  BY <1>1, <1>3 DEF KeyedInv, KeyedTypeOK
<1>5. \A m \in DOMAIN calls' : calls'[m].stage = "ok" =>
        \E e \in acts' : e.key = calls'[m].key /\ e.payload = calls'[m].payload /\ e.about = calls'[m].about
  <2> SUFFICES ASSUME NEW m \in DOMAIN calls, calls'[m].stage = "ok"
               PROVE  \E e \in acts : e.key = calls[m].key /\ e.payload = calls[m].payload /\ e.about = calls[m].about
    BY <1>1, <1>3
  <2>1. CASE m = n
    <3>1. PICK r \in records : r.key = calls[n].key /\ r.payload = calls[n].payload /\ r.about = calls[n].about
      BY <1>2, <1>3, <2>1 DEF SameRequest
    <3> QED
      BY <2>1, <3>1 DEF KeyedInv, Reserved
  <2>2. CASE m # n
    BY <1>3, <2>2 DEF KeyedInv, Reserved
  <2> QED
    BY <2>1, <2>2
<1>6. \A m \in DOMAIN calls' : calls'[m].stage = "working" /\ calls'[m].purpose # "refund" =>
        /\ {r \in records' : r.key = calls'[m].key} = {}
        /\ \A k \in DOMAIN calls' : calls'[k].stage = "working" /\ calls'[k].key = calls'[m].key => k = m
  <2> SUFFICES ASSUME NEW m \in DOMAIN calls, calls'[m].stage = "working", calls[m].purpose # "refund"
               PROVE  /\ {r \in records : r.key = calls[m].key} = {}
                      /\ \A k \in DOMAIN calls : calls'[k].stage = "working" /\ calls[k].key = calls[m].key => k = m
    BY <1>1, <1>3 DEF Record
  <2>1. CASE m = n
    BY <1>1, <1>2, <1>3, <2>1 DEF Record
  <2>2. CASE m # n
    <3>1. calls[m].stage = "working" /\ calls[m].purpose # "refund"
      BY <1>3, <2>2
    <3>2. {r \in records : r.key = calls[m].key} = {}
      BY <3>1 DEF KeyedInv, Reserved, Record
    <3>3. calls[n].key = calls[m].key => keyed
      BY <3>1 DEF KeyedInv, KeysHeld
    <3>4. calls[n].key # calls[m].key
      BY <1>1, <3>1, <3>3
    <3> QED
      BY <1>3, <3>1, <3>2, <3>4 DEF KeyedInv, Reserved
  <2> QED
    BY <2>1, <2>2
<1>7. Reserved'
  BY <1>1, <1>3, <1>5, <1>6 DEF KeyedInv, Reserved, Record
<1>8. Decided' /\ RecordedAsConfirmed'
  BY <1>1 DEF KeyedInv, Decided, RecordedAsConfirmed, Pending
<1> QED
  BY <1>3, <1>4, <1>7, <1>8 DEF KeyedInv

LEMMA RollBackKeeps ==
  ASSUME KeyedInv, NEW n \in DOMAIN calls, RollBack(n)
  PROVE  KeyedInv'
<1>1. /\ calls[n].stage = "working" /\ calls' = [calls EXCEPT ![n].stage = "refused"]
      /\ UNCHANGED <<purpose, dialog, keys, records, reports, acts>>
  BY DEF RollBack
<1>2. /\ DOMAIN calls' = DOMAIN calls /\ calls' \in Seq(Call)
      /\ \A m \in DOMAIN calls : m # n => calls'[m] = calls[m]
      /\ calls'[n].stage = "refused"
      /\ \A m \in DOMAIN calls : /\ calls'[m].key = calls[m].key /\ calls'[m].purpose = calls[m].purpose
                                 /\ calls'[m].payload = calls[m].payload
                                 /\ calls'[m].about = calls[m].about
      /\ KeysHeld' /\ Awaited'
  BY <1>1, StageStep
<1>3. KeyedTypeOK'
  BY <1>1, <1>2 DEF KeyedInv, KeyedTypeOK
<1>4. \A m \in DOMAIN calls : calls'[m].stage \in {"ok", "working"} => calls'[m] = calls[m]
  BY <1>2
<1>5. Reserved'
  BY <1>1, <1>2, <1>4 DEF KeyedInv, Reserved, Record
<1>6. Decided' /\ RecordedAsConfirmed'
  BY <1>1 DEF KeyedInv, Decided, RecordedAsConfirmed, Pending
<1> QED
  BY <1>2, <1>3, <1>5, <1>6 DEF KeyedInv

-----------------------------------------------------------------------------
(* The act, its record and the change of a report are one transaction.      *)
LEMMA CompleteKeeps ==
  ASSUME KeyedInv, NEW n \in DOMAIN calls, Complete(n)
  PROVE  KeyedInv'
<1> DEFINE a == [purpose |-> calls[n].purpose, key |-> calls[n].key, call |-> n,
                 payload |-> calls[n].payload, about |-> calls[n].about]
<1>1. /\ calls[n].stage = "working" /\ Allowed(calls[n])
      /\ calls' = [calls EXCEPT ![n].stage = "ok"] /\ acts' = acts \cup {a}
      /\ records' = IF calls[n].purpose = "refund" THEN records ELSE records \cup {calls'[n]}
      /\ reports' = CASE calls[n].purpose = "report" -> [reports EXCEPT ![calls[n].key] = "pending"]
                      [] calls[n].purpose = "decide" -> [reports EXCEPT ![calls[n].about] = "decided"]
                      [] OTHER -> reports
      /\ UNCHANGED <<purpose, dialog, keys>>
  BY DEF Complete
<1>2. /\ DOMAIN calls' = DOMAIN calls /\ calls' \in Seq(Call)
      /\ \A m \in DOMAIN calls : m # n => calls'[m] = calls[m]
      /\ calls'[n].stage = "ok" /\ calls'[n] \in Call
      /\ \A m \in DOMAIN calls : /\ calls'[m].key = calls[m].key /\ calls'[m].purpose = calls[m].purpose
                                 /\ calls'[m].payload = calls[m].payload
                                 /\ calls'[m].about = calls[m].about
      /\ KeysHeld' /\ Awaited'
  BY <1>1, StageStep
<1>3. /\ calls[n] \in Call /\ n \in Nat /\ calls[n].key \in 0..MaxKeys /\ calls[n].about \in 0..MaxKeys
      /\ MaxKeys \in Nat /\ reports \in [0..MaxKeys -> {"none", "pending", "decided"}]
      /\ calls[n].purpose \in Purposes
  BY CallsTyped, KeyedAssumption DEF KeyedInv, KeyedTypeOK, Call
<1>4. a \in Act /\ a.key = calls[n].key /\ a.purpose = calls[n].purpose /\ a.call = n
      /\ a.payload = calls[n].payload /\ a.about = calls[n].about
  BY <1>3 DEF Act, Call
<1> HIDE DEF a
<1>5. /\ calls[n].purpose = "report" => reports' = [reports EXCEPT ![calls[n].key] = "pending"]
      /\ calls[n].purpose = "decide" => reports' = [reports EXCEPT ![calls[n].about] = "decided"]
      /\ calls[n].purpose \notin {"report", "decide"} => reports' = reports
  BY <1>1
<1>6. reports' \in [0..MaxKeys -> {"none", "pending", "decided"}]
  BY <1>3, <1>5
<1>7. records' \subseteq Call
  BY <1>1, <1>2 DEF KeyedInv, KeyedTypeOK
<1>8. KeyedTypeOK'
  BY <1>1, <1>2, <1>4, <1>6, <1>7 DEF KeyedInv, KeyedTypeOK
(* Nothing was done with this key.                                          *)
<1>9. \A e \in acts : e.key # calls[n].key
  <2> SUFFICES ASSUME NEW e \in acts, e.key = calls[n].key PROVE FALSE
    OBVIOUS
  <2>1. e.purpose = calls[n].purpose
    BY DEF KeyedInv, Reserved, KeysHeld
  <2>2. CASE calls[n].purpose = "refund"
    BY <1>1, <2>1, <2>2 DEF Allowed
  <2>3. CASE calls[n].purpose # "refund"
    BY ZenonT(60), <1>1, <2>1, <2>3 DEF KeyedInv, Reserved
  <2> QED
    BY <2>2, <2>3
<1>10. \A m \in DOMAIN calls' : calls'[m].stage = "ok" =>
        \E e \in acts' : e.key = calls'[m].key /\ e.payload = calls'[m].payload /\ e.about = calls'[m].about
  <2> SUFFICES ASSUME NEW m \in DOMAIN calls, calls'[m].stage = "ok"
               PROVE  \E e \in acts' : e.key = calls[m].key /\ e.payload = calls[m].payload /\ e.about = calls[m].about
    BY <1>2
  <2>1. CASE m = n
    BY <1>1, <1>4, <2>1
  <2>2. CASE m # n
    <3>1. \E e \in acts : e.key = calls[m].key /\ e.payload = calls[m].payload /\ e.about = calls[m].about
      BY <1>2, <2>2 DEF KeyedInv, Reserved
    <3> QED
      BY <1>1, <3>1
  <2> QED
    BY <2>1, <2>2
<1>11. \A r \in records' :
         \E e \in acts' : e.key = r.key /\ e.payload = r.payload /\ e.about = r.about
  <2> TAKE r \in records'
  <2>1. CASE r = calls'[n]
    <3>1. r.key = a.key /\ r.payload = a.payload /\ r.about = a.about
      BY <1>2, <1>4, <2>1
    <3> QED
      BY <1>1, <3>1
  <2>2. CASE r \in records
    <3>1. \E e \in acts : e.key = r.key /\ e.payload = r.payload /\ e.about = r.about
      BY <2>2 DEF KeyedInv, Reserved
    <3> QED
      BY <1>1, <3>1
  <2> QED
    BY <1>1, <2>1, <2>2
<1>12. \A m \in DOMAIN calls' : calls'[m].stage = "working" /\ calls'[m].purpose # "refund" =>
        /\ {r \in records' : r.key = calls'[m].key} = {}
        /\ \A k \in DOMAIN calls' : calls'[k].stage = "working" /\ calls'[k].key = calls'[m].key => k = m
  <2> SUFFICES ASSUME NEW m \in DOMAIN calls, calls'[m].stage = "working", calls[m].purpose # "refund"
               PROVE  /\ {r \in records' : r.key = calls[m].key} = {}
                      /\ \A k \in DOMAIN calls : calls'[k].stage = "working" /\ calls[k].key = calls[m].key => k = m
    BY <1>2 DEF Record
  <2>1. m # n /\ calls[m].stage = "working"
    BY <1>2
  <2>2. calls[m].key # calls[n].key
    BY <1>1, <2>1 DEF KeyedInv, Reserved
  <2>3. {r \in records : r.key = calls[m].key} = {}
    BY <2>1 DEF KeyedInv, Reserved, Record
  <2>4. {r \in records' : r.key = calls[m].key} = {}
    <3>1. \A r \in records' : r \in records \/ r = calls'[n]
      BY <1>1
    <3>2. \A r \in records' : r.key # calls[m].key
      BY <1>2, <2>2, <2>3, <3>1
    <3> QED
      BY <3>2
  <2> QED
    BY <1>2, <2>1, <2>4 DEF KeyedInv, Reserved
<1>13. \A e \in acts' : /\ e.purpose # "refund" => {r \in records' : r.key = e.key} # {}
                        /\ e.call \in DOMAIN calls' /\ calls'[e.call].key = e.key
                        /\ calls'[e.call].purpose = e.purpose
  <2> TAKE e \in acts'
  <2>1. CASE e = a
    <3>1. e.purpose # "refund" => calls'[n] \in records' /\ calls'[n].key = e.key
      BY <1>1, <1>2, <1>4, <2>1
    <3> QED
      BY <1>2, <1>4, <2>1, <3>1
  <2>2. CASE e \in acts
    <3>1. records \subseteq records'
      BY <1>1
    <3> QED
      BY <1>2, <2>2, <3>1 DEF KeyedInv, Reserved, Record
  <2> QED
    BY <1>1, <2>1, <2>2
<1>14. Reserved'
  BY <1>10, <1>11, <1>12, <1>13 DEF Reserved, Record
<1>15. \A k \in 1..MaxKeys : reports'[k] # "none" => \E e \in acts' : e.key = k /\ e.purpose = "report"
  <2> TAKE k \in 1..MaxKeys
  <2>1. CASE calls[n].purpose = "report" /\ k = calls[n].key
    BY <1>1, <1>4, <2>1
  <2>2. CASE reports[k] # "none"
    BY <1>1, <2>2 DEF KeyedInv, Decided
  <2>3. reports'[k] = "none" \/ reports[k] # "none" \/ (calls[n].purpose = "report" /\ k = calls[n].key)
    BY <1>1, <1>3, <1>5 DEF Allowed, Pending
  <2> QED
    BY <2>1, <2>2, <2>3
<1>16. \A e \in acts' : e.purpose = "decide" => reports'[e.about] = "decided"
  <2> TAKE e \in acts'
  <2>1. CASE e = a
    BY <1>3, <1>4, <1>5, <2>1
  <2>2. CASE e \in acts
    <3> SUFFICES ASSUME e.purpose = "decide" PROVE reports'[e.about] = "decided"
      OBVIOUS
    <3>1. reports[e.about] = "decided" /\ e.about \in 0..MaxKeys
      BY <2>2 DEF KeyedInv, Decided, KeyedTypeOK, Act
    <3>2. CASE calls[n].purpose = "report"
      <4>1. calls[n].key > 0
        BY <3>2 DEF KeyedInv, KeysHeld
      <4>2. e.about # calls[n].key
        <5>1. e.about = calls[n].key => e.about \in 1..MaxKeys
          BY <1>3, <4>1
        <5> QED
          BY <1>9, <3>1, <5>1 DEF KeyedInv, Decided
      <4> QED
        BY <1>3, <1>5, <3>1, <3>2, <4>2
    <3>3. CASE calls[n].purpose # "report"
      BY <1>3, <1>5, <3>1, <3>3
    <3> QED
      BY <3>2, <3>3
  <2> QED
    BY <1>1, <2>1, <2>2
<1>17. \A j, k \in 1..MaxKeys : reports'[j] = "pending" /\ reports'[k] = "pending" => j = k
  <2>1. CASE calls[n].purpose = "report"
    <3>1. \A k \in 1..MaxKeys : reports[k] # "pending"
      BY <1>1, <2>1 DEF Allowed, Pending
    <3> QED
      BY <1>3, <1>5, <2>1, <3>1
  <2>2. CASE calls[n].purpose # "report"
    <3>1. \A k \in 1..MaxKeys : reports'[k] = "pending" => reports[k] = "pending"
      BY <1>3, <1>5, <2>2
    <3> QED
      BY <3>1 DEF KeyedInv, Decided, Pending
  <2> QED
    BY <2>1, <2>2
<1>18. Decided'
  BY <1>15, <1>16, <1>17 DEF Decided, Pending
<1>19. \A e, f \in acts' : e.key = f.key => e = f
  BY <1>1, <1>4, <1>9 DEF KeyedInv, RecordedAsConfirmed
<1>20. \A d \in Dialogs : dialog'[d].step = "success" =>
         \E e \in acts' : e.key = dialog'[d].key /\ e.payload = dialog'[d].keyed
                            /\ e.about = dialog'[d].about
  BY <1>1 DEF KeyedInv, RecordedAsConfirmed
<1>21. \A e, f \in acts' : e.purpose = "decide" /\ f.purpose = "decide" /\ e.about = f.about => e = f
  <2>1. calls[n].purpose = "decide" => reports[calls[n].about] = "pending"
    BY <1>1 DEF Allowed, Pending
  <2>2. \A e \in acts : e.purpose = "decide" => reports[e.about] = "decided"
    BY DEF KeyedInv, Decided
  <2> QED
    BY <1>1, <1>4, <2>1, <2>2 DEF KeyedInv, RecordedAsConfirmed
<1>22. RecordedAsConfirmed'
  <2>1. Cardinality({k \in 1..MaxKeys : reports'[k] = "pending"}) <= 1
    <3> DEFINE P == {k \in 1..MaxKeys : reports'[k] = "pending"}
    <3>1. CASE P = {}
      BY <3>1, FS_EmptySet
    <3>2. CASE P # {}
      <4>1. PICK k \in P : P = {k}
        BY <1>17, <3>2
      <4>2. Cardinality(P) = 1
        BY <4>1, FS_Singleton
      <4> QED
        BY <4>2
    <3> QED
      BY <3>1, <3>2
  <2> QED
    BY <1>19, <1>20, <1>21, <2>1 DEF RecordedAsConfirmed, Pending
<1> QED
  BY <1>2, <1>8, <1>14, <1>18, <1>22 DEF KeyedInv

-----------------------------------------------------------------------------
LEMMA KeyedInvStep == KeyedInv /\ [KeyedNext]_keyedVars => KeyedInv'
<1> SUFFICES ASSUME KeyedInv, [KeyedNext]_keyedVars PROVE KeyedInv'
  OBVIOUS
<1>1. CASE UNCHANGED keyedVars
  BY <1>1 DEF keyedVars, KeyedInv, KeyedTypeOK, KeysHeld, Awaited, Reserved, Decided, Record, Pending,
              RecordedAsConfirmed
<1>2. CASE KeyedNext
  BY <1>2, OpenKeeps, ConfirmKeeps, EntryKeeps, ReserveKeeps, CompleteKeeps, RollBackKeeps DEF KeyedNext
<1> QED
  BY <1>1, <1>2

(* For any dialogs, texts, keys and calls: a key acts once, a dialog shows  *)
(* as recorded what was recorded, a report is decided once, and a member    *)
(* has one pending report of an item (idempotency.ts:11-19,                 *)
(* ReportButton.jsx:15, WorkflowPages.jsx:129).                             *)
THEOREM KeysActOnce == KeyedSpec => []RecordedAsConfirmed
<1>1. KeyedInv => RecordedAsConfirmed
  BY DEF KeyedInv
<1> QED
  BY <1>1, KeyedInvInit, KeyedInvStep, PTL DEF KeyedSpec

-----------------------------------------------------------------------------
(* Listings *)

FileStatus == {"none", "pending", "ready", "quarantined", "gone"}
AfterDraft == {"submitted", "published", "rejected"}
PageFiles == {<<>>} \cup UNION {[S -> FileStatus] : S \in SUBSET ListingFiles}
Pages == [known : BOOLEAN, terms : Terms \cup {"none"}, cover : BOOLEAN, files : PageFiles,
          image : Covers \cup {0, NoImage}, opened : SUBSET ListingFiles,
          sent : {"none", "published", "rejected"}]

ListingTypeOK ==
  /\ kind \in {"course", "content"}
  /\ status \in {"none", "draft", "archived"} \cup AfterDraft
  /\ terms \in Terms
  /\ cover \in Covers \cup {0}
  /\ file \in [ListingFiles -> FileStatus]
  /\ image \in Covers \cup {0, NoImage}
  /\ call \in {"none", "sent", "ready", "ok", "refused"}
  /\ editor \in {"new", "editing", "submitting", "submitted"}
  /\ review \in [Reviewers -> Pages]

(* What a reviewer's page shows of a submission is what was submitted, and *)
(* a decision to publish is sent after every file was opened.              *)
PageTrue(page) ==
  IF page.known
    THEN /\ status \in AfterDraft
         /\ status = "submitted" =>
              /\ page.terms = terms
              /\ page.cover = (cover # 0)
              /\ page.image \in {NoImage, cover}
              /\ kind = "content" => page.files = [f \in Active |-> file[f]]
         /\ page.sent = "published" /\ kind = "content" =>
              DOMAIN page.files # {} /\ DOMAIN page.files \subseteq page.opened
    ELSE page.image = NoImage /\ page.sent = "none"

PagesTrue == \A r \in Reviewers : PageTrue(review[r])

(* The files of submitted content are all ready, and cannot change. *)
ContentFrozen ==
  kind = "content" /\ status \in {"submitted", "published"} => Active # {} /\ Active = Ready

AnswersTrue == call = "ok" => status \in AfterDraft

ListingInv == ListingTypeOK /\ PagesTrue /\ ContentFrozen /\ AnswersTrue /\ PublishedAsReviewed

-----------------------------------------------------------------------------
USE DEF NoImage

LEMMA ListingInvInit == ListingInit => ListingInv
<1> SUFFICES ASSUME ListingInit PROVE ListingInv
  OBVIOUS
<1>1. Nothing \in Pages
  BY DEF Nothing, Pages, PageFiles
<1>2. ListingTypeOK
  BY <1>1 DEF ListingInit, ListingTypeOK, FileStatus
<1> QED
  BY <1>2 DEF ListingInit, ListingInv, PagesTrue, PageTrue, ContentFrozen, AnswersTrue,
              PublishedAsReviewed, AfterDraft, Nothing

(* What depends only on the listing and its files: a step that leaves both *)
(* keeps what was derived from them.                                       *)
LEMMA OwnerPagesKeep ==
  ASSUME ListingInv,
         \/ CreateListing \/ OpenEditor \/ LeaveEditor \/ SendSubmission \/ ReadReadiness
         \/ SubmissionAnswered \/ SubmissionLost \/ \E c \in Covers \cup {0} : SendCover(c)
  PROVE  ListingInv'
<1> USE DEF CreateListing, OpenEditor, LeaveEditor, SendSubmission, ReadReadiness, SubmissionAnswered,
            SubmissionLost, SendCover, draftVars
<1>1. /\ UNCHANGED <<kind, terms, cover, file, review, approved>>
      /\ status' = status \/ (status = "none" /\ status' = "draft")
      /\ editor' = "submitted" => editor = "submitted" \/ call = "ok"
      /\ call' = "ok" => call = "ok"
  BY DEF ListingInv, ListingTypeOK
<1>2. ListingTypeOK'
  BY DEF ListingInv, ListingTypeOK, AfterDraft
<1>3. PagesTrue'
  BY <1>1 DEF ListingInv, PagesTrue, PageTrue, AfterDraft, Active
<1>4. ContentFrozen'
  BY <1>1 DEF ListingInv, ContentFrozen, Active, Ready
<1>5. AnswersTrue'
  BY <1>1 DEF ListingInv, AnswersTrue, AfterDraft
<1>6. PublishedAsReviewed'
  BY <1>1 DEF ListingInv, PublishedAsReviewed, AnswersTrue, AfterDraft, IsReady, Active, Ready
<1> QED
  BY <1>2, <1>3, <1>4, <1>5, <1>6 DEF ListingInv

(* Only a draft is changed.                                                *)
LEMMA DraftKeeps ==
  ASSUME ListingInv,
         \/ StoreCover \/ DeleteDraft \/ \E t \in Terms : UpdateCourse(t)
         \/ \E f \in ListingFiles : ChangeFile(f)
  PROVE  ListingInv'
<1>1. ListingTypeOK'
  <2>1. CASE StoreCover
    BY <2>1 DEF StoreCover, ListingInv, ListingTypeOK
  <2>2. CASE DeleteDraft
    BY <2>2 DEF DeleteDraft, ListingInv, ListingTypeOK, FileStatus
  <2>3. CASE \E t \in Terms : UpdateCourse(t)
    BY <2>3 DEF UpdateCourse, ListingInv, ListingTypeOK
  <2>4. CASE \E f \in ListingFiles : ChangeFile(f)
    BY <2>4 DEF ChangeFile, ListingInv, ListingTypeOK, FileStatus
  <2> QED
    BY <2>1, <2>2, <2>3, <2>4
<1>2. /\ UNCHANGED <<kind, call, editor, review, approved>>
      /\ status' \in {status, "archived"} /\ (status' # status => status = "draft")
      /\ status # "draft" => UNCHANGED <<status, terms, cover>>
  BY DEF StoreCover, DeleteDraft, UpdateCourse, ChangeFile, ListingInv, ListingTypeOK
<1>3. ASSUME status \in AfterDraft
      PROVE  /\ UNCHANGED Ready
             /\ kind = "content" /\ status \in {"submitted", "published"} => UNCHANGED <<file, Active>>
  <2>1. \/ UNCHANGED file
        \/ \E f \in ListingFiles : file[f] \in {"pending", "quarantined"} /\ file' = [file EXCEPT ![f] = "gone"]
    BY <1>3 DEF AfterDraft, StoreCover, DeleteDraft, UpdateCourse, ChangeFile
  <2>2. Ready' = Ready
    BY <2>1 DEF Ready, ListingInv, ListingTypeOK
  <2>3. ASSUME kind = "content", status \in {"submitted", "published"}
        PROVE  file' = file
    BY <2>1, <2>3 DEF ListingInv, ContentFrozen, Active, Ready
  <2> QED
    BY <2>2, <2>3 DEF Active
<1>4. PagesTrue'
  <2>1. PagesTrue
    BY DEF ListingInv
  <2>2. CASE status \in AfterDraft
    BY <1>2, <1>3, <2>1, <2>2 DEF PagesTrue, PageTrue, AfterDraft
  <2>3. CASE status \notin AfterDraft
    BY <1>2, <2>1, <2>3 DEF PagesTrue, PageTrue, AfterDraft
  <2> QED
    BY <2>2, <2>3
<1>5. ContentFrozen'
  BY <1>2, <1>3 DEF ListingInv, ContentFrozen, AfterDraft
<1>6. AnswersTrue'
  BY <1>2 DEF ListingInv, AnswersTrue, AfterDraft
<1>7. PublishedAsReviewed'
  <2>1. editor' = "submitted" => status' \in {"submitted", "published", "rejected"}
    BY <1>2 DEF ListingInv, PublishedAsReviewed
  <2>2. CASE status' = "published"
    <3>1. status = "published" /\ UNCHANGED <<kind, terms, cover, approved>>
      BY <1>2, <2>2
    <3>2. Ready' = Ready /\ (kind = "content" => Active' = Active)
      BY <1>3, <3>1 DEF AfterDraft
    <3>3. IsReady'
      BY <3>1, <3>2 DEF IsReady, ListingInv, ListingTypeOK, PublishedAsReviewed
    <3> QED
      BY <2>1, <3>1, <3>2, <3>3 DEF ListingInv, PublishedAsReviewed
  <2> QED
    BY <2>1, <2>2 DEF PublishedAsReviewed
<1> QED
  BY <1>1, <1>4, <1>5, <1>6, <1>7 DEF ListingInv

LEMMA SubmitKeeps ==
  ASSUME ListingInv, Submit
  PROVE  ListingInv'
<1> USE DEF Submit
<1>1. ListingTypeOK'
  BY DEF ListingInv, ListingTypeOK, AfterDraft
<1>2. /\ UNCHANGED <<kind, terms, cover, file, editor, review, approved, Active, Ready, IsReady>>
      /\ \/ status' = status /\ call' = "refused"
         \/ /\ status = "draft" /\ status' = "submitted" /\ call' = "ok"
            /\ kind = "content" => IsReady
  BY DEF Active, Ready, IsReady
<1>3. PagesTrue'
  BY <1>2 DEF ListingInv, PagesTrue, PageTrue, AfterDraft
<1>4. ContentFrozen'
  BY <1>2 DEF ListingInv, ContentFrozen, IsReady
<1>5. AnswersTrue'
  BY <1>2 DEF ListingInv, AnswersTrue, AfterDraft
<1>6. PublishedAsReviewed'
  BY <1>2 DEF ListingInv, PublishedAsReviewed
<1> QED
  BY <1>1, <1>3, <1>4, <1>5, <1>6 DEF ListingInv

(* A reviewer's page is read, looks at more, or takes a decision.          *)
LEMMA ReviewKeeps ==
  ASSUME ListingInv, NEW r \in Reviewers,
         \/ LoadQueue(r) \/ PreviewCover(r) \/ RefuseDecision(r)
         \/ \E f \in ListingFiles : PreviewFile(r, f)
         \/ \E d \in {"published", "rejected"} : SendDecision(r, d)
  PROVE  ListingInv'
<1>1. /\ UNCHANGED <<kind, status, terms, cover, file, image, call, editor, approved>>
      /\ UNCHANGED <<Active, Ready, IsReady>>
  BY DEF LoadQueue, PreviewCover, RefuseDecision, PreviewFile, SendDecision, draftVars, Active, Ready, IsReady
<1>2. PICK page \in Pages : review' = [review EXCEPT ![r] = page] /\ PageTrue(page)
  <2>0. /\ review[r] \in Pages /\ PageTrue(review[r])
        /\ cover \in Covers \cup {0} /\ terms \in Terms /\ file \in [ListingFiles -> FileStatus]
    BY DEF ListingInv, ListingTypeOK, PagesTrue
  <2>1. CASE LoadQueue(r) /\ status = "submitted"
    <3> DEFINE page == [known |-> TRUE, terms |-> terms, cover |-> cover # 0,
                        files |-> [f \in Active |-> file[f]], image |-> review[r].image,
                        opened |-> review[r].opened, sent |-> "none"]
    <3>1. review' = [review EXCEPT ![r] = page]
      BY <2>1 DEF LoadQueue
    <3>2. [f \in Active |-> file[f]] \in PageFiles
      <4>1. Active \in SUBSET ListingFiles /\ [f \in Active |-> file[f]] \in [Active -> FileStatus]
        BY <2>0 DEF Active
      <4> QED
        BY <4>1 DEF PageFiles
    <3>3. page \in Pages
      BY <2>0, <3>2 DEF Pages
    <3>4. review[r].image \in {NoImage, cover}
      BY <2>0, <2>1 DEF PageTrue
    <3>5. PageTrue(page)
      BY <2>1, <3>4 DEF PageTrue, AfterDraft
    <3> QED
      BY <3>1, <3>3, <3>5
  <2>2. CASE LoadQueue(r) /\ status # "submitted"
    <3>1. review' = [review EXCEPT ![r] = Nothing]
      BY <2>2 DEF LoadQueue
    <3>2. Nothing \in Pages /\ PageTrue(Nothing)
      BY DEF Nothing, Pages, PageFiles, PageTrue
    <3> QED
      BY <3>1, <3>2
  <2>3. CASE PreviewCover(r)
    <3> DEFINE page == [review[r] EXCEPT !.image = cover]
    <3>1. review' = [review EXCEPT ![r] = page] /\ review[r].known
      BY <2>3 DEF PreviewCover
    <3>2. page \in Pages
      BY <2>0 DEF Pages
    <3>3. PageTrue(page)
      BY <2>0, <3>1 DEF Pages, PageTrue
    <3> QED
      BY <3>1, <3>2, <3>3
  <2>4. CASE \E f \in ListingFiles : PreviewFile(r, f)
    <3>1. PICK f \in ListingFiles : PreviewFile(r, f)
      BY <2>4
    <3> DEFINE page == [review[r] EXCEPT !.opened = @ \cup {f}]
    <3>2. review' = [review EXCEPT ![r] = page] /\ review[r].known /\ review[r].sent = "none"
      BY <3>1 DEF PreviewFile
    <3>3. page \in Pages
      BY <2>0 DEF Pages
    <3>4. PageTrue(page)
      BY <2>0, <3>2 DEF Pages, PageTrue
    <3> QED
      BY <3>2, <3>3, <3>4
  <2>5. CASE RefuseDecision(r) \/ \E d \in {"published", "rejected"} : SendDecision(r, d)
    <3>1. PICK d \in {"none", "published", "rejected"} :
            /\ review' = [review EXCEPT ![r].sent = d] /\ (d # "none" => review[r].known)
            /\ d = "published" => MayApprove(r)
      BY <2>5 DEF RefuseDecision, SendDecision
    <3> DEFINE page == [review[r] EXCEPT !.sent = d]
    <3>2. review' = [review EXCEPT ![r] = page]
      BY <3>1
    <3>3. page \in Pages
      BY <2>0 DEF Pages
    <3>4. PageTrue(page)
      BY <2>0, <3>1 DEF Pages, PageTrue, MayApprove
    <3> QED
      BY <3>2, <3>3, <3>4
  <2> QED
    BY <2>1, <2>2, <2>3, <2>4, <2>5
<1>3. ListingTypeOK'
  BY <1>1, <1>2 DEF ListingInv, ListingTypeOK
<1>4. PagesTrue'
  BY <1>1, <1>2 DEF ListingInv, ListingTypeOK, PagesTrue, PageTrue
<1>5. /\ ContentFrozen' /\ AnswersTrue' /\ PublishedAsReviewed'
  BY <1>1 DEF ListingInv, ContentFrozen, AnswersTrue, PublishedAsReviewed
<1> QED
  BY <1>3, <1>4, <1>5 DEF ListingInv

LEMMA DecisionKeeps ==
  ASSUME ListingInv, NEW r \in Reviewers, Publish(r) \/ Reject(r)
  PROVE  ListingInv'
<1>1. /\ status = "submitted" /\ status' \in {"published", "rejected"}
      /\ UNCHANGED <<kind, terms, file, image, call, editor, Active, Ready>>
      /\ cover' \in {cover, 0}
  BY DEF Publish, Reject, Active, Ready
<1>2. review[r].sent # "none" /\ review[r].known
  BY DEF Publish, Reject, ListingInv, PagesTrue, PageTrue
<1>3. PICK page \in Pages : review' = [review EXCEPT ![r] = page] /\ PageTrue(page)'
  <2>1. CASE review' = [review EXCEPT ![r] = Nothing]
    <3>1. Nothing \in Pages /\ PageTrue(Nothing)'
      BY DEF Nothing, Pages, PageFiles, PageTrue
    <3> QED
      BY <2>1, <3>1
  <2>2. CASE review' = [review EXCEPT ![r].sent = "none"]
    <3> DEFINE page == [review[r] EXCEPT !.sent = "none"]
    <3>1. page \in Pages /\ page.sent = "none" /\ page.known
      BY <1>2 DEF ListingInv, ListingTypeOK, Pages
    <3>2. IF page.known
            THEN /\ status' \in AfterDraft
                 /\ status' # "submitted" /\ page.sent # "published"
            ELSE page.image = NoImage /\ page.sent = "none"
      BY <1>1, <3>1 DEF AfterDraft
    <3> QED
      BY <2>2, <3>1, <3>2 DEF PageTrue
  <2> QED
    BY <2>1, <2>2 DEF Publish, Reject, AfterDecision
<1>4. ListingTypeOK'
  BY <1>1, <1>3 DEF ListingInv, ListingTypeOK, AfterDraft
<1>5. PagesTrue'
  BY <1>1, <1>3 DEF ListingInv, ListingTypeOK, PagesTrue, PageTrue, AfterDraft
<1>6. ContentFrozen' /\ AnswersTrue'
  BY <1>1 DEF ListingInv, ContentFrozen, AnswersTrue, AfterDraft
<1>7. CASE Publish(r)
  <2>1. /\ status' = "published" /\ approved' = review[r] /\ UNCHANGED cover /\ IsReady
        /\ review[r].sent = "published"
    BY <1>7 DEF Publish
  <2>2. /\ review[r].terms = terms /\ review[r].cover = (cover # 0)
        /\ review[r].image \in {NoImage, cover}
        /\ kind = "content" => /\ review[r].files = [f \in Active |-> file[f]]
                              /\ DOMAIN review[r].files \subseteq review[r].opened
    BY <1>1, <1>2, <2>1 DEF ListingInv, PagesTrue, PageTrue
  <2>3. kind = "content" => Ready = review[r].opened \cap Active /\ Active = DOMAIN review[r].files
    BY <2>1, <2>2 DEF IsReady
  <2>4. IsReady'
    BY <1>1, <2>1 DEF IsReady
  <2>5. PublishedAsReviewed'
    BY <1>1, <2>1, <2>2, <2>3, <2>4 DEF PublishedAsReviewed
  <2> QED
    BY <1>4, <1>5, <1>6, <2>5 DEF ListingInv
<1>8. CASE Reject(r)
  BY <1>1, <1>4, <1>5, <1>6, <1>8 DEF Reject, ListingInv, PublishedAsReviewed
<1> QED
  BY <1>7, <1>8

LEMMA ListingInvStep == ListingInv /\ [ListingNext]_listingVars => ListingInv'
<1> SUFFICES ASSUME ListingInv, [ListingNext]_listingVars PROVE ListingInv'
  OBVIOUS
<1>1. CASE UNCHANGED listingVars
  BY <1>1 DEF listingVars, ListingInv, ListingTypeOK, PagesTrue, PageTrue, ContentFrozen, AnswersTrue,
              PublishedAsReviewed, IsReady, Active, Ready
<1>2. CASE ListingNext
  BY <1>2, OwnerPagesKeep, DraftKeeps, SubmitKeeps, ReviewKeeps, DecisionKeeps DEF ListingNext
<1> QED
  BY <1>1, <1>2

(* For any terms, covers, files, tabs and reviewers: what is public is what *)
(* a reviewer had on the page, looked at and opened, and no later change of *)
(* the owner or of the storage touches it (catalog.ts:407-419, 497-518,     *)
(* listing-covers.ts:53).                                                   *)
THEOREM OnlyReviewedIsPublic == ListingSpec => []PublishedAsReviewed
<1>1. ListingInv => PublishedAsReviewed
  BY DEF ListingInv
<1> QED
  BY <1>1, ListingInvInit, ListingInvStep, PTL DEF ListingSpec

-----------------------------------------------------------------------------
(* The inspection of uploads.                                              *)

Checks == [step : {"idle", "queued", "reading", "opening", "scanning", "passed", "refused", "failed", "accepted"},
           etag : Nat, video : BOOLEAN, served : Nat]
Sockets == [sent : 0..Chunks, ended : BOOLEAN, reply : {"", "OK", "FOUND", "ERROR"}, nul : BOOLEAN,
            failed : BOOLEAN, open : BOOLEAN]

InspectionShape ==
  /\ object \in Seq(Natures) /\ running \in Nat
  /\ queued \in Seq(Verifications)
  /\ check \in [Verifications -> Checks] /\ socket \in [Verifications -> Sockets]

SlotsCounted ==
  /\ running = Cardinality(Inside) /\ running <= SlotLimit
  /\ queued # <<>> => running = SlotLimit

(* The queue holds each of those that wait once.                           *)
InLine ==
  /\ \A v \in Verifications : check[v].step = "queued" <=> \E i \in DOMAIN queued : queued[i] = v
  /\ \A i, j \in DOMAIN queued : queued[i] = queued[j] => i = j

(* What is known of an object whose call has come so far.                  *)
Judged(v) ==
  /\ check[v].step # "idle" => check[v].etag \in 1..Len(object)
  /\ check[v].step \in {"opening", "scanning", "passed", "accepted"} => Inspected(v) # "mislabelled"
  /\ check[v].step = "scanning" /\ socket[v].reply = "OK" =>
       Inspected(v) # "infected" /\ socket[v].sent = Chunks /\ socket[v].ended
  /\ check[v].step \in {"passed", "accepted"} /\ Scanner =>
       Inspected(v) = "fine" /\ socket[v].sent = Chunks /\ socket[v].reply = "OK"
  /\ check[v].step = "accepted" => check[v].served = check[v].etag

InspectionInv == InspectionShape /\ SlotsCounted /\ InLine /\ \A v \in Verifications : Judged(v)

LEMMA InspectionStarts == ASSUME InspectionInit PROVE InspectionInv
<1>1. Idle \in Checks /\ NoSocket \in Sockets /\ Idle.step = "idle"
  BY InspectionAssumption DEF Idle, Checks, NoSocket, Sockets
<1>2. Inside = {}
  BY <1>1 DEF InspectionInit, Inside
<1>3. Cardinality(Inside) = 0
  BY <1>2, FS_EmptySet
<1> QED BY <1>1, <1>3, InspectionAssumption DEF InspectionInit, InspectionInv, InspectionShape, SlotsCounted, InLine, Judged

(* The calls that hold a slot, as some enter and some leave.               *)
LEMMA InsideChanges ==
  ASSUME NEW v \in Verifications, IsFiniteSet(Inside)
  PROVE  /\ (v \notin Inside /\ Inside' = Inside \cup {v}) => Cardinality(Inside') = Cardinality(Inside) + 1
         /\ (v \in Inside /\ Inside' = Inside \ {v}) => Cardinality(Inside') = Cardinality(Inside) - 1
         /\ \A w \in Verifications : (v \in Inside /\ w \notin Inside /\ Inside' = (Inside \ {v}) \cup {w})
                                       => Cardinality(Inside') = Cardinality(Inside)
<1>1. /\ (v \notin Inside /\ Inside' = Inside \cup {v}) => Cardinality(Inside') = Cardinality(Inside) + 1
  BY FS_AddElement
<1>2. v \in Inside => Cardinality(Inside \ {v}) = Cardinality(Inside) - 1 /\ IsFiniteSet(Inside \ {v})
  BY FS_RemoveElement
<1>3. ASSUME NEW w \in Verifications, v \in Inside, w \notin Inside, Inside' = (Inside \ {v}) \cup {w}
      PROVE  Cardinality(Inside') = Cardinality(Inside)
  <2>1. Cardinality((Inside \ {v}) \cup {w}) = Cardinality(Inside \ {v}) + 1
    BY <1>2, <1>3, FS_AddElement
  <2>2. Cardinality(Inside) \in Nat
    BY FS_CardinalityType
  <2> QED BY <1>2, <1>3, <2>1, <2>2
<1> QED BY <1>1, <1>2, <1>3

LEMMA InsideFinite == IsFiniteSet(Inside) /\ Cardinality(Inside) \in Nat
BY InspectionAssumption, FS_Subset, FS_CardinalityType DEF Inside

(* The rest of the calls are as before, or one of them is woken.           *)
LEMMA OthersJudged ==
  ASSUME InspectionInv, NEW w \in Verifications, object' = object, socket'[w] = socket[w],
         check'[w] = check[w] \/ (check[w].step = "queued" /\ check'[w] = [check[w] EXCEPT !.step = "reading"])
  PROVE  Judged(w)'
<1>1. CASE check'[w] = check[w]
  BY <1>1 DEF InspectionInv, Judged, Inspected
<1>2. CASE check[w].step = "queued" /\ check'[w] = [check[w] EXCEPT !.step = "reading"]
  <2>1. check'[w].step = "reading" /\ check'[w].etag = check[w].etag
    BY <1>2 DEF InspectionInv, InspectionShape, Checks
  <2> QED BY <1>2, <2>1 DEF InspectionInv, Judged, Inspected
<1> QED BY <1>1, <1>2

(* A slot is left: it is free, or the first in line has it.                *)
LEMMA SlotLeft ==
  ASSUME InspectionInv, NEW v \in Verifications, v \in Inside,
         NEW step \in {"passed", "refused", "failed"}, Release(v, step)
  PROVE  /\ SlotsCounted' /\ InLine' /\ running' \in Nat /\ queued' \in Seq(Verifications)
         /\ check' \in [Verifications -> Checks]
         /\ check'[v] = [check[v] EXCEPT !.step = step]
         /\ \A w \in Verifications \ {v} :
              check'[w] = check[w] \/ (check[w].step = "queued" /\ check'[w] = [check[w] EXCEPT !.step = "reading"])
<1> USE DEF InspectionInv
<1>0. check[v].step # "queued" /\ check[v] \in Checks
  BY DEF Inside, InspectionShape
<1>1. CASE queued = <<>>
  <2>1. running' = running - 1 /\ queued' = queued /\ check' = [check EXCEPT ![v].step = step]
    BY <1>1 DEF Release, To
  <2>2. check' \in [Verifications -> Checks] /\ check'[v] = [check[v] EXCEPT !.step = step]
        /\ \A w \in Verifications \ {v} : check'[w] = check[w]
    BY <2>1 DEF InspectionShape, Checks
  <2>3. check'[v].step = step
    BY <2>2, <1>0 DEF Checks
  <2>4. Inside' = Inside \ {v}
    BY <2>2, <2>3 DEF Inside
  <2>5. Cardinality(Inside') = Cardinality(Inside) - 1 /\ Cardinality(Inside) \in Nat /\ Cardinality(Inside) # 0
    BY <2>4, InsideChanges, InsideFinite, FS_EmptySet
  <2>6. SlotsCounted' /\ running' \in Nat
    BY <1>1, <2>1, <2>5, InspectionAssumption DEF SlotsCounted, InspectionShape
  <2>7. InLine'
    BY <1>0, <1>1, <2>1, <2>2, <2>3 DEF InLine
  <2> QED BY <2>1, <2>2, <2>6, <2>7 DEF InspectionShape
<1>2. CASE queued # <<>>
  <2> DEFINE w == Head(queued)
  <2>1. /\ queued' = Tail(queued) /\ running' = running
        /\ check' = [check EXCEPT ![v].step = step, ![w].step = "reading"]
    BY <1>2 DEF Release
  <2>2. /\ w \in Verifications /\ w = queued[1] /\ 1 \in DOMAIN queued /\ queued' \in Seq(Verifications)
        /\ Len(queued') = Len(queued) - 1 /\ \A i \in 1..Len(queued') : queued'[i] = queued[i + 1]
        /\ DOMAIN queued = 1..Len(queued) /\ DOMAIN queued' = 1..Len(queued') /\ Len(queued) \in Nat
    BY <1>2, <2>1 DEF InspectionShape
  <2>3. check[w].step = "queued" /\ w # v
    BY <1>0, <2>2 DEF InLine
  <2> HIDE DEF w
  <2>4. /\ check' \in [Verifications -> Checks] /\ check'[v] = [check[v] EXCEPT !.step = step]
        /\ check'[w] = [check[w] EXCEPT !.step = "reading"]
        /\ \A u \in Verifications \ {v, w} : check'[u] = check[u]
    <3>1. [check[v] EXCEPT !.step = step] \in Checks /\ [check[w] EXCEPT !.step = "reading"] \in Checks
      BY <1>0, <2>2 DEF InspectionShape, Checks
    <3>2. check' = [check EXCEPT ![v] = [check[v] EXCEPT !.step = step], ![w] = [check[w] EXCEPT !.step = "reading"]]
      BY <2>1, <2>2, <2>3 DEF InspectionShape
    <3> QED BY <2>2, <2>3, <3>1, <3>2 DEF InspectionShape
  <2>5. check'[v].step = step /\ check'[w].step = "reading"
    BY <1>0, <2>2, <2>4 DEF InspectionShape, Checks
  <2>6. Inside' = (Inside \ {v}) \cup {w} /\ w \notin Inside
    BY ZenonT(60), <2>2, <2>3, <2>4, <2>5 DEF Inside
  <2>7. Cardinality(Inside') = Cardinality(Inside)
    BY <2>2, <2>6, InsideChanges, InsideFinite
  <2>8. SlotsCounted'
    BY <1>2, <2>1, <2>7 DEF SlotsCounted
  <2>9. InLine'
    <3>1. ASSUME NEW i \in DOMAIN queued', NEW j \in DOMAIN queued', queued'[i] = queued'[j] PROVE i = j
      <4>1. i + 1 \in DOMAIN queued /\ j + 1 \in DOMAIN queued /\ queued[i + 1] = queued[j + 1]
        BY <2>2, <3>1
      <4>2. i + 1 = j + 1
        BY <4>1 DEF InLine
      <4> QED BY <2>2, <4>2
    <3>2. ASSUME NEW u \in Verifications, NEW i \in DOMAIN queued', queued'[i] = u PROVE check'[u].step = "queued"
      <4>1. i + 1 \in DOMAIN queued /\ queued[i + 1] = u /\ i + 1 # 1
        BY <2>2, <3>2
      <4>2. check[u].step = "queued" /\ u # w
        BY <2>2, <4>1 DEF InLine
      <4> QED BY <1>0, <2>4, <4>2
    <3>3. ASSUME NEW u \in Verifications, check'[u].step = "queued" PROVE \E i \in DOMAIN queued' : queued'[i] = u
      <4>1. u \notin {v, w} /\ check[u].step = "queued"
        BY <2>4, <2>5, <3>3
      <4>2. PICK i \in DOMAIN queued : queued[i] = u
        BY <4>1 DEF InLine
      <4>3. i # 1 /\ i - 1 \in DOMAIN queued'
        BY <2>2, <4>1, <4>2
      <4> QED BY <2>2, <4>2, <4>3
    <3> QED BY <3>1, <3>2, <3>3 DEF InLine
  <2> QED BY <2>1, <2>2, <2>3, <2>4, <2>8, <2>9 DEF InspectionShape
<1> QED BY <1>1, <1>2

(* No slot changes hands.                                                  *)
SlotClass(c) == IF c.step \in {"reading", "opening", "scanning"} THEN "inside"
                ELSE IF c.step = "queued" THEN "queued" ELSE "outside"

LEMMA SlotsKept ==
  ASSUME InspectionInv, UNCHANGED <<running, queued>>,
         \A w \in Verifications : SlotClass(check'[w]) = SlotClass(check[w])
  PROVE  SlotsCounted' /\ InLine'
<1>1. \A w \in Verifications : /\ w \in Inside' <=> w \in Inside
                               /\ check'[w].step = "queued" <=> check[w].step = "queued"
  BY DEF SlotClass, Inside
<1>2. Inside' = Inside
  BY <1>1 DEF Inside
<1> QED BY <1>1, <1>2 DEF InspectionInv, SlotsCounted, InLine

(* A step that leaves a slot, and may do something to the socket.          *)
LEMMA LeavingKeeps ==
  ASSUME InspectionInv, NEW v \in Verifications, v \in Inside, object' = object,
         NEW step \in {"passed", "refused", "failed"}, Release(v, step),
         socket' \in [Verifications -> Sockets], \A w \in Verifications \ {v} : socket'[w] = socket[w],
         socket'[v].sent = socket[v].sent, socket'[v].reply = socket[v].reply,
         step = "passed" => /\ Inspected(v) # "mislabelled"
                            /\ Scanner => Inspected(v) = "fine" /\ socket[v].sent = Chunks /\ socket[v].reply = "OK"
  PROVE  InspectionInv'
<1>1. check'[v].step = step /\ check'[v].etag = check[v].etag
  <2>1. check'[v] = [check[v] EXCEPT !.step = step] /\ check[v] \in Checks
    BY SlotLeft DEF InspectionInv, InspectionShape
  <2> QED BY <2>1 DEF Checks
<1>2. Judged(v)'
  BY <1>1 DEF InspectionInv, Judged, Inspected, Inside
<1>3. ASSUME NEW w \in Verifications \ {v} PROVE Judged(w)'
  BY <1>3, SlotLeft, OthersJudged
<1> QED BY <1>2, <1>3, SlotLeft DEF InspectionInv, InspectionShape

(* A step of one call that keeps its slot.                                 *)
LEMMA StayingKeeps ==
  ASSUME InspectionInv, NEW v \in Verifications, UNCHANGED <<object, running, queued>>,
         NEW c \in Checks, check' = [check EXCEPT ![v] = c], SlotClass(c) = SlotClass(check[v]),
         NEW s \in Sockets, socket' = [socket EXCEPT ![v] = s], Judged(v)'
  PROVE  InspectionInv'
<1>1. \A w \in Verifications \ {v} : check'[w] = check[w] /\ socket'[w] = socket[w]
  BY DEF InspectionInv, InspectionShape
<1>2. check'[v] = c /\ check' \in [Verifications -> Checks] /\ socket' \in [Verifications -> Sockets]
  BY DEF InspectionInv, InspectionShape
<1>3. \A w \in Verifications \ {v} : Judged(w)'
  BY <1>1, OthersJudged
<1>4. SlotsCounted' /\ InLine'
  BY <1>1, <1>2, SlotsKept
<1> QED BY <1>2, <1>3, <1>4 DEF InspectionInv, InspectionShape

LEMMA PutKeeps == ASSUME InspectionInv, NEW n \in Natures, PutObject(n) PROVE InspectionInv'
<1>1. object' = Append(object, n) /\ UNCHANGED <<running, queued, check, socket>>
  BY DEF PutObject
<1>2. object' \in Seq(Natures) /\ Len(object') = Len(object) + 1 /\ \A i \in 1..Len(object) : object'[i] = object[i]
      /\ Len(object) \in Nat
  BY <1>1 DEF InspectionInv, InspectionShape
<1>3. SlotsCounted' /\ InLine'
  BY <1>1, SlotsKept
<1>4. ASSUME NEW v \in Verifications PROVE Judged(v)'
  BY <1>1, <1>2 DEF InspectionInv, Judged, Inspected
<1> QED BY <1>1, <1>2, <1>3, <1>4 DEF InspectionInv, InspectionShape

LEMMA AskKeeps == ASSUME InspectionInv, NEW v \in Verifications, NEW video \in BOOLEAN, AskForSlot(v, video) PROVE InspectionInv'
<1> DEFINE c == [step |-> IF running >= SlotLimit THEN "queued" ELSE "reading",
                 etag |-> Len(object), video |-> video, served |-> 0]
<1> USE DEF InspectionInv
<1>1. /\ check[v].step = "idle" /\ object # <<>> /\ UNCHANGED <<object, socket>> /\ check' = [check EXCEPT ![v] = c]
      /\ c \in Checks /\ Len(object) \in Nat \ {0}
  BY DEF AskForSlot, InspectionShape, Checks
<1>2. /\ check'[v] = c /\ \A w \in Verifications \ {v} : check'[w] = check[w]
      /\ check' \in [Verifications -> Checks]
  BY <1>1 DEF InspectionShape
<1>3. \A w \in Verifications \ {v} : Judged(w)'
  BY <1>1, <1>2, OthersJudged
<1>4. Judged(v)'
  BY <1>1, <1>2 DEF Judged
<1>5. v \notin Inside /\ check[v].step # "queued"
  BY <1>1 DEF Inside
<1>6. CASE running >= SlotLimit
  <2>1. /\ queued' = Append(queued, v) /\ running' = running /\ check'[v].step = "queued"
    BY <1>2, <1>6 DEF AskForSlot
  <2>2. /\ queued' \in Seq(Verifications) /\ Len(queued') = Len(queued) + 1 /\ Len(queued) \in Nat
        /\ \A i \in 1..Len(queued) : queued'[i] = queued[i]
        /\ queued'[Len(queued) + 1] = v /\ DOMAIN queued = 1..Len(queued) /\ DOMAIN queued' = 1..Len(queued')
    BY <2>1 DEF InspectionShape
  <2>3. Inside' = Inside
    BY <1>2, <1>5, <2>1 DEF Inside
  <2>4. SlotsCounted'
    BY <1>6, <2>1, <2>3, InspectionAssumption DEF SlotsCounted, InspectionShape
  <2>5. \A i \in DOMAIN queued : queued[i] # v
    BY <1>5 DEF InLine
  <2>6. ASSUME NEW i \in DOMAIN queued', NEW j \in DOMAIN queued', queued'[i] = queued'[j] PROVE i = j
    BY <2>2, <2>5, <2>6 DEF InLine
  <2>7. ASSUME NEW w \in Verifications PROVE check'[w].step = "queued" <=> \E i \in DOMAIN queued' : queued'[i] = w
    <3>1. CASE w = v
      BY <2>1, <2>2, <3>1
    <3>2. CASE w # v
      <4>1. check[w].step = "queued" <=> \E i \in DOMAIN queued : queued[i] = w
        BY DEF InLine
      <4>2. (\E i \in DOMAIN queued : queued[i] = w) <=> (\E i \in DOMAIN queued' : queued'[i] = w)
        BY <2>2, <3>2
      <4> QED BY <1>2, <3>2, <4>1, <4>2
    <3> QED BY <3>1, <3>2
  <2> QED BY <1>1, <1>2, <1>3, <1>4, <2>1, <2>2, <2>4, <2>6, <2>7 DEF InLine, InspectionShape
<1>7. CASE ~(running >= SlotLimit)
  <2>1. running' = running + 1 /\ queued' = queued /\ check'[v].step = "reading"
    BY <1>2, <1>7 DEF AskForSlot
  <2>2. Inside' = Inside \cup {v}
    BY <1>2, <2>1 DEF Inside
  <2>3. Cardinality(Inside') = Cardinality(Inside) + 1
    BY <1>5, <2>2, InsideChanges, InsideFinite
  <2>4. running' \in Nat /\ SlotsCounted'
    BY <1>7, <2>1, <2>3, InspectionAssumption DEF SlotsCounted, InspectionShape
  <2>5. InLine'
    BY <1>2, <1>5, <2>1 DEF InLine
  <2> QED BY <1>1, <1>2, <1>3, <1>4, <2>1, <2>4, <2>5 DEF InspectionShape
<1> QED BY <1>6, <1>7

LEMMA ReadKeeps == ASSUME InspectionInv, NEW v \in Verifications, Read(v) PROVE InspectionInv'
<1> USE DEF InspectionInv
<1>1. check[v].step = "reading" /\ v \in Inside /\ UNCHANGED <<object, socket>> /\ check[v] \in Checks /\ socket[v] \in Sockets
  BY DEF Read, Inside, InspectionShape
<1>2. CASE Release(v, "failed") \/ Release(v, "refused")
  BY <1>1, <1>2, LeavingKeeps DEF InspectionShape
<1>3. CASE Inspected(v) # "mislabelled" /\ ~Scanner /\ Release(v, "passed")
  BY <1>1, <1>3, LeavingKeeps DEF InspectionShape
<1>4. CASE Inspected(v) # "mislabelled" /\ To(v, "opening") /\ UNCHANGED <<running, queued>>
  <2> DEFINE c == [check[v] EXCEPT !.step = "opening"]
  <2>1. c \in Checks /\ c.step = "opening" /\ c.etag = check[v].etag /\ check' = [check EXCEPT ![v] = c] /\ check'[v] = c
    BY <1>1, <1>4 DEF To, Checks, InspectionShape
  <2>2. Judged(v)'
    BY <1>1, <1>4, <2>1 DEF Judged, Inspected
  <2>3. SlotClass(c) = SlotClass(check[v]) /\ socket' = [socket EXCEPT ![v] = socket[v]]
    BY <1>1, <2>1 DEF SlotClass, InspectionShape
  <2> QED BY <1>1, <1>4, <2>1, <2>2, <2>3, StayingKeeps
<1> QED BY <1>2, <1>3, <1>4 DEF Read

LEMMA ScanOpenKeeps == ASSUME InspectionInv, NEW v \in Verifications, OpenScan(v) PROVE InspectionInv'
<1> USE DEF InspectionInv
<1>1. check[v].step = "opening" /\ v \in Inside /\ object' = object /\ check[v] \in Checks
  BY DEF OpenScan, Inside, InspectionShape
<1>2. CASE Release(v, "failed") /\ UNCHANGED socket
  BY <1>1, <1>2, LeavingKeeps DEF InspectionShape
<1>3. CASE To(v, "scanning") /\ UNCHANGED <<running, queued>>
           /\ socket' = [socket EXCEPT ![v] = [NoSocket EXCEPT !.open = TRUE]]
  <2> DEFINE c == [check[v] EXCEPT !.step = "scanning"]
             s == [NoSocket EXCEPT !.open = TRUE]
  <2>1. c \in Checks /\ c.step = "scanning" /\ c.etag = check[v].etag /\ check' = [check EXCEPT ![v] = c] /\ check'[v] = c
    BY <1>1, <1>3 DEF To, Checks, InspectionShape
  <2>2. s \in Sockets /\ s.reply = "" /\ socket'[v] = s
    <3>1. 0 \in 0..Chunks
      BY InspectionAssumption
    <3>2. s \in Sockets /\ s.reply = ""
      BY <3>1 DEF NoSocket, Sockets
    <3> QED BY <1>3, <3>2 DEF InspectionShape
  <2>3. Judged(v)'
    BY ZenonT(60), <1>1, <2>1, <2>2 DEF Judged, Inspected
  <2>4. SlotClass(c) = SlotClass(check[v])
    BY <1>1, <2>1 DEF SlotClass
  <2> QED BY <1>1, <1>3, <2>1, <2>2, <2>3, <2>4, StayingKeeps
<1> QED BY <1>2, <1>3 DEF OpenScan

(* The conversation with the scanner: only the socket changes.             *)
LEMMA TalkKeeps ==
  ASSUME InspectionInv, NEW v \in Verifications, check[v].step = "scanning", UNCHANGED <<object, running, queued, check>>,
         NEW s \in Sockets, socket' = [socket EXCEPT ![v] = s],
         s.reply = "OK" => Inspected(v) # "infected" /\ s.sent = Chunks /\ s.ended
  PROVE  InspectionInv'
<1>1. check' = [check EXCEPT ![v] = check[v]] /\ check[v] \in Checks /\ socket'[v] = s
  BY DEF InspectionInv, InspectionShape
<1>2. Judged(v)'
  BY <1>1 DEF InspectionInv, Judged, Inspected
<1> QED BY <1>1, <1>2, StayingKeeps

LEMMA ScannerKeeps ==
  ASSUME InspectionInv, NEW v \in Verifications, Write(v) \/ ClamdAnswers(v) \/ SocketCloses(v) \/ StreamBreaks(v) \/ Scanned(v)
  PROVE  InspectionInv'
<1> USE DEF InspectionInv
<1>1. check[v].step = "scanning" /\ v \in Inside /\ socket[v] \in Sockets /\ object' = object
  BY DEF Write, ClamdAnswers, SocketCloses, StreamBreaks, Scanned, Inside, InspectionShape
<1>j. /\ Inspected(v) # "mislabelled" /\ Inspected(v) \in Natures
      /\ socket[v].reply = "OK" => Inspected(v) # "infected" /\ socket[v].sent = Chunks /\ socket[v].ended
  BY <1>1 DEF Judged, Inspected, InspectionShape
<1>2. CASE Write(v)
  <2> DEFINE gone == socket[v].failed \/ ~socket[v].open
             s == [socket[v] EXCEPT !.sent = IF gone \/ @ = Chunks THEN @ ELSE @ + 1, !.ended = gone \/ socket[v].sent = Chunks]
  <2>1. socket' = [socket EXCEPT ![v] = s] /\ UNCHANGED <<object, running, queued, check>> /\ ~socket[v].ended
    BY <1>2 DEF Write, InspectionShape
  <2>2. s \in Sockets /\ s.reply = socket[v].reply
    <3> DEFINE sent == IF gone \/ socket[v].sent = Chunks THEN socket[v].sent ELSE socket[v].sent + 1
    <3>1. socket[v].sent \in 0..Chunks
      BY <1>1 DEF Sockets
    <3>2. sent \in 0..Chunks
      BY <3>1, InspectionAssumption
    <3>3. s = [socket[v] EXCEPT !.sent = sent, !.ended = gone \/ socket[v].sent = Chunks]
      BY <1>1 DEF Sockets
    <3>4. (gone \/ socket[v].sent = Chunks) \in BOOLEAN
      OBVIOUS
    <3> HIDE DEF sent
    <3> QED BY <1>1, <3>2, <3>3, <3>4 DEF Sockets
  <2> QED BY <1>1, <1>j, <2>1, <2>2, TalkKeeps
<1>3. CASE ClamdAnswers(v)
  <2>1. CASE socket[v].reply # "" /\ socket' = [socket EXCEPT ![v].nul = TRUE]
    <3> DEFINE s == [socket[v] EXCEPT !.nul = TRUE]
    <3>1. s \in Sockets /\ s.reply = socket[v].reply /\ s.sent = socket[v].sent /\ s.ended = socket[v].ended
          /\ socket' = [socket EXCEPT ![v] = s]
      BY <1>1, <2>1 DEF Sockets, InspectionShape
    <3> QED BY <1>1, <1>3, <1>j, <3>1, TalkKeeps DEF ClamdAnswers
  <2>2. ASSUME NEW said \in {"OK", "FOUND", "ERROR"}, NEW nul \in BOOLEAN,
               said = "OK" => Inspected(v) # "infected" /\ socket[v].ended /\ socket[v].sent = Chunks,
               socket' = [socket EXCEPT ![v].reply = said, ![v].nul = nul]
        PROVE  InspectionInv'
    <3> DEFINE s == [socket[v] EXCEPT !.reply = said, !.nul = nul]
    <3>1. s \in Sockets /\ s.reply = said /\ s.sent = socket[v].sent /\ s.ended = socket[v].ended
          /\ socket' = [socket EXCEPT ![v] = s]
      BY <1>1, <2>2 DEF Sockets, InspectionShape
    <3>2. s.reply = "OK" => Inspected(v) # "infected" /\ s.sent = Chunks /\ s.ended
      BY <2>2, <3>1
    <3> HIDE DEF s
    <3>3. UNCHANGED <<object, running, queued, check>>
      BY <1>3 DEF ClamdAnswers
    <3> QED BY <1>1, <3>1, <3>2, <3>3, TalkKeeps
  <2> QED BY <1>3, <2>1, <2>2 DEF ClamdAnswers
<1>4. CASE SocketCloses(v)
  <2>1. PICK failed \in BOOLEAN : socket' = [socket EXCEPT ![v].open = FALSE, ![v].failed = failed]
    BY <1>4 DEF SocketCloses
  <2> DEFINE s == [socket[v] EXCEPT !.open = FALSE, !.failed = failed]
  <2>2. s \in Sockets /\ s.reply = socket[v].reply /\ s.sent = socket[v].sent /\ s.ended = socket[v].ended
        /\ socket' = [socket EXCEPT ![v] = s]
    BY <1>1, <2>1 DEF Sockets, InspectionShape
  <2> QED BY <1>1, <1>4, <1>j, <2>2, TalkKeeps DEF SocketCloses
<1>5. ASSUME socket' = [socket EXCEPT ![v].open = FALSE]
      PROVE  /\ socket' \in [Verifications -> Sockets] /\ \A w \in Verifications \ {v} : socket'[w] = socket[w]
             /\ socket'[v].sent = socket[v].sent /\ socket'[v].reply = socket[v].reply
  BY <1>1, <1>5 DEF Sockets, InspectionShape
<1>6. CASE StreamBreaks(v)
  BY <1>1, <1>5, <1>6, LeavingKeeps DEF StreamBreaks
<1>7. CASE Scanned(v)
  <2>1. PICK step \in {"passed", "refused", "failed"} : Release(v, step) /\ (step = "passed" => socket[v].reply = "OK")
    BY <1>7 DEF Scanned, Parsed
  <2>2. step = "passed" => Inspected(v) = "fine" /\ socket[v].sent = Chunks
    BY <1>j, <2>1 DEF Natures
  <2> QED BY <1>1, <1>j, <1>5, <1>7, <2>1, <2>2, LeavingKeeps DEF Scanned
<1> QED BY <1>2, <1>3, <1>4, <1>6, <1>7

LEMMA CopyKeeps ==
  ASSUME InspectionInv, NEW v \in Verifications, CopyInspected(v) \/ CompleteAgain(v)
  PROVE  InspectionInv'
<1> USE DEF InspectionInv
<1>1. check[v] \in Checks /\ socket[v] \in Sockets /\ UNCHANGED <<object, running, queued>>
  BY DEF CopyInspected, CompleteAgain, InspectionShape
<1>2. CASE check[v].step = "passed" /\ To(v, "failed") /\ UNCHANGED socket
  <2> DEFINE c == [check[v] EXCEPT !.step = "failed"]
  <2>1. c \in Checks /\ c.step = "failed" /\ c.etag = check[v].etag /\ check' = [check EXCEPT ![v] = c] /\ check'[v] = c
    BY <1>1, <1>2 DEF To, Checks, InspectionShape
  <2>2. Judged(v)'
    BY <1>1, <1>2, <2>1 DEF Judged
  <2>3. SlotClass(c) = SlotClass(check[v]) /\ socket' = [socket EXCEPT ![v] = socket[v]]
    BY <1>2, <2>1 DEF SlotClass, InspectionShape
  <2> QED BY <1>1, <2>1, <2>2, <2>3, StayingKeeps
<1>3. CASE check[v].step = "passed" /\ Current(v) /\ UNCHANGED socket
           /\ check' = [check EXCEPT ![v].step = "accepted", ![v].served = Len(object)]
  <2> DEFINE c == [check[v] EXCEPT !.step = "accepted", !.served = Len(object)]
  <2>1. c \in Checks /\ c.step = "accepted" /\ c.etag = check[v].etag /\ c.served = Len(object)
        /\ check' = [check EXCEPT ![v] = c] /\ check'[v] = c
    <3>1. Len(object) \in Nat
      BY DEF InspectionShape
    <3>2. c \in Checks /\ c.step = "accepted" /\ c.etag = check[v].etag /\ c.served = Len(object)
      BY <1>1, <3>1 DEF Checks
    <3>3. check' = [check EXCEPT ![v] = c]
      BY <1>1, <1>3 DEF InspectionShape, Checks
    <3> QED BY <3>2, <3>3 DEF InspectionShape
  <2>2. Judged(v)'
    <3>1. check[v].etag = Len(object) /\ check[v].step = "passed"
      BY <1>3 DEF Current
    <3>2. check'[v].step = "accepted" /\ check'[v].etag = check[v].etag /\ check'[v].served = Len(object)
      BY <2>1
    <3> QED BY <1>1, <1>3, <3>1, <3>2 DEF Judged, Inspected
  <2>3. SlotClass(c) = SlotClass(check[v]) /\ socket' = [socket EXCEPT ![v] = socket[v]]
    BY <1>3, <2>1 DEF SlotClass, InspectionShape
  <2> QED BY <1>1, <2>1, <2>2, <2>3, StayingKeeps
<1>4. CASE CompleteAgain(v)
  <2>1. Idle \in Checks /\ NoSocket \in Sockets /\ Idle.step = "idle"
    BY InspectionAssumption DEF Idle, Checks, NoSocket, Sockets
  <2>2. check' = [check EXCEPT ![v] = Idle] /\ check'[v] = Idle /\ socket' = [socket EXCEPT ![v] = NoSocket]
    BY <1>4 DEF CompleteAgain, InspectionShape
  <2>3. Judged(v)' /\ SlotClass(Idle) = SlotClass(check[v])
    BY <1>4, <2>1, <2>2 DEF CompleteAgain, Judged, SlotClass
  <2> QED BY <1>1, <2>1, <2>2, <2>3, StayingKeeps
<1> QED BY <1>2, <1>3, <1>4 DEF CopyInspected

LEMMA InspectionStep ==
  ASSUME InspectionInv, [InspectionNext]_inspectionVars
  PROVE  InspectionInv'
<1>1. CASE UNCHANGED inspectionVars
  BY <1>1 DEF inspectionVars, InspectionInv, InspectionShape, SlotsCounted, InLine, Judged, Inside, Inspected
<1> QED BY <1>1, PutKeeps, AskKeeps, ReadKeeps, ScanOpenKeeps, ScannerKeeps, CopyKeeps DEF InspectionNext

(* For any number of calls, slots and chunks: slots are counted, none is   *)
(* lost, nobody waits for a free one, and what is accepted was judged      *)
(* (upload-verification.ts:53-57, malware-scan.ts:10-13).                  *)
THEOREM InspectionsAlwaysHold == InspectionSpec => []InspectionsHold
<1>1. InspectionInv => InspectionsHold
  BY DEF InspectionInv, SlotsCounted, InLine, Judged, InspectionsHold
<1> QED BY <1>1, InspectionStarts, InspectionStep, PTL DEF InspectionSpec

-----------------------------------------------------------------------------
(* Top-ups in the browser.  What the page says depends on calls that were sent   *)
(* for a page or an account that may be gone, so the invariant says of each call *)
(* under way what an answer to it may still change: a session is only loaded for *)
(* the address and the account of now, a status is only asked for a payment that *)
(* is complete at Stripe, and a wallet that will be announced was asked for      *)
(* after its payment was credited.                                               *)

Payments == [owner : DeskAccounts, key : Nat, terms : Nat,
             status : {"checkout_created", "failed", "paid"},
             session : {"none", "open", "complete", "expired"}, late : BOOLEAN]

DeskAnswers == {"none", "error", "payment", "complete", "open", "read", "confirmed",
                "checkout_created", "failed", "paid"}
DeskCallRecords ==
  [kind : {"packages", "create", "load", "status", "wallet", "retry", "confirm"}, of : Nat,
   key : Nat, as : DeskAccounts, shown : BOOLEAN, answer : DeskAnswers, data : Nat,
   credits : SUBSET Nat]

DeskRecords ==
  [form : {"none", "loading", "form", "error", "expired"}, of : Nat, terms : Nat,
   owner : DeskAccounts \cup {"none"}, busy : BOOLEAN,
   notice : {"none", "unknown", "verifying", "refreshed", "unrefreshed"}, about : Nat,
   asks : Nat]

DeskTypeOK ==
  /\ offer \in [terms : Nat, active : BOOLEAN]
  /\ paid \in Seq(Payments)
  /\ account \in DeskAccounts
  /\ modal \in [step : {"closed", "choose", "busy"}, seen : Nat, key : Nat]
  /\ route \in [page : {"wallet", "checkout", "verify"}, of : Nat]
  /\ desk \in DeskRecords
  /\ deskCalls \subseteq DeskCallRecords /\ IsFiniteSet(deskCalls)
  /\ shownWallet \subseteq Nat /\ everShown \subseteq Nat

PaidIsComplete == \A n \in DOMAIN paid : paid[n].status = "paid" => paid[n].session = "complete"

(* What is true of a call that is under way, and of the answer it got. *)
LoadApt(c) ==
  c.kind = "load" =>
    /\ c.as = account /\ route.page = "checkout" /\ c.of = route.of
    /\ c.answer \in {"none", "error", "open", "complete"}
    /\ c.answer = "open" => paid[c.of].owner = account /\ c.data = paid[c.of].terms
    /\ c.answer = "complete" => paid[c.of].session = "complete"

StatusApt(c) ==
  c.kind = "status" =>
    /\ c.as = account /\ route.page # "checkout"
    /\ c.of \in DOMAIN paid /\ paid[c.of].session = "complete"
    /\ c.answer \notin {"none", "error"} => paid[c.of].owner = account
    /\ c.answer = "paid" => paid[c.of].status = "paid"

WalletApt(c) ==
  c.kind \in {"wallet", "retry"} =>
    /\ c.as = account /\ c.answer \in {"none", "error", "read"}
    /\ c.kind = "retry" => c.of # 0
    /\ c.of # 0 =>
         /\ route.page # "checkout"
         /\ c.of \in DOMAIN paid /\ paid[c.of].status = "paid" /\ paid[c.of].owner = account
         /\ c.answer = "read" => c.of \in c.credits

CreateApt(c) == c.kind = "create" /\ c.answer = "payment" => c.data \in DOMAIN paid

ConfirmApt(c) ==
  c.kind = "confirm" =>
    /\ c.of \in DOMAIN paid
    /\ c.answer = "confirmed" => paid[c.of].session = "complete"

CallApt(c) == LoadApt(c) /\ StatusApt(c) /\ WalletApt(c) /\ CreateApt(c) /\ ConfirmApt(c)

DeskApt ==
  /\ route.page # "wallet" => route.of \in DOMAIN paid
  /\ desk.form = "none" <=> route.page # "checkout"
  /\ desk.notice # "none" => route.page # "checkout" /\ desk.about \in DOMAIN paid
  /\ desk.notice \in {"refreshed", "unrefreshed"} => paid[desk.about].owner = account

DeskInv ==
  /\ DeskTypeOK /\ PaidIsComplete
  /\ \A c \in deskCalls : CallApt(c)
  /\ DeskApt /\ PaymentsToldTruly

(* The numbers of payments are naturals from one. *)
LEMMA PaidNumbers ==
  ASSUME DeskTypeOK
  PROVE  /\ Len(paid) \in Nat /\ DOMAIN paid = 1..Len(paid)
         /\ \A n \in DOMAIN paid : n \in Nat /\ n # 0 /\ paid[n] \in Payments
<1>1. paid \in Seq(Payments)
  BY DEF DeskTypeOK
<1>2. Len(paid) \in Nat /\ DOMAIN paid = 1..Len(paid) /\ paid \in [1..Len(paid) -> Payments]
  BY <1>1, LenProperties
<1>3. QED
  BY <1>2

LEMMA DeskInvInit == DeskInit => DeskInv
<1> SUFFICES ASSUME DeskInit PROVE DeskInv
  OBVIOUS
<1>1. paid \in Seq(Payments) /\ DOMAIN paid = {}
  BY EmptySeq, LenProperties DEF DeskInit
<1>2. offer \in [terms : Nat, active : BOOLEAN] /\ account \in DeskAccounts
  BY DEF DeskInit
<1>3. /\ modal \in [step : {"closed", "choose", "busy"}, seen : Nat, key : Nat]
      /\ route \in [page : {"wallet", "checkout", "verify"}, of : Nat]
  BY DEF DeskInit, NoModal
<1>4. desk \in DeskRecords
  BY DEF DeskInit, NoDesk, DeskRecords
<1>5. IsFiniteSet(deskCalls)
  BY FS_EmptySet DEF DeskInit
<1>6. DeskTypeOK
  BY <1>1, <1>2, <1>3, <1>4, <1>5 DEF DeskInit, DeskTypeOK
<1>7. PaidIsComplete /\ DeskApt /\ PaymentsToldTruly
  BY <1>1 DEF DeskInit, NoDesk, PaidIsComplete, DeskApt, PaymentsToldTruly
<1> QED
  BY <1>6, <1>7 DEF DeskInit, DeskInv

-----------------------------------------------------------------------------
(* Payments only get on: what holds of one still holds when they are credited,   *)
(* completed or expire, or when another is made.                                 *)
PaymentsGetOn ==
  /\ paid' \in Seq(Payments) /\ DOMAIN paid \subseteq DOMAIN paid'
  /\ \A n \in DOMAIN paid :
       /\ paid'[n].owner = paid[n].owner /\ paid'[n].terms = paid[n].terms
       /\ paid[n].session = "complete" => paid'[n].session = "complete"
       /\ paid[n].status = "paid" => paid'[n].status = "paid"
       /\ paid[n].late => paid'[n].late
  /\ PaidIsComplete'

LEMMA GettingOnKeeps ==
  ASSUME DeskInv, PaymentsGetOn, UNCHANGED <<account, route, desk, everShown>>
  PROVE  (\A c \in deskCalls : CallApt(c)') /\ DeskApt' /\ PaymentsToldTruly'
<1>1. /\ DOMAIN paid \subseteq DOMAIN paid'
      /\ \A n \in DOMAIN paid :
           /\ paid'[n].owner = paid[n].owner /\ paid'[n].terms = paid[n].terms
           /\ paid[n].session = "complete" => paid'[n].session = "complete"
           /\ paid[n].status = "paid" => paid'[n].status = "paid"
           /\ paid[n].late => paid'[n].late
  BY DEF PaymentsGetOn
<1>2. DeskApt /\ PaymentsToldTruly
  BY DEF DeskInv
<1>3. ASSUME NEW c \in deskCalls PROVE CallApt(c)'
  <2>0. CallApt(c) /\ (route.page = "checkout" => route.of \in DOMAIN paid)
    BY DEF DeskInv, DeskApt
  <2>1. LoadApt(c)'
    BY <1>1, <2>0 DEF CallApt, LoadApt
  <2>2. StatusApt(c)'
    BY <1>1, <2>0 DEF CallApt, StatusApt
  <2>3. WalletApt(c)'
    BY <1>1, <2>0 DEF CallApt, WalletApt
  <2>4. CreateApt(c)' /\ ConfirmApt(c)'
    BY <1>1, <2>0 DEF CallApt, CreateApt, ConfirmApt
  <2> QED
    BY <2>1, <2>2, <2>3, <2>4 DEF CallApt
<1>4. DeskApt'
  BY <1>1, <1>2 DEF DeskApt
<1>5. PaymentsToldTruly'
  <2>1. /\ desk.notice \in {"refreshed", "unrefreshed"} => paid'[desk.about].status = "paid"
        /\ desk.notice = "verifying" => paid'[desk.about].session = "complete"
    BY <1>1, <1>2 DEF DeskApt, PaymentsToldTruly
  <2>2. desk.form = "form" => paid'[desk.of].owner = account /\ desk.terms = paid'[desk.of].terms
    BY <1>1, <1>2 DEF DeskApt, PaymentsToldTruly
  <2>3. desk.form = "expired" => paid'[route.of].late
    BY <1>1, <1>2 DEF DeskApt, PaymentsToldTruly
  <2>4. PaidIsComplete'
    BY DEF PaymentsGetOn
  <2> QED
    BY <1>2, <2>1, <2>2, <2>3, <2>4 DEF PaymentsToldTruly, PaidIsComplete
<1> QED
  BY <1>3, <1>4, <1>5

(* When no payment changes, they have got on. *)
LEMMA PaymentsStay ==
  ASSUME DeskInv, UNCHANGED paid
  PROVE  PaymentsGetOn
BY DEF DeskInv, DeskTypeOK, PaidIsComplete, PaymentsGetOn

(* A payment whose session or status moves on. *)
LEMMA OneMovesOn ==
  ASSUME DeskInv, NEW n \in DOMAIN paid, NEW e \in Payments, paid' = [paid EXCEPT ![n] = e],
         e.owner = paid[n].owner, e.terms = paid[n].terms,
         paid[n].session = "complete" => e.session = "complete",
         paid[n].status = "paid" => e.status = "paid", paid[n].late => e.late,
         e.status = "paid" => e.session = "complete"
  PROVE  PaymentsGetOn
<1>1. paid \in Seq(Payments) /\ DOMAIN paid = 1..Len(paid) /\ Len(paid) \in Nat
  BY PaidNumbers DEF DeskInv, DeskTypeOK
<1>2. paid' \in Seq(Payments)
  BY <1>1, ExceptSeq
<1>3. DOMAIN paid' = DOMAIN paid /\ \A m \in DOMAIN paid : paid'[m] = IF m = n THEN e ELSE paid[m]
  BY <1>1
<1>4. PaidIsComplete'
  BY <1>3 DEF DeskInv, PaidIsComplete
<1> QED
  BY <1>2, <1>3, <1>4 DEF PaymentsGetOn

(* An answer is put in the place of the call. *)
LEMMA AnswerGiven ==
  ASSUME DeskInv, NEW c \in deskCalls, NEW answer \in DeskAnswers, NEW data \in Nat,
         NEW credits \in SUBSET Nat, Answered(c, answer, data, credits)
  PROVE  \E d \in DeskCallRecords :
           /\ deskCalls' = (deskCalls \ {c}) \cup {d}
           /\ d.kind = c.kind /\ d.of = c.of /\ d.as = c.as
           /\ d.answer = answer /\ d.data = data /\ d.credits = credits
<1> DEFINE d == [c EXCEPT !.answer = answer, !.data = data, !.credits = credits]
<1>1. c \in DeskCallRecords
  BY DEF DeskInv, DeskTypeOK
<1>2. /\ d \in DeskCallRecords /\ d.kind = c.kind /\ d.of = c.of /\ d.as = c.as
      /\ d.answer = answer /\ d.data = data /\ d.credits = credits
  BY <1>1 DEF DeskCallRecords
<1>3. deskCalls' = (deskCalls \ {c}) \cup {d}
  BY DEF Answered
<1> HIDE DEF d
<1> QED
  BY <1>2, <1>3

LEMMA AnswerKeeps ==
  ASSUME DeskInv, NEW c \in deskCalls, NEW d \in DeskCallRecords,
         deskCalls' = (deskCalls \ {c}) \cup {d}, CallApt(d)', PaymentsGetOn,
         UNCHANGED <<offer, account, modal, route, desk, shownWallet, everShown>>
  PROVE  DeskInv'
<1>1. IsFiniteSet(deskCalls')
  BY FS_AddElement, FS_RemoveElement DEF DeskInv, DeskTypeOK
<1>2. DeskTypeOK'
  BY <1>1 DEF DeskInv, DeskTypeOK, PaymentsGetOn
<1>3. (\A b \in deskCalls : CallApt(b)') /\ DeskApt' /\ PaymentsToldTruly'
  BY GettingOnKeeps
<1>4. \A b \in deskCalls' : CallApt(b)'
  BY <1>3
<1> QED
  BY <1>2, <1>3, <1>4 DEF DeskInv, PaymentsGetOn

(* An answer that changes no payment. *)
LEMMA ReadAnswerKeeps ==
  ASSUME DeskInv, NEW c \in deskCalls, NEW answer \in DeskAnswers, NEW data \in Nat,
         NEW credits \in SUBSET Nat, Answered(c, answer, data, credits),
         UNCHANGED <<offer, paid, account, modal, route, desk, shownWallet, everShown>>,
         c.kind = "load" =>
           /\ answer \in {"error", "open", "complete"}
           /\ answer = "open" => paid[c.of].owner = c.as /\ data = paid[c.of].terms
           /\ answer = "complete" => paid[c.of].session = "complete",
         c.kind = "status" =>
           /\ answer # "error" => paid[c.of].owner = c.as
           /\ answer = "paid" => paid[c.of].status = "paid",
         c.kind \in {"wallet", "retry"} =>
           /\ answer \in {"error", "read"}
           /\ answer = "read" =>
                credits = {n \in DOMAIN paid : paid[n].owner = c.as /\ paid[n].status = "paid"},
         c.kind = "create" => (answer = "payment" => data \in DOMAIN paid),
         c.kind = "confirm" => answer # "confirmed"
  PROVE  DeskInv'
<1>1. PICK d \in DeskCallRecords :
           /\ deskCalls' = (deskCalls \ {c}) \cup {d}
           /\ d.kind = c.kind /\ d.of = c.of /\ d.as = c.as
           /\ d.answer = answer /\ d.data = data /\ d.credits = credits
  BY AnswerGiven
<1>2. CallApt(c) /\ PaymentsGetOn
  BY PaymentsStay DEF DeskInv
<1>3. LoadApt(d)'
  BY <1>1, <1>2 DEF CallApt, LoadApt
<1>4. StatusApt(d)'
  BY <1>1, <1>2 DEF CallApt, StatusApt
<1>5. WalletApt(d)'
  BY <1>1, <1>2 DEF CallApt, WalletApt
<1>6. CreateApt(d)' /\ ConfirmApt(d)'
  BY <1>1, <1>2 DEF CallApt, CreateApt, ConfirmApt
<1>7. CallApt(d)'
  BY <1>3, <1>4, <1>5, <1>6 DEF CallApt
<1> QED
  BY <1>1, <1>2, <1>7, AnswerKeeps

(* Each answer of the API is right for what the payment is then. *)
LEMMA ServeCreateKeeps ==
  ASSUME DeskInv, NEW c \in deskCalls, ServeCreate(c)
  PROVE  DeskInv'
<1> DEFINE known == {n \in DOMAIN paid : paid[n].key = c.key /\ paid[n].status # "failed"}
<1>0. c \in DeskCallRecords /\ c.kind = "create"
  BY DEF DeskInv, DeskTypeOK, ServeCreate
<1>u. UNCHANGED <<offer, account, modal, route, desk, shownWallet, everShown>>
  BY DEF ServeCreate
<1>1. CASE \E n \in known : Answered(c, "payment", n, {}) /\ UNCHANGED paid
  <2>1. PICK n \in known : Answered(c, "payment", n, {}) /\ UNCHANGED paid
    BY <1>1
  <2>2. n \in DOMAIN paid /\ n \in Nat
    BY PaidNumbers DEF DeskInv
  <2> QED
    BY <1>0, <1>u, <2>1, <2>2, ReadAnswerKeeps DEF DeskAnswers
<1>2. CASE known = {} /\ ~offer.active /\ Answered(c, "error", 0, {}) /\ UNCHANGED paid
  BY <1>0, <1>u, <1>2, ReadAnswerKeeps DEF DeskAnswers
<1>3. ASSUME NEW made \in BOOLEAN,
             paid' = Append(paid, [owner |-> c.as, key |-> c.key, terms |-> offer.terms,
                  status |-> IF made THEN "checkout_created" ELSE "failed",
                  session |-> IF made THEN "open" ELSE "none", late |-> FALSE]),
             IF made THEN Answered(c, "payment", Len(paid'), {}) ELSE Answered(c, "error", 0, {})
      PROVE  DeskInv'
  <2> DEFINE e == [owner |-> c.as, key |-> c.key, terms |-> offer.terms,
                  status |-> IF made THEN "checkout_created" ELSE "failed",
                  session |-> IF made THEN "open" ELSE "none", late |-> FALSE]
  <2>1. e \in Payments /\ e.status # "paid"
    BY <1>0 DEF DeskInv, DeskTypeOK, DeskCallRecords, Payments
  <2>2. paid \in Seq(Payments) /\ DOMAIN paid = 1..Len(paid) /\ Len(paid) \in Nat
    BY PaidNumbers DEF DeskInv, DeskTypeOK
  <2> HIDE DEF e
  <2>3. paid' = Append(paid, e)
    BY <1>3 DEF e
  <2>4. /\ Append(paid, e) \in Seq(Payments) /\ Len(Append(paid, e)) = Len(paid) + 1
        /\ \A i \in 1..Len(paid) : Append(paid, e)[i] = paid[i]
        /\ Append(paid, e)[Len(paid) + 1] = e
    BY <2>1, <2>2, AppendProperties
  <2>5. /\ paid' \in Seq(Payments) /\ Len(paid') = Len(paid) + 1
        /\ \A i \in 1..Len(paid) : paid'[i] = paid[i]
        /\ paid'[Len(paid) + 1] = e
    BY <2>3, <2>4
  <2>6. DOMAIN paid' = 1..(Len(paid) + 1)
    BY <2>2, <2>5, LenProperties
  <2>7. PaidIsComplete'
    BY <2>1, <2>2, <2>5, <2>6 DEF DeskInv, PaidIsComplete
  <2>8. PaymentsGetOn
    BY <2>2, <2>5, <2>6, <2>7 DEF PaymentsGetOn
  <2>9. Len(paid') \in Nat /\ Len(paid') \in DOMAIN paid'
    BY <2>2, <2>5, <2>6
  <2>10. PICK answer \in {"payment", "error"}, data \in Nat :
           Answered(c, answer, data, {}) /\ (answer = "payment" => data \in DOMAIN paid')
    <3>1. CASE made
      <4>1. Answered(c, "payment", Len(paid'), {})
        BY <1>3, <3>1
      <4> QED
        BY <2>9, <4>1
    <3>2. CASE ~made
      <4>1. Answered(c, "error", 0, {})
        BY <1>3, <3>2
      <4> QED
        BY <4>1
    <3> QED
      BY <3>1, <3>2
  <2>11. PICK d \in DeskCallRecords :
           /\ deskCalls' = (deskCalls \ {c}) \cup {d}
           /\ d.kind = c.kind /\ d.of = c.of /\ d.as = c.as
           /\ d.answer = answer /\ d.data = data /\ d.credits = {}
    BY <2>10, AnswerGiven DEF DeskAnswers
  <2>12. CallApt(d)'
    BY <1>0, <2>10, <2>11 DEF CallApt, LoadApt, StatusApt, WalletApt, CreateApt, ConfirmApt
  <2> QED
    BY <1>u, <2>8, <2>11, <2>12, AnswerKeeps
<1> QED
  BY <1>1, <1>2, <1>3 DEF ServeCreate

LEMMA ServeLoadKeeps ==
  ASSUME DeskInv, NEW c \in deskCalls, ServeLoad(c)
  PROVE  DeskInv'
<1> DEFINE own == paid[c.of].owner = c.as
<1>0. c \in DeskCallRecords /\ c.kind = "load"
  BY DEF DeskInv, DeskTypeOK, ServeLoad
<1>u. UNCHANGED <<offer, paid, account, modal, route, desk, shownWallet, everShown>>
  BY DEF ServeLoad
<1>1. c.of \in DOMAIN paid
  BY <1>0 DEF DeskInv, CallApt, LoadApt, DeskApt
<1>2. paid[c.of] \in Payments /\ (paid[c.of].status = "paid" => paid[c.of].session = "complete")
  BY <1>1, PaidNumbers DEF DeskInv, PaidIsComplete
<1>3. CASE own /\ (paid[c.of].status = "paid" \/ paid[c.of].session = "complete")
  <2>1. Answered(c, "complete", 0, {}) /\ paid[c.of].session = "complete"
    BY <1>2, <1>3 DEF ServeLoad
  <2> QED
    BY <1>0, <1>u, <2>1, ReadAnswerKeeps DEF DeskAnswers
<1>4. CASE own /\ Answered(c, "open", TermsOf(c.of), {})
  <2>1. TermsOf(c.of) \in Nat /\ TermsOf(c.of) = paid[c.of].terms
    BY <1>2 DEF TermsOf, Payments
  <2> QED
    BY <1>0, <1>u, <1>4, <2>1, ReadAnswerKeeps DEF DeskAnswers
<1>5. CASE Answered(c, "error", 0, {})
  BY <1>0, <1>u, <1>5, ReadAnswerKeeps DEF DeskAnswers
<1> QED
  BY <1>3, <1>4, <1>5 DEF ServeLoad

LEMMA ServeReadKeeps ==
  ASSUME DeskInv, NEW c \in deskCalls, ServeRead(c)
  PROVE  DeskInv'
<1> DEFINE credited == {n \in DOMAIN paid : paid[n].owner = c.as /\ paid[n].status = "paid"}
<1>0. CallApt(c)
  BY DEF DeskInv
<1>u. UNCHANGED <<offer, paid, account, modal, route, desk, shownWallet, everShown>>
  BY DEF ServeRead
<1>1. CASE c.kind = "packages"
  <2>1. PICK data \in Nat : Answered(c, "read", data, {})
    BY <1>1 DEF ServeRead, DeskInv, DeskTypeOK
  <2> QED
    BY <1>u, <1>1, <2>1, ReadAnswerKeeps DEF DeskAnswers
<1>2. CASE c.kind = "status"
  <2> DEFINE answer == IF paid[c.of].owner = c.as THEN paid[c.of].status ELSE "error"
  <2>1. Answered(c, answer, 0, {})
    BY <1>2 DEF ServeRead
  <2>2. c.of \in DOMAIN paid
    BY <1>0, <1>2 DEF CallApt, StatusApt
  <2>3. /\ answer \in DeskAnswers /\ (answer # "error" => paid[c.of].owner = c.as)
        /\ (answer = "paid" => paid[c.of].status = "paid")
    BY <2>2, PaidNumbers DEF DeskInv, Payments, DeskAnswers
  <2> HIDE DEF answer
  <2> QED
    BY <1>u, <1>2, <2>1, <2>3, ReadAnswerKeeps
<1>3. CASE c.kind \in {"wallet", "retry"}
  <2>1. Answered(c, "read", 0, credited)
    BY <1>3 DEF ServeRead
  <2>2. credited \in SUBSET Nat
    BY PaidNumbers DEF DeskInv
  <2> QED
    BY <1>u, <1>3, <2>1, <2>2, ReadAnswerKeeps DEF DeskAnswers
<1> QED
  BY <1>1, <1>2, <1>3 DEF ServeRead

LEMMA LoseKeeps ==
  ASSUME DeskInv, NEW c \in deskCalls, LoseCall(c)
  PROVE  DeskInv'
BY ReadAnswerKeeps DEF LoseCall, DeskAnswers

LEMMA StripeKeeps ==
  ASSUME DeskInv, NEW c \in deskCalls, StripeConfirms(c)
  PROVE  DeskInv'
<1> DEFINE e == [paid[c.of] EXCEPT !.session = "complete"]
<1>0. c.kind = "confirm" /\ c.of \in DOMAIN paid
  BY DEF DeskInv, StripeConfirms, CallApt, ConfirmApt
<1>u. UNCHANGED <<offer, account, modal, route, desk, shownWallet, everShown>>
  BY DEF StripeConfirms
<1>1. CASE /\ paid[c.of].session = "open" /\ Answered(c, "confirmed", 0, {})
           /\ paid' = [paid EXCEPT ![c.of].session = "complete"]
  <2>1. paid[c.of] \in Payments
    BY <1>0, PaidNumbers DEF DeskInv
  <2>2. e \in Payments /\ e.session = "complete"
    BY <2>1 DEF Payments
  <2>3. /\ e.owner = paid[c.of].owner /\ e.terms = paid[c.of].terms
        /\ e.status = paid[c.of].status /\ e.late = paid[c.of].late
    BY <2>1 DEF Payments
  <2>4. paid' = [paid EXCEPT ![c.of] = e]
    BY <1>1
  <2> HIDE DEF e
  <2>5. PaymentsGetOn
    BY <1>0, <2>2, <2>3, <2>4, OneMovesOn
  <2>6. c.of \in DOMAIN paid' /\ paid'[c.of].session = "complete"
    BY <1>0, <2>2, <2>4
  <2>7. PICK d \in DeskCallRecords :
           /\ deskCalls' = (deskCalls \ {c}) \cup {d}
           /\ d.kind = c.kind /\ d.of = c.of /\ d.answer = "confirmed"
    BY <1>1, AnswerGiven DEF DeskAnswers
  <2>8. CallApt(d)'
    BY <1>0, <2>6, <2>7 DEF CallApt, LoadApt, StatusApt, WalletApt, CreateApt, ConfirmApt
  <2> QED
    BY <1>u, <2>5, <2>7, <2>8, AnswerKeeps
<1>2. CASE UNCHANGED paid /\ Answered(c, "error", 0, {})
  BY <1>0, <1>u, <1>2, ReadAnswerKeeps DEF DeskAnswers
<1> QED
  BY <1>1, <1>2 DEF StripeConfirms

LEMMA MovingKeeps ==
  ASSUME DeskInv, PaymentsGetOn, offer' \in [terms : Nat, active : BOOLEAN],
         UNCHANGED <<account, modal, route, desk, deskCalls, shownWallet, everShown>>
  PROVE  DeskInv'
<1>1. (\A c \in deskCalls : CallApt(c)') /\ DeskApt' /\ PaymentsToldTruly'
  BY GettingOnKeeps
<1>2. DeskTypeOK'
  BY DEF DeskInv, DeskTypeOK, PaymentsGetOn
<1> QED
  BY <1>1, <1>2 DEF DeskInv, PaymentsGetOn

LEMMA AgeKeeps ==
  ASSUME DeskInv, NEW n \in DOMAIN paid, SessionAges(n)
  PROVE  DeskInv'
<1> DEFINE e == IF paid[n].late THEN [paid[n] EXCEPT !.session = "expired"]
                ELSE [paid[n] EXCEPT !.late = TRUE]
<1>1. paid[n] \in Payments /\ paid[n].session = "open" /\ paid[n].status # "paid"
  BY PaidNumbers DEF DeskInv, PaidIsComplete, SessionAges
<1>2. /\ e \in Payments /\ e.owner = paid[n].owner /\ e.terms = paid[n].terms
      /\ e.status = paid[n].status /\ (paid[n].late => e.late)
  BY <1>1 DEF Payments
<1>3. paid' = [paid EXCEPT ![n] = e]
  BY DEF SessionAges
<1> HIDE DEF e
<1>4. PaymentsGetOn
  BY <1>1, <1>2, <1>3, OneMovesOn
<1> QED
  BY <1>4, MovingKeeps DEF SessionAges, DeskInv, DeskTypeOK

LEMMA CreditKeeps ==
  ASSUME DeskInv, NEW n \in DOMAIN paid, WebhookCredits(n)
  PROVE  DeskInv'
<1> DEFINE e == [paid[n] EXCEPT !.status = "paid"]
<1>1. paid[n] \in Payments /\ paid[n].session = "complete"
  BY PaidNumbers DEF DeskInv, WebhookCredits
<1>2. /\ e \in Payments /\ e.owner = paid[n].owner /\ e.terms = paid[n].terms
      /\ e.session = paid[n].session /\ e.status = "paid" /\ e.late = paid[n].late
  BY <1>1 DEF Payments
<1>3. paid' = [paid EXCEPT ![n] = e]
  BY DEF WebhookCredits
<1> HIDE DEF e
<1>4. PaymentsGetOn
  BY <1>1, <1>2, <1>3, OneMovesOn
<1> QED
  BY <1>4, MovingKeeps DEF WebhookCredits, DeskInv, DeskTypeOK

-----------------------------------------------------------------------------
(* Leaving a page: what remains of the calls under way. *)

(* A record of a call whose kind, number or visibility is another. *)
LEMMA LeaveIs ==
  ASSUME NEW those, those \subseteq DeskCallRecords, NEW stays \in BOOLEAN,
         NEW d \in Leave(those, stays)
  PROVE  \E c \in those :
           /\ d \in DeskCallRecords /\ d.as = c.as /\ d.answer = c.answer /\ d.data = c.data
           /\ \/ c.kind \in {"create", "confirm"} /\ d.kind = c.kind /\ d.of = c.of
              \/ stays /\ c.kind \in {"packages", "retry"} /\ d = c
              \/ c.kind \in {"wallet", "retry"} /\ d.kind = "wallet" /\ d.of = 0
<1>1. CASE d \in {c \in those : c.kind = "create" \/ (stays /\ c.kind \in {"packages", "retry"})}
  BY <1>1
<1>2. CASE d \in {[c EXCEPT !.shown = FALSE] : c \in {b \in those : b.kind = "confirm"}}
  <2>1. PICK c \in those : c.kind = "confirm" /\ d = [c EXCEPT !.shown = FALSE]
    BY <1>2
  <2>2. c \in DeskCallRecords
    BY <2>1
  <2>3. /\ d \in DeskCallRecords /\ d.as = c.as /\ d.answer = c.answer /\ d.data = c.data
        /\ d.kind = c.kind /\ d.of = c.of
    BY <2>1, <2>2 DEF DeskCallRecords
  <2> QED
    BY <2>1, <2>3
<1>3. CASE d \in {[c EXCEPT !.kind = "wallet", !.of = 0] :
             c \in {b \in those : b.kind = "wallet" \/ (~stays /\ b.kind = "retry")}}
  <2>1. PICK c \in those : /\ c.kind \in {"wallet", "retry"}
                           /\ d = [c EXCEPT !.kind = "wallet", !.of = 0]
    BY <1>3
  <2>2. c \in DeskCallRecords
    BY <2>1
  <2>3. /\ d \in DeskCallRecords /\ d.as = c.as /\ d.answer = c.answer /\ d.data = c.data
        /\ d.kind = "wallet" /\ d.of = 0
    BY <2>1, <2>2 DEF DeskCallRecords
  <2> QED
    BY <2>1, <2>3
<1> QED
  BY <1>1, <1>2, <1>3 DEF Leave

LEMMA LeaveFinite ==
  ASSUME NEW those, IsFiniteSet(those), NEW stays
  PROVE  IsFiniteSet(Leave(those, stays))
<1> DEFINE kept == {c \in those : c.kind = "create" \/ (stays /\ c.kind \in {"packages", "retry"})}
           confirms == {b \in those : b.kind = "confirm"}
           wallets == {b \in those : b.kind = "wallet" \/ (~stays /\ b.kind = "retry")}
           hidden == {[c EXCEPT !.shown = FALSE] : c \in confirms}
           shown == {[c EXCEPT !.kind = "wallet", !.of = 0] : c \in wallets}
<1>1. IsFiniteSet(kept) /\ IsFiniteSet(confirms) /\ IsFiniteSet(wallets)
  BY FS_Subset
<1>2. IsFiniteSet(hidden)
  <2> HIDE DEF confirms
  <2>1. [c \in confirms |-> [c EXCEPT !.shown = FALSE]] \in Surjection(confirms, hidden)
    BY DEF Surjection
  <2> HIDE DEF hidden
  <2> QED
    BY <1>1, <2>1, FS_Surjection
<1>3. IsFiniteSet(shown)
  <2> HIDE DEF wallets
  <2>1. [c \in wallets |-> [c EXCEPT !.kind = "wallet", !.of = 0]] \in Surjection(wallets, shown)
    BY DEF Surjection
  <2> HIDE DEF shown
  <2> QED
    BY <1>1, <2>1, FS_Surjection
<1>4. IsFiniteSet((kept \cup hidden) \cup shown)
  <2> HIDE DEF kept, hidden, shown
  <2> QED
    BY <1>1, <1>2, <1>3, FS_Union
<1>5. Leave(those, stays) = (kept \cup hidden) \cup shown
  BY DEF Leave
<1> QED
  BY <1>4, <1>5

(* What remains is still apt: for the same account wherever the tab goes, and if   *)
(* only those that no account owns remain, for another account too.               *)
LEMMA LeaveKeeps ==
  ASSUME DeskInv, UNCHANGED paid, NEW those, those \subseteq deskCalls, NEW stays \in BOOLEAN,
         stays => route'.page # "checkout",
         NEW d \in Leave(those, stays), account' = account \/ d.kind # "wallet",
         stays => account' = account
  PROVE  d \in DeskCallRecords /\ CallApt(d)'
<1>1. those \subseteq DeskCallRecords
  BY DEF DeskInv, DeskTypeOK
<1>2. PICK c \in those :
           /\ d \in DeskCallRecords /\ d.as = c.as /\ d.answer = c.answer /\ d.data = c.data
           /\ \/ c.kind \in {"create", "confirm"} /\ d.kind = c.kind /\ d.of = c.of
              \/ stays /\ c.kind \in {"packages", "retry"} /\ d = c
              \/ c.kind \in {"wallet", "retry"} /\ d.kind = "wallet" /\ d.of = 0
  BY <1>1, LeaveIs
<1>3. CallApt(c)
  BY DEF DeskInv
<1>4. CASE c.kind \in {"create", "confirm"} /\ d.kind = c.kind /\ d.of = c.of
  BY <1>2, <1>3, <1>4 DEF CallApt, LoadApt, StatusApt, WalletApt, CreateApt, ConfirmApt
<1>5. CASE stays /\ c.kind \in {"packages", "retry"} /\ d = c
  BY <1>2, <1>3, <1>5 DEF CallApt, LoadApt, StatusApt, WalletApt, CreateApt, ConfirmApt
<1>6. CASE c.kind \in {"wallet", "retry"} /\ d.kind = "wallet" /\ d.of = 0
  BY <1>2, <1>3, <1>6 DEF CallApt, LoadApt, StatusApt, WalletApt, CreateApt, ConfirmApt
<1> QED
  BY <1>2, <1>4, <1>5, <1>6

(* Calls that have just been sent. *)
LEMMA SentTyped ==
  ASSUME DeskTypeOK, NEW n \in Nat, NEW k \in Nat,
         NEW asked \in {"packages", "create", "load", "status", "wallet", "retry", "confirm"}
  PROVE  /\ Sent(asked, n, k) \in DeskCallRecords
         /\ Sent(asked, n, k).kind = asked /\ Sent(asked, n, k).of = n
         /\ Sent(asked, n, k).key = k
         /\ Sent(asked, n, k).as = account /\ Sent(asked, n, k).answer = "none"
BY DEF DeskTypeOK, DeskCallRecords, DeskAnswers, Sent

LEMMA PageOpens ==
  ASSUME DeskInv, UNCHANGED <<offer, paid, account, shownWallet, everShown>>,
         NEW page \in {"wallet", "checkout", "verify"}, NEW n \in Nat,
         NEW those, those \subseteq deskCalls, Open(page, n, those),
         page # "wallet" => n \in DOMAIN paid,
         page = "verify" => paid[n].session = "complete"
  PROVE  DeskInv'
<1> DEFINE stays == {page, route.page} \subseteq {"wallet", "verify"}
           kept == Leave(those, stays)
           sent == IF page = "checkout" THEN {Sent("load", n, 0)}
                   ELSE IF page = "verify" THEN {Sent("status", n, 0)} ELSE {}
<1>1. /\ route' = [page |-> page, of |-> n]
      /\ modal' = IF stays THEN modal ELSE NoModal
      /\ desk' = IF page = "checkout" THEN [NoDesk EXCEPT !.form = "loading"]
                 ELSE IF stays THEN [desk EXCEPT !.asks = 0] ELSE NoDesk
      /\ deskCalls' = kept \cup sent
  BY DEF Open
<1>2. stays \in BOOLEAN /\ (stays => page # "checkout" /\ route.page # "checkout")
  OBVIOUS
<1>3. ASSUME NEW d \in kept PROVE d \in DeskCallRecords /\ CallApt(d)'
  <2>1. stays => route'.page # "checkout"
    BY <1>1, <1>2
  <2> HIDE DEF stays
  <2> QED
    BY <1>2, <1>3, <2>1, LeaveKeeps
<1>4. DeskTypeOK
  BY DEF DeskInv
<1>5. ASSUME NEW d \in sent PROVE d \in DeskCallRecords /\ CallApt(d)'
  <2>1. CASE page = "checkout" /\ d = Sent("load", n, 0)
    <3>1. /\ d \in DeskCallRecords /\ d.kind = "load" /\ d.of = n /\ d.as = account
          /\ d.answer = "none"
      BY <1>4, <2>1, SentTyped
    <3> QED
      BY <1>1, <2>1, <3>1 DEF CallApt, LoadApt, StatusApt, WalletApt, CreateApt, ConfirmApt
  <2>2. CASE page = "verify" /\ d = Sent("status", n, 0)
    <3>1. /\ d \in DeskCallRecords /\ d.kind = "status" /\ d.of = n /\ d.as = account
          /\ d.answer = "none"
      BY <1>4, <2>2, SentTyped
    <3> QED
      BY <1>1, <2>2, <3>1 DEF CallApt, LoadApt, StatusApt, WalletApt, CreateApt, ConfirmApt
  <2> QED
    BY <1>5, <2>1, <2>2
<1>6. IsFiniteSet(deskCalls')
  <2>1. IsFiniteSet(those)
    BY <1>4, FS_Subset DEF DeskTypeOK
  <2>2. IsFiniteSet(kept)
    BY <2>1, LeaveFinite
  <2>3. IsFiniteSet(sent)
    BY FS_EmptySet, FS_Singleton
  <2> HIDE DEF kept, sent
  <2> QED
    BY <1>1, <2>2, <2>3, FS_Union
<1>7. /\ route' \in [page : {"wallet", "checkout", "verify"}, of : Nat]
      /\ route'.page = page /\ route'.of = n
  BY <1>1
<1>8. modal' \in [step : {"closed", "choose", "busy"}, seen : Nat, key : Nat]
  BY <1>1, <1>4 DEF DeskTypeOK, NoModal
<1>9. desk' \in DeskRecords /\ DeskApt' /\ PaymentsToldTruly'
  <2>0. DeskApt /\ PaymentsToldTruly /\ PaidIsComplete /\ desk \in DeskRecords
    BY <1>4 DEF DeskInv, DeskTypeOK
  <2>1. CASE page = "checkout"
    <3>1. desk' = [NoDesk EXCEPT !.form = "loading"]
      BY <1>1, <2>1
    <3>2. desk' \in DeskRecords /\ desk'.form = "loading" /\ desk'.notice = "none"
      BY <3>1 DEF NoDesk, DeskRecords
    <3> QED
      BY <1>7, <2>0, <2>1, <3>2 DEF DeskApt, PaymentsToldTruly, PaidIsComplete
  <2>2. CASE page # "checkout" /\ stays
    <3>1. desk' = [desk EXCEPT !.asks = 0]
      BY <1>1, <2>2
    <3>2. /\ desk' \in DeskRecords /\ desk'.form = desk.form /\ desk'.notice = desk.notice
          /\ desk'.about = desk.about
      BY <2>0, <3>1 DEF DeskRecords
    <3>3. desk.form = "none"
      BY <1>2, <2>0, <2>2 DEF DeskApt
    <3>4. DeskApt'
      BY <1>7, <2>0, <2>2, <3>2, <3>3 DEF DeskApt
    <3> QED
      BY <2>0, <3>2, <3>3, <3>4 DEF PaymentsToldTruly
  <2>3. CASE page # "checkout" /\ ~stays
    <3>1. desk' = NoDesk
      BY <1>1, <2>3
    <3>2. desk' \in DeskRecords /\ desk'.form = "none" /\ desk'.notice = "none"
      BY <3>1 DEF NoDesk, DeskRecords
    <3> QED
      BY <1>7, <2>0, <2>3, <3>2 DEF DeskApt, PaymentsToldTruly, PaidIsComplete
  <2> QED
    BY <2>1, <2>2, <2>3
<1> HIDE DEF kept, sent
<1>10. deskCalls' \subseteq DeskCallRecords /\ \A c \in deskCalls' : CallApt(c)'
  BY <1>1, <1>3, <1>5
<1>11. DeskTypeOK'
  BY <1>4, <1>6, <1>7, <1>8, <1>9, <1>10 DEF DeskTypeOK
<1> QED
  BY <1>9, <1>10, <1>11 DEF DeskInv, PaidIsComplete

-----------------------------------------------------------------------------
(* The tab's own steps. *)

(* The page goes on saying what it said. *)
LEMMA SayingKeeps ==
  ASSUME DeskInv, UNCHANGED <<paid, account, route>>, everShown \subseteq everShown',
         \/ desk' = desk
         \/ /\ desk'.form = desk.form /\ desk'.of = desk.of /\ desk'.owner = desk.owner
            /\ desk'.terms = desk.terms /\ desk'.notice = desk.notice /\ desk'.about = desk.about
  PROVE  DeskApt' /\ PaymentsToldTruly'
BY DEF DeskInv, DeskApt, PaymentsToldTruly

(* Calls are sent and settle while the page stays. *)
LEMMA StayKeeps ==
  ASSUME DeskInv, UNCHANGED <<offer, paid, account, route>>,
         modal' \in [step : {"closed", "choose", "busy"}, seen : Nat, key : Nat],
         desk' \in DeskRecords, DeskApt', PaymentsToldTruly',
         shownWallet' \subseteq Nat, everShown' \subseteq Nat,
         NEW rest, rest \subseteq deskCalls,
         NEW new, new \subseteq DeskCallRecords, IsFiniteSet(new),
         \A d \in new : CallApt(d)', deskCalls' = rest \cup new
  PROVE  DeskInv'
<1>1. IsFiniteSet(deskCalls')
  BY FS_Subset, FS_Union DEF DeskInv, DeskTypeOK
<1>2. ASSUME NEW c \in deskCalls PROVE CallApt(c)'
  BY DEF DeskInv, CallApt, LoadApt, StatusApt, WalletApt, CreateApt, ConfirmApt
<1>3. DeskTypeOK'
  BY <1>1 DEF DeskInv, DeskTypeOK
<1> QED
  BY <1>2, <1>3 DEF DeskInv, PaidIsComplete

(* Calls settle, and the page's loading starts again or ends. *)
LEMMA ReloadKeeps ==
  ASSUME DeskInv, UNCHANGED <<offer, paid, account, modal, route, shownWallet, everShown>>,
         route.page = "checkout",
         NEW form \in {"loading", "error", "expired"}, desk' = [NoDesk EXCEPT !.form = form],
         form = "expired" => paid[route.of].late,
         NEW new, new \subseteq DeskCallRecords, IsFiniteSet(new),
         \A d \in new : CallApt(d)', deskCalls' = Leave(deskCalls, FALSE) \cup new
  PROVE  DeskInv'
<1>1. IsFiniteSet(deskCalls')
  BY LeaveFinite, FS_Union DEF DeskInv, DeskTypeOK
<1>2. ASSUME NEW d \in Leave(deskCalls, FALSE) PROVE d \in DeskCallRecords /\ CallApt(d)'
  BY <1>2, LeaveKeeps
<1>3. desk' \in DeskRecords /\ desk'.form = form /\ desk'.notice = "none"
  BY DEF NoDesk, DeskRecords
<1>4. DeskTypeOK'
  BY <1>1, <1>2, <1>3 DEF DeskInv, DeskTypeOK
<1>5. DeskApt' /\ PaymentsToldTruly'
  BY <1>3 DEF DeskInv, DeskApt, PaymentsToldTruly
<1> QED
  BY <1>2, <1>4, <1>5 DEF DeskInv, PaidIsComplete

LEMMA ModalKeeps ==
  ASSUME DeskInv, RefreshWallet \/ OpenModal \/ CloseModal \/ ChangePackage
  PROVE  DeskInv'
<1>0. DeskTypeOK
  BY DEF DeskInv
<1>1. CASE ChangePackage
  <2>1. offer' \in [terms : Nat, active : BOOLEAN]
    <3>1. CASE offer' = [terms |-> offer.terms + 1, active |-> TRUE]
      BY <1>0, <3>1 DEF DeskTypeOK
    <3>2. CASE offer' = [offer EXCEPT !.active = FALSE]
      BY <1>0, <3>2 DEF DeskTypeOK
    <3> QED
      BY <1>1, <3>1, <3>2 DEF ChangePackage
  <2> QED
    BY <1>1, <2>1, PaymentsStay, MovingKeeps DEF ChangePackage
<1>2. CASE RefreshWallet
  <2>1. PICK d \in DeskCallRecords :
        d = Sent("wallet", 0, 0) /\ d.kind = "wallet" /\ d.of = 0
           /\ d.as = account /\ d.answer = "none"
    BY <1>0, SentTyped
  <2>2. CallApt(d)'
    BY <1>2, <2>1 DEF RefreshWallet, CallApt, LoadApt, StatusApt, WalletApt, CreateApt, ConfirmApt
  <2>3. DeskApt' /\ PaymentsToldTruly'
    BY <1>2, SayingKeeps DEF RefreshWallet
  <2>4. deskCalls' = deskCalls \cup {d} /\ IsFiniteSet({d})
    BY <1>2, <2>1, FS_Singleton DEF RefreshWallet
  <2> QED
    BY ZenonT(60), <1>0, <1>2, <2>1, <2>2, <2>3, <2>4, StayKeeps DEF RefreshWallet, DeskTypeOK
<1>3. CASE OpenModal
  <2>1. PICK d \in DeskCallRecords :
        d = Sent("packages", 0, 0) /\ d.kind = "packages"
    BY <1>0, SentTyped
  <2>2. CallApt(d)'
    BY <2>1 DEF CallApt, LoadApt, StatusApt, WalletApt, CreateApt, ConfirmApt
  <2>3. DeskApt' /\ PaymentsToldTruly'
    BY <1>3, SayingKeeps DEF OpenModal
  <2>4. deskCalls' = deskCalls \cup {d} /\ IsFiniteSet({d})
    BY <1>3, <2>1, FS_Singleton DEF OpenModal
  <2>5. modal' \in [step : {"closed", "choose", "busy"}, seen : Nat, key : Nat]
    BY <1>3 DEF OpenModal, NoModal
  <2>6. /\ UNCHANGED <<offer, paid, account, route>> /\ desk' \in DeskRecords
        /\ shownWallet' \subseteq Nat /\ everShown' \subseteq Nat
    BY <1>0, <1>3 DEF OpenModal, DeskTypeOK
  <2> QED
    BY <2>1, <2>2, <2>3, <2>4, <2>5, <2>6, StayKeeps
<1>4. CASE CloseModal
  <2>1. DeskApt' /\ PaymentsToldTruly'
    BY <1>4, SayingKeeps DEF CloseModal
  <2>2. modal' \in [step : {"closed", "choose", "busy"}, seen : Nat, key : Nat]
    BY <1>4 DEF CloseModal, NoModal
  <2>3. deskCalls' = {c \in deskCalls : c.kind # "packages"} \cup {}
    BY <1>4 DEF CloseModal
  <2> QED
    BY <1>0, <1>4, <2>1, <2>2, <2>3, FS_EmptySet, StayKeeps DEF CloseModal, DeskTypeOK
<1> QED
  BY <1>1, <1>2, <1>3, <1>4

LEMMA CheckoutKeeps ==
  ASSUME DeskInv, StartCheckout
  PROVE  DeskInv'
<1> DEFINE creates == {d \in deskCalls : d.kind = "create"}
           keysPaid == {paid[n].key : n \in DOMAIN paid}
           keysSent == {c.key : c \in creates}
           key == IF modal.key # 0 THEN modal.key ELSE 1 + Cardinality(keysPaid \cup keysSent)
<1>0. DeskTypeOK
  BY DEF DeskInv
<1>1. IsFiniteSet(keysPaid)
  <2>1. Len(paid) \in Nat /\ DOMAIN paid = 1..Len(paid)
    BY <1>0, PaidNumbers
  <2>2. IsFiniteSet(DOMAIN paid)
    BY <2>1, FS_Interval
  <2>3. [n \in DOMAIN paid |-> paid[n].key] \in Surjection(DOMAIN paid, keysPaid)
    BY DEF Surjection
  <2> HIDE DEF keysPaid
  <2> QED
    BY <2>2, <2>3, FS_Surjection
<1>2. IsFiniteSet(keysSent)
  <2>1. IsFiniteSet(creates)
    BY <1>0, FS_Subset DEF DeskTypeOK
  <2> HIDE DEF creates
  <2>2. [c \in creates |-> c.key] \in Surjection(creates, keysSent)
    BY DEF Surjection
  <2> HIDE DEF keysSent
  <2> QED
    BY <2>1, <2>2, FS_Surjection
<1>3. Cardinality(keysPaid \cup keysSent) \in Nat
  <2> HIDE DEF keysPaid, keysSent
  <2> QED
    BY <1>1, <1>2, FS_Union, FS_CardinalityType
<1>4. modal' = [modal EXCEPT !.step = "busy", !.key = key]
      /\ deskCalls' = deskCalls \cup {Sent("create", 0, key)}
  BY DEF StartCheckout
<1>5. key \in Nat
  <2> HIDE DEF keysPaid, keysSent
  <2> QED
    BY <1>0, <1>3 DEF DeskTypeOK
<1> HIDE DEF key
<1>6. modal' \in [step : {"closed", "choose", "busy"}, seen : Nat, key : Nat]
  BY <1>0, <1>4, <1>5 DEF DeskTypeOK
<1>7. PICK d \in DeskCallRecords :
        d = Sent("create", 0, key) /\ d.kind = "create" /\ d.answer = "none"
  BY <1>0, <1>5, SentTyped
<1>8. deskCalls' = deskCalls \cup {d} /\ IsFiniteSet({d})
  BY <1>4, <1>7, FS_Singleton
<1>9. CallApt(d)'
  BY <1>7 DEF CallApt, LoadApt, StatusApt, WalletApt, CreateApt, ConfirmApt
<1>10. DeskApt' /\ PaymentsToldTruly'
  BY SayingKeeps DEF StartCheckout
<1>11. /\ UNCHANGED <<offer, paid, account, route>> /\ desk' \in DeskRecords
       /\ shownWallet' \subseteq Nat /\ everShown' \subseteq Nat
  BY <1>0 DEF StartCheckout, DeskTypeOK
<1> QED
  BY <1>6, <1>7, <1>8, <1>9, <1>10, <1>11, StayKeeps

LEMMA FormKeeps ==
  ASSUME DeskInv, RetryLoad \/ LoadTimesOut \/ FormExpires
  PROVE  DeskInv'
<1>0. DeskTypeOK /\ DeskApt /\ PaymentsToldTruly
  BY DEF DeskInv
<1>1. CASE RetryLoad
  <2>1. route.page = "checkout" /\ route.of \in Nat
    BY <1>0, <1>1 DEF RetryLoad, DeskTypeOK
  <2>2. PICK d \in DeskCallRecords :
        d = Sent("load", route.of, 0) /\ d.kind = "load" /\ d.of = route.of
           /\ d.as = account /\ d.answer = "none"
    BY <1>0, <2>1, SentTyped
  <2>3. deskCalls' = Leave(deskCalls, FALSE) \cup {d} /\ IsFiniteSet({d})
    BY <1>1, <2>2, FS_Singleton DEF RetryLoad
  <2>4. CallApt(d)'
    BY <1>1, <2>1, <2>2 DEF RetryLoad, CallApt, LoadApt, StatusApt, WalletApt, CreateApt, ConfirmApt
  <2> QED
    BY <1>1, <2>1, <2>2, <2>3, <2>4, ReloadKeeps DEF RetryLoad
<1>2. CASE LoadTimesOut
  <2>1. route.page = "checkout"
    BY <1>0, <1>2 DEF LoadTimesOut, DeskApt
  <2>2. deskCalls' = Leave(deskCalls, FALSE) \cup {}
    BY <1>2 DEF LoadTimesOut
  <2> QED
    BY <1>2, <2>1, <2>2, FS_EmptySet, ReloadKeeps DEF LoadTimesOut
<1>3. CASE FormExpires
  <2>1. route.page = "checkout" /\ paid[route.of].late
    BY <1>0, <1>3 DEF FormExpires, PaymentsToldTruly
  <2>2. deskCalls' = Leave(deskCalls, FALSE) \cup {}
    BY <1>3 DEF FormExpires
  <2> QED
    BY <1>3, <2>1, <2>2, FS_EmptySet, ReloadKeeps DEF FormExpires
<1> QED
  BY <1>1, <1>2, <1>3

LEMMA AskingKeeps ==
  ASSUME DeskInv, ConfirmPayment \/ RetryRefresh
  PROVE  DeskInv'
<1>0. DeskTypeOK /\ DeskApt /\ PaymentsToldTruly
  BY DEF DeskInv
<1>1. CASE ConfirmPayment
  <2>1. desk.of \in DOMAIN paid /\ desk.of \in Nat
    BY <1>0, <1>1, PaidNumbers DEF ConfirmPayment, DeskApt, PaymentsToldTruly
  <2>2. PICK d \in DeskCallRecords :
        d = Sent("confirm", desk.of, 0) /\ d.kind = "confirm" /\ d.of = desk.of /\ d.answer = "none"
    BY <1>0, <2>1, SentTyped
  <2>3. deskCalls' = deskCalls \cup {d} /\ IsFiniteSet({d})
    BY <1>1, <2>2, FS_Singleton DEF ConfirmPayment
  <2>4. CallApt(d)'
    BY <1>1, <2>1, <2>2
       DEF ConfirmPayment, CallApt, LoadApt, StatusApt, WalletApt, CreateApt, ConfirmApt
  <2>5. /\ desk' \in DeskRecords /\ desk'.form = desk.form /\ desk'.of = desk.of
        /\ desk'.owner = desk.owner /\ desk'.terms = desk.terms
        /\ desk'.notice = desk.notice /\ desk'.about = desk.about
    BY <1>0, <1>1 DEF ConfirmPayment, DeskTypeOK, DeskRecords
  <2>6. DeskApt' /\ PaymentsToldTruly'
    BY <1>1, <2>5, SayingKeeps DEF ConfirmPayment
  <2> QED
    BY ZenonT(60), <1>0, <1>1, <2>2, <2>3, <2>4, <2>5, <2>6, StayKeeps DEF ConfirmPayment, DeskTypeOK
<1>2. CASE RetryRefresh
  <2>1. /\ desk.about \in DOMAIN paid /\ desk.about \in Nat /\ desk.about # 0
        /\ route.page # "checkout" /\ paid[desk.about].owner = account
        /\ paid[desk.about].status = "paid"
    BY <1>0, <1>2, PaidNumbers DEF RetryRefresh, DeskApt, PaymentsToldTruly
  <2>2. PICK d \in DeskCallRecords :
        d = Sent("retry", desk.about, 0) /\ d.kind = "retry" /\ d.of = desk.about
           /\ d.as = account /\ d.answer = "none"
    BY <1>0, <2>1, SentTyped
  <2>3. deskCalls' = deskCalls \cup {d} /\ IsFiniteSet({d})
    BY <1>2, <2>2, FS_Singleton DEF RetryRefresh
  <2>4. CallApt(d)'
    BY <1>2, <2>1, <2>2
       DEF RetryRefresh, CallApt, LoadApt, StatusApt, WalletApt, CreateApt, ConfirmApt
  <2>5. DeskApt' /\ PaymentsToldTruly'
    BY <1>2, SayingKeeps DEF RetryRefresh
  <2> QED
    BY ZenonT(60), <1>0, <1>2, <2>2, <2>3, <2>4, <2>5, StayKeeps DEF RetryRefresh, DeskTypeOK
<1> QED
  BY <1>1, <1>2

LEMMA GoKeeps ==
  ASSUME DeskInv, NEW page \in {"wallet", "checkout"}, NEW n \in Numbers \cup {0}, Go(page, n)
  PROVE  DeskInv'
<1>1. n \in Nat
  BY DeskAssumption DEF Numbers
<1>2. page # "wallet" => n \in DOMAIN paid
  BY DEF Go
<1> QED
  BY <1>1, <1>2, PageOpens DEF Go

LEMMA SwitchKeeps ==
  ASSUME DeskInv, NEW a \in DeskAccounts, SwitchAccount(a)
  PROVE  DeskInv'
<1> DEFINE w == [Sent("wallet", 0, 0) EXCEPT !.as = a]
           l == [Sent("load", route.of, 0) EXCEPT !.as = a]
           left == {c \in Leave(deskCalls, FALSE) : c.kind # "wallet"}
           new == {w} \cup (IF route.page = "checkout" THEN {l} ELSE {})
<1>0. DeskTypeOK /\ DeskApt /\ PaymentsToldTruly /\ route.of \in Nat
  BY DEF DeskInv, DeskTypeOK
<1>1. w \in DeskCallRecords /\ w.kind = "wallet" /\ w.of = 0 /\ w.as = a /\ w.answer = "none"
  BY <1>0, SentTyped DEF DeskCallRecords
<1>2. l \in DeskCallRecords /\ l.kind = "load" /\ l.of = route.of /\ l.as = a /\ l.answer = "none"
  BY <1>0, SentTyped DEF DeskCallRecords
<1>3. deskCalls' = left \cup new
  BY DEF SwitchAccount
<1> HIDE DEF w, l
<1>4. /\ account' = a /\ modal' = NoModal /\ shownWallet' = {} /\ everShown' = {}
      /\ offer' = offer /\ paid' = paid
      /\ route' = IF route.page = "checkout" THEN route ELSE [page |-> "wallet", of |-> 0]
      /\ desk' = IF route.page = "checkout" THEN [NoDesk EXCEPT !.form = "loading"] ELSE NoDesk
  BY DEF SwitchAccount
<1>5. ASSUME NEW d \in left PROVE d \in DeskCallRecords /\ CallApt(d)'
  BY <1>4, <1>5, LeaveKeeps
<1>6. ASSUME NEW d \in new PROVE d \in DeskCallRecords /\ CallApt(d)'
  <2>1. CASE d = w
    BY <1>1, <1>4, <2>1 DEF CallApt, LoadApt, StatusApt, WalletApt, CreateApt, ConfirmApt
  <2>2. CASE route.page = "checkout" /\ d = l
    BY <1>2, <1>4, <2>2 DEF CallApt, LoadApt, StatusApt, WalletApt, CreateApt, ConfirmApt
  <2> QED
    BY <1>6, <2>1, <2>2
<1>7. IsFiniteSet(deskCalls')
  <2>1. IsFiniteSet(left)
    BY <1>0, LeaveFinite, FS_Subset DEF DeskTypeOK
  <2>2. IsFiniteSet(new)
    BY FS_EmptySet, FS_Singleton, FS_Union
  <2> HIDE DEF left, new
  <2> QED
    BY <1>3, <2>1, <2>2, FS_Union
<1>8. desk' \in DeskRecords /\ desk'.notice = "none"
      /\ desk'.form = IF route.page = "checkout" THEN "loading" ELSE "none"
  BY <1>4 DEF NoDesk, DeskRecords
<1>9. DeskApt' /\ PaymentsToldTruly'
  BY <1>0, <1>4, <1>8 DEF DeskInv, PaidIsComplete, DeskApt, PaymentsToldTruly
<1> HIDE DEF left, new
<1>10. DeskTypeOK'
  BY <1>0, <1>3, <1>4, <1>5, <1>6, <1>7, <1>8 DEF DeskTypeOK, NoModal
<1> QED
  BY <1>3, <1>4, <1>5, <1>6, <1>9, <1>10 DEF DeskInv, PaidIsComplete

-----------------------------------------------------------------------------
(* Answers. *)

LEMMA ListsKeep ==
  ASSUME DeskInv, NEW c \in deskCalls, c.answer # "none", ReceivePackages(c) \/ ReceiveCreated(c),
         UNCHANGED <<offer, paid, account, shownWallet, everShown>>
  PROVE  DeskInv'
<1>0. DeskTypeOK /\ c \in DeskCallRecords /\ CallApt(c)
  BY DEF DeskInv, DeskTypeOK
<1>1. CASE ReceiveCreated(c) /\ c.answer = "payment"
  <2>1. c.data \in DOMAIN paid /\ c.data \in Nat
    BY <1>0, <1>1, PaidNumbers DEF ReceiveCreated, CallApt, CreateApt
  <2>2. Open("checkout", c.data, deskCalls \ {c})
    BY <1>1 DEF ReceiveCreated
  <2> QED
    BY <2>1, <2>2, PageOpens
<1>2. CASE ReceivePackages(c) \/ (ReceiveCreated(c) /\ c.answer # "payment")
  <2>1. UNCHANGED <<route, desk>> /\ deskCalls' = (deskCalls \ {c}) \cup {}
    BY <1>2 DEF ReceivePackages, ReceiveCreated
  <2>2. modal' \in [step : {"closed", "choose", "busy"}, seen : Nat, key : Nat]
    <3>1. c.data \in Nat /\ modal \in [step : {"closed", "choose", "busy"}, seen : Nat, key : Nat]
      BY <1>0 DEF DeskTypeOK, DeskCallRecords
    <3>2. \/ modal' = modal \/ modal' = [modal EXCEPT !.seen = c.data]
          \/ modal' = [modal EXCEPT !.step = "choose"]
      BY <1>2 DEF ReceivePackages, ReceiveCreated
    <3> QED
      BY <3>1, <3>2
  <2>3. DeskApt' /\ PaymentsToldTruly'
    BY <2>1, SayingKeeps
  <2>4. desk' \in DeskRecords /\ shownWallet' \subseteq Nat /\ everShown' \subseteq Nat
    BY <1>0, <2>1 DEF DeskTypeOK
  <2> QED
    BY <2>1, <2>2, <2>3, <2>4, FS_EmptySet, StayKeeps
<1> QED
  BY <1>1, <1>2

LEMMA LoadKeeps ==
  ASSUME DeskInv, NEW c \in deskCalls, c.answer # "none", ReceiveLoad(c),
         UNCHANGED <<offer, paid, account, shownWallet, everShown>>
  PROVE  DeskInv'
<1>0. DeskTypeOK /\ c \in DeskCallRecords /\ c.kind = "load" /\ LoadApt(c) /\ DeskApt
  BY DEF DeskInv, DeskTypeOK, CallApt, ReceiveLoad
<1>1. /\ c.as = account /\ route.page = "checkout" /\ c.of = route.of /\ c.of \in DOMAIN paid
      /\ c.answer \in {"error", "open", "complete"}
      /\ c.answer = "open" => paid[c.of].owner = account /\ c.data = paid[c.of].terms
      /\ c.answer = "complete" => paid[c.of].session = "complete"
  BY <1>0 DEF LoadApt, DeskApt
<1>2. c.of \in Nat /\ c.data \in Nat
  BY <1>0 DEF DeskCallRecords
<1>3. CASE c.answer = "complete"
  BY <1>1, <1>2, <1>3, PageOpens DEF ReceiveLoad
<1>4. CASE c.answer # "complete"
  <2>1. UNCHANGED <<modal, route>> /\ deskCalls' = (deskCalls \ {c}) \cup {}
    BY <1>4 DEF ReceiveLoad
  <2>2. desk' \in DeskRecords /\ DeskApt' /\ PaymentsToldTruly'
    <3>1. CASE c.answer = "error"
      <4>1. desk' = [NoDesk EXCEPT !.form = "error"]
        BY <3>1 DEF ReceiveLoad
      <4>2. desk' \in DeskRecords /\ desk'.form = "error" /\ desk'.notice = "none"
        BY <4>1 DEF NoDesk, DeskRecords
      <4> QED
        BY <1>0, <1>1, <2>1, <4>2 DEF DeskInv, PaidIsComplete, DeskApt, PaymentsToldTruly
    <3>2. CASE c.answer = "open"
      <4>1. desk' = [NoDesk EXCEPT !.form = "form", !.of = c.of, !.terms = c.data, !.owner = c.as]
        BY <3>2 DEF ReceiveLoad
      <4>2. /\ desk' \in DeskRecords /\ desk'.form = "form" /\ desk'.notice = "none"
            /\ desk'.of = c.of /\ desk'.terms = c.data /\ desk'.owner = c.as
        BY <1>0, <1>1, <1>2, <4>1 DEF NoDesk, DeskRecords, DeskTypeOK
      <4> QED
        BY <1>0, <1>1, <2>1, <3>2, <4>2 DEF DeskInv, PaidIsComplete, DeskApt, PaymentsToldTruly
    <3> QED
      BY <1>1, <1>4, <3>1, <3>2
  <2>3. /\ modal' \in [step : {"closed", "choose", "busy"}, seen : Nat, key : Nat]
        /\ shownWallet' \subseteq Nat /\ everShown' \subseteq Nat
    BY <1>0, <2>1 DEF DeskTypeOK
  <2> QED
    BY <2>1, <2>2, <2>3, FS_EmptySet, StayKeeps
<1> QED
  BY <1>3, <1>4

LEMMA ConfirmedKeeps ==
  ASSUME DeskInv, NEW c \in deskCalls, c.answer # "none", ReceiveConfirmed(c),
         UNCHANGED <<offer, paid, account, shownWallet, everShown>>
  PROVE  DeskInv'
<1>0. DeskTypeOK /\ c \in DeskCallRecords /\ c.kind = "confirm" /\ ConfirmApt(c)
  BY DEF DeskInv, DeskTypeOK, CallApt, ReceiveConfirmed
<1>1. CASE c.answer = "confirmed"
  <2>1. c.of \in Nat /\ c.of \in DOMAIN paid /\ paid[c.of].session = "complete"
    BY <1>0, <1>1 DEF DeskCallRecords, ConfirmApt
  <2> QED
    BY <1>1, <2>1, PageOpens DEF ReceiveConfirmed
<1>2. CASE c.answer # "confirmed"
  <2>1. UNCHANGED <<modal, route>> /\ deskCalls' = (deskCalls \ {c}) \cup {}
    BY <1>2 DEF ReceiveConfirmed
  <2>2. /\ desk' \in DeskRecords /\ desk'.form = desk.form /\ desk'.of = desk.of
        /\ desk'.owner = desk.owner /\ desk'.terms = desk.terms
        /\ desk'.notice = desk.notice /\ desk'.about = desk.about
    <3>1. desk \in DeskRecords
      BY <1>0 DEF DeskTypeOK
    <3>2. desk' = desk \/ desk' = [desk EXCEPT !.busy = FALSE]
      BY <1>2 DEF ReceiveConfirmed
    <3> QED
      BY <3>1, <3>2 DEF DeskRecords
  <2>3. DeskApt' /\ PaymentsToldTruly'
    BY <2>1, <2>2, SayingKeeps
  <2>4. /\ modal' \in [step : {"closed", "choose", "busy"}, seen : Nat, key : Nat]
        /\ shownWallet' \subseteq Nat /\ everShown' \subseteq Nat
    BY <1>0, <2>1 DEF DeskTypeOK
  <2> QED
    BY <2>1, <2>2, <2>3, <2>4, FS_EmptySet, StayKeeps
<1> QED
  BY <1>1, <1>2

(* The page tells of a payment: only a page that shows no form does. *)
LEMMA TellingKeeps ==
  ASSUME DeskInv, UNCHANGED <<paid, account>>, route'.page # "checkout", route.page # "checkout",
         route'.page # "wallet" => route'.of \in DOMAIN paid,
         everShown \subseteq everShown',
         NEW notice \in {"unknown", "verifying", "refreshed", "unrefreshed"},
         NEW n \in DOMAIN paid, NEW asks \in Nat,
         desk' = [desk EXCEPT !.notice = notice, !.about = n, !.asks = asks],
         notice \in {"refreshed", "unrefreshed"} =>
           paid[n].status = "paid" /\ paid[n].owner = account,
         notice = "refreshed" => n \in everShown',
         notice = "verifying" => paid[n].session = "complete"
  PROVE  desk' \in DeskRecords /\ DeskApt' /\ PaymentsToldTruly'
<1>0. desk \in DeskRecords /\ desk.form = "none" /\ n \in Nat /\ PaidIsComplete
  BY PaidNumbers DEF DeskInv, DeskTypeOK, DeskApt
<1>1. desk' \in DeskRecords /\ desk'.form = "none" /\ desk'.notice = notice /\ desk'.about = n
  BY <1>0 DEF DeskRecords
<1>2. DeskApt'
  BY <1>1 DEF DeskApt
<1>3. PaymentsToldTruly'
  BY <1>0, <1>1 DEF PaymentsToldTruly, PaidIsComplete
<1> QED
  BY <1>1, <1>2, <1>3

LEMMA StatusKeeps ==
  ASSUME DeskInv, NEW c \in deskCalls, c.answer # "none", ReceiveStatus(c),
         UNCHANGED <<offer, paid, account, shownWallet, everShown>>
  PROVE  DeskInv'
<1> DEFINE rest == deskCalls \ {c}
<1>0. DeskTypeOK /\ c \in DeskCallRecords /\ c.kind = "status" /\ StatusApt(c) /\ DeskApt
  BY DEF DeskInv, DeskTypeOK, CallApt, ReceiveStatus
<1>1. /\ c.as = account /\ route.page # "checkout"
      /\ c.of \in DOMAIN paid /\ c.of \in Nat /\ c.of # 0 /\ paid[c.of].session = "complete"
      /\ c.answer \notin {"none", "error"} => paid[c.of].owner = account
      /\ c.answer = "paid" => paid[c.of].status = "paid"
  BY <1>0, PaidNumbers DEF StatusApt
<1>2. /\ UNCHANGED <<modal, route>>
      /\ modal' \in [step : {"closed", "choose", "busy"}, seen : Nat, key : Nat]
      /\ shownWallet' \subseteq Nat /\ everShown' \subseteq Nat /\ everShown \subseteq everShown'
      /\ desk.asks + 1 \in Nat /\ desk \in DeskRecords
  BY <1>0 DEF ReceiveStatus, DeskTypeOK, DeskRecords
<1>3. route'.page # "checkout" /\ (route'.page # "wallet" => route'.of \in DOMAIN paid)
  BY <1>0, <1>1, <1>2 DEF DeskApt
<1>4. CASE c.answer = "error"
  <2>1. /\ desk' = [desk EXCEPT !.notice = "unknown", !.about = c.of, !.asks = desk.asks + 1]
        /\ deskCalls' = rest \cup {}
    BY <1>4 DEF ReceiveStatus
  <2>2. desk' \in DeskRecords /\ DeskApt' /\ PaymentsToldTruly'
    BY <1>1, <1>2, <1>3, <2>1, TellingKeeps
  <2> QED
    BY <1>2, <2>1, <2>2, FS_EmptySet, StayKeeps
<1>5. CASE c.answer = "paid"
  <2>1. PICK d \in DeskCallRecords :
          /\ d = Sent("wallet", c.of, 0) /\ d.kind = "wallet" /\ d.of = c.of
          /\ d.as = account /\ d.answer = "none"
    BY <1>0, <1>1, SentTyped
  <2>2. deskCalls' = rest \cup {d} /\ UNCHANGED desk /\ IsFiniteSet({d})
    BY <1>5, <2>1, FS_Singleton DEF ReceiveStatus
  <2>3. CallApt(d)'
    BY <1>1, <1>2, <1>5, <2>1 DEF CallApt, LoadApt, StatusApt, WalletApt, CreateApt, ConfirmApt
  <2>4. desk' \in DeskRecords /\ DeskApt' /\ PaymentsToldTruly'
    BY <1>2, <2>2, SayingKeeps
  <2> QED
    BY <1>2, <2>1, <2>2, <2>3, <2>4, StayKeeps
<1>6. CASE c.answer \notin {"error", "paid"}
  <2>1. /\ desk' = [desk EXCEPT !.notice = "verifying", !.about = c.of, !.asks = desk.asks + 1]
        /\ deskCalls' = rest \cup {} \/ deskCalls' = rest \cup {Sent("status", c.of, 0)}
    BY <1>6 DEF ReceiveStatus
  <2>2. desk' \in DeskRecords /\ DeskApt' /\ PaymentsToldTruly'
    BY <1>1, <1>2, <1>3, <2>1, TellingKeeps
  <2>3. CASE deskCalls' = rest \cup {}
    BY <1>2, <2>2, <2>3, FS_EmptySet, StayKeeps
  <2>4. CASE deskCalls' = rest \cup {Sent("status", c.of, 0)}
    <3>1. PICK d \in DeskCallRecords :
            /\ d = Sent("status", c.of, 0) /\ d.kind = "status" /\ d.of = c.of
            /\ d.as = account /\ d.answer = "none"
      BY <1>0, <1>1, SentTyped
    <3>2. deskCalls' = rest \cup {d} /\ IsFiniteSet({d})
      BY <2>4, <3>1, FS_Singleton
    <3>3. CallApt(d)'
      BY <1>1, <1>2, <3>1 DEF CallApt, LoadApt, StatusApt, WalletApt, CreateApt, ConfirmApt
    <3> QED
      BY <1>2, <2>2, <3>1, <3>2, <3>3, StayKeeps
  <2> QED
    BY <2>1, <2>3, <2>4
<1> QED
  BY <1>4, <1>5, <1>6

LEMMA WalletKeeps ==
  ASSUME DeskInv, NEW c \in deskCalls, c.answer # "none", ReceiveWallet(c),
         UNCHANGED <<offer, paid, account>>
  PROVE  DeskInv'
<1>0. /\ DeskTypeOK /\ c \in DeskCallRecords /\ c.kind \in {"wallet", "retry"}
      /\ WalletApt(c) /\ DeskApt
  BY DEF DeskInv, DeskTypeOK, CallApt, ReceiveWallet
<1>1. /\ c.answer \in {"error", "read"} /\ c.credits \subseteq Nat /\ c.of \in Nat
      /\ desk \in DeskRecords
  BY <1>0 DEF WalletApt, DeskCallRecords, DeskTypeOK
<1>2. /\ shownWallet' \subseteq Nat /\ everShown' \subseteq Nat /\ everShown \subseteq everShown'
      /\ c.answer = "read" => c.credits \subseteq everShown'
      /\ modal' \in [step : {"closed", "choose", "busy"}, seen : Nat, key : Nat]
      /\ deskCalls' = deskCalls \ {c}
  <2>1. CASE c.answer = "read"
    BY <1>0, <1>1, <2>1 DEF ReceiveWallet, DeskTypeOK
  <2>2. CASE c.answer # "read"
    BY <1>0, <1>1, <2>2 DEF ReceiveWallet, DeskTypeOK
  <2> QED
    BY <2>1, <2>2
<1>3. CASE c.of = 0
  <2>1. UNCHANGED <<route, desk>> /\ deskCalls' = (deskCalls \ {c}) \cup {}
    BY <1>2, <1>3 DEF ReceiveWallet
  <2>2. DeskApt' /\ PaymentsToldTruly' /\ desk' \in DeskRecords
    BY <1>1, <1>2, <2>1, SayingKeeps
  <2> QED
    BY <1>2, <2>1, <2>2, FS_EmptySet, StayKeeps
<1>4. CASE c.of # 0
  <2>1. /\ desk' = [desk EXCEPT !.notice = Told(c), !.about = c.of]
        /\ route' = IF c.kind = "wallet" THEN [page |-> "wallet", of |-> 0] ELSE route
    BY <1>4 DEF ReceiveWallet
  <2>2. /\ route.page # "checkout" /\ c.of \in DOMAIN paid
        /\ paid[c.of].status = "paid" /\ paid[c.of].owner = account
        /\ c.answer = "read" => c.of \in c.credits
    BY <1>0, <1>4 DEF WalletApt
  <2>3. /\ route' \in [page : {"wallet", "checkout", "verify"}, of : Nat]
        /\ route'.page # "checkout" /\ (route'.page # "wallet" => route'.of \in DOMAIN paid)
    BY <1>0, <2>1, <2>2 DEF DeskTypeOK, DeskApt
  <2>4. /\ desk' = [desk EXCEPT !.notice = Told(c), !.about = c.of, !.asks = desk.asks]
        /\ desk.asks \in Nat
    BY <1>1, <2>1 DEF DeskRecords
  <2>5. Told(c) \in {"refreshed", "unrefreshed"} /\ (Told(c) = "refreshed" => c.of \in everShown')
    BY <1>1, <1>2, <2>2 DEF Told
  <2>6. desk' \in DeskRecords /\ DeskApt' /\ PaymentsToldTruly'
    BY <1>2, <2>2, <2>3, <2>4, <2>5, TellingKeeps
  <2>7. ASSUME NEW d \in deskCalls PROVE CallApt(d)'
    <3>1. CallApt(d) /\ route.page # "checkout"
      BY <2>2 DEF DeskInv
    <3> QED
      BY <2>3, <3>1 DEF CallApt, LoadApt, StatusApt, WalletApt, CreateApt, ConfirmApt
  <2>8. DeskTypeOK'
    BY <1>0, <1>2, <2>3, <2>6, FS_RemoveElement DEF DeskTypeOK
  <2> QED
    BY <1>2, <2>6, <2>7, <2>8 DEF DeskInv, PaidIsComplete
<1> QED
  BY <1>3, <1>4

LEMMA DeskInvStep == DeskInv /\ [DeskNext]_deskVars => DeskInv'
<1> SUFFICES ASSUME DeskInv, [DeskNext]_deskVars PROVE DeskInv'
  OBVIOUS
<1>1. CASE UNCHANGED deskVars
  BY <1>1, PaymentsStay, MovingKeeps DEF deskVars, DeskInv, DeskTypeOK
<1>2. CASE RefreshWallet \/ OpenModal \/ CloseModal \/ ChangePackage
  BY <1>2, ModalKeeps
<1>3. CASE StartCheckout
  BY <1>3, CheckoutKeeps
<1>4. CASE RetryLoad \/ LoadTimesOut \/ FormExpires
  BY <1>4, FormKeeps
<1>5. CASE ConfirmPayment \/ RetryRefresh
  BY <1>5, AskingKeeps
<1>6. CASE \E a \in DeskAccounts : SwitchAccount(a)
  BY <1>6, SwitchKeeps
<1>7. CASE \E page \in {"wallet", "checkout"}, n \in Numbers \cup {0} : Go(page, n)
  BY <1>7, GoKeeps
<1>8. CASE \E n \in DOMAIN paid : SessionAges(n) \/ WebhookCredits(n)
  BY <1>8, AgeKeeps, CreditKeeps
<1>9. ASSUME NEW c \in deskCalls,
             \/ ServeCreate(c) \/ ServeLoad(c) \/ ServeRead(c) \/ StripeConfirms(c)
             \/ LoseCall(c)
      PROVE  DeskInv'
  BY <1>9, ServeCreateKeeps, ServeLoadKeeps, ServeReadKeeps, StripeKeeps, LoseKeeps
<1>10. ASSUME NEW c \in deskCalls, Receive(c) PROVE DeskInv'
  <2>1. c.answer # "none" /\ UNCHANGED <<offer, paid, account>>
    BY <1>10 DEF Receive
  <2>2. CASE /\ ReceivePackages(c) \/ ReceiveCreated(c) \/ ReceiveLoad(c)
                \/ ReceiveConfirmed(c) \/ ReceiveStatus(c)
             /\ UNCHANGED <<shownWallet, everShown>>
    BY <2>1, <2>2, ListsKeep, LoadKeeps, ConfirmedKeeps, StatusKeeps
  <2>3. CASE ReceiveWallet(c)
    BY <2>1, <2>3, WalletKeeps
  <2> QED
    BY <1>10, <2>2, <2>3 DEF Receive
<1> QED
  BY <1>1, <1>2, <1>3, <1>4, <1>5, <1>6, <1>7, <1>8, <1>9, <1>10 DEF DeskNext

(* For any accounts, payments, terms and calls under way: what a tab says of a     *)
(* payment is so, whichever answers are lost or late and whoever is signed in when *)
(* they come (WalletAdminPages.jsx:49-97, TopUpCheckoutPage.jsx:37-85).            *)
THEOREM PaymentsAlwaysToldTruly == DeskSpec => []PaymentsToldTruly
<1>1. DeskInv => PaymentsToldTruly
  BY DEF DeskInv
<1> QED
  BY DeskInvInit, DeskInvStep, <1>1, PTL DEF DeskSpec

-----------------------------------------------------------------------------
(* Long lists: what a walk has read, whichever way its list is continued.     *)

(* The order of a list: rows have times, and what has the same is told apart *)
(* by its id.                                                               *)
RowsTyped ==
  /\ list \in ListKinds
  /\ at \in [ListRows -> Nat]
  /\ list \notin {"reports", "courses"} => \A r \in ListRows : at[r] # Undated
  /\ listed \in SUBSET ListRows /\ standing \in SUBSET listed

LEMMA RowsAreNumbers ==
  ListRows \subseteq Nat \ {0} /\ IsFiniteSet(ListRows) /\ PageSize \in Nat \ {0} /\ Micros \in Nat \ {0}
<1> QED
  BY ListAssumption DEF ListAssumption

LEMMA AheadOrders ==
  ASSUME RowsTyped
  PROVE  /\ \A r \in ListRows : ~Ahead(r, r)
         /\ \A r, s \in ListRows : r = s \/ Ahead(r, s) \/ Ahead(s, r)
         /\ \A r, s, t \in ListRows : Ahead(r, s) /\ Ahead(s, t) => Ahead(r, t)
<1>1. \A r \in ListRows : r \in Nat /\ at[r] \in Nat
  BY RowsAreNumbers DEF RowsTyped
<1>2. CASE list \in Offset \cup Unpaged
  BY <1>1, <1>2 DEF Ahead
<1>3. CASE list \notin Offset \cup Unpaged
  BY <1>1, <1>3 DEF Ahead
<1> QED
  BY <1>2, <1>3

LEMMA RowsFinite ==
  ASSUME NEW S \in SUBSET ListRows
  PROVE  IsFiniteSet(S) /\ Cardinality(S) \in Nat
<1> QED
  BY RowsAreNumbers, FS_Subset, FS_CardinalityType

LEMMA RowsAheadOf ==
  ASSUME NEW S \in SUBSET ListRows, NEW r
  PROVE  RowsAhead(r, S) \in Nat
<1> QED
  BY RowsFinite DEF RowsAhead

(* Of two rows, the one ahead has fewer ahead of it. *)
LEMMA AheadCounts ==
  ASSUME RowsTyped, NEW S \in SUBSET ListRows, NEW r \in S, NEW t \in ListRows, Ahead(r, t)
  PROVE  RowsAhead(r, S) < RowsAhead(t, S)
<1> DEFINE A == {s \in S : Ahead(s, r)}
           B == {s \in S : Ahead(s, t)}
<1>1. A \cup {r} \subseteq B /\ r \notin A
  BY AheadOrders
<1>2. IsFiniteSet(A) /\ IsFiniteSet(B) /\ Cardinality(A) \in Nat /\ Cardinality(B) \in Nat
  BY RowsFinite
<1>3. Cardinality(A \cup {r}) = Cardinality(A) + 1
  BY <1>1, <1>2, FS_AddElement
<1>4. Cardinality(A \cup {r}) <= Cardinality(B)
  BY <1>1, <1>2, FS_Subset
<1> QED
  BY <1>2, <1>3, <1>4 DEF RowsAhead

LEMMA CountsTellAhead ==
  ASSUME RowsTyped, NEW S \in SUBSET ListRows, NEW r \in S, NEW t \in S
  PROVE  /\ RowsAhead(r, S) < RowsAhead(t, S) => Ahead(r, t)
         /\ RowsAhead(r, S) = RowsAhead(t, S) => r = t
<1>1. RowsAhead(r, S) \in Nat /\ RowsAhead(t, S) \in Nat
  BY RowsAheadOf
<1>2. r = t \/ Ahead(r, t) \/ Ahead(t, r)
  BY AheadOrders
<1>3. Ahead(r, t) => RowsAhead(r, S) < RowsAhead(t, S)
  BY AheadCounts
<1>4. Ahead(t, r) => RowsAhead(t, S) < RowsAhead(r, S)
  BY AheadCounts
<1> QED
  BY <1>1, <1>2, <1>3, <1>4

(* Every number below that of the rows is that of one row. *)
LEMMA CountsAreAll ==
  ASSUME RowsTyped, NEW S \in SUBSET ListRows
  PROVE  {RowsAhead(r, S) : r \in S} = 0..(Cardinality(S) - 1)
<1> DEFINE n == Cardinality(S)
           f == [r \in S |-> RowsAhead(r, S)]
           N == {RowsAhead(r, S) : r \in S}
<1>1. IsFiniteSet(S) /\ n \in Nat
  BY RowsFinite
<1>2. N \subseteq 0..(n - 1)
  <2> SUFFICES ASSUME NEW r \in S PROVE RowsAhead(r, S) \in 0..(n - 1)
    OBVIOUS
  <2>1. RowsAhead(r, S) \in Nat
    BY RowsAheadOf
  <2>2. RowsAhead(r, S) < n
    <3> DEFINE A == {s \in S : Ahead(s, r)}
    <3>1. A \in SUBSET S /\ r \notin A
      BY AheadOrders
    <3>2. A # S
      BY <3>1
    <3>3. Cardinality(A) <= n /\ (Cardinality(A) = n => A = S)
      BY <1>1, <3>1, FS_Subset
    <3> QED
      BY <1>1, <2>1, <3>2, <3>3 DEF RowsAhead
  <2> QED
    BY <1>1, <2>1, <2>2
<1>3. f \in Bijection(S, N)
  <2>1. f \in [S -> N]
    OBVIOUS
  <2>2. \A r, t \in S : f[r] = f[t] => r = t
    BY CountsTellAhead
  <2>3. \A m \in N : \E r \in S : f[r] = m
    OBVIOUS
  <2> QED
    BY <2>1, <2>2, <2>3 DEF Bijection, Injection, Surjection, IsInjective
<1>4. IsFiniteSet(N) /\ Cardinality(N) = n
  BY <1>1, <1>3, FS_Bijection DEF ExistsBijection
<1>5. IsFiniteSet(0..(n - 1)) /\ Cardinality(0..(n - 1)) = n
  <2>1. 0 \in Int /\ n - 1 \in Int
    BY <1>1
  <2>2. IsFiniteSet(0..(n - 1)) /\ Cardinality(0..(n - 1)) = IF 0 > n - 1 THEN 0 ELSE n - 1 - 0 + 1
    BY <2>1, FS_Interval
  <2> QED
    BY <1>1, <2>2
<1> QED
  BY <1>2, <1>4, <1>5, FS_Subset

(* The rows in order: all of them, each once, from the first to the last.  *)
LEMMA InOrderFacts ==
  ASSUME RowsTyped, NEW S \in SUBSET ListRows
  PROVE  /\ InOrder(S) \in Seq(S) /\ Len(InOrder(S)) = Cardinality(S)
         /\ ToSet(InOrder(S)) = S
         /\ \A i, j \in DOMAIN InOrder(S) : i < j => Ahead(InOrder(S)[i], InOrder(S)[j])
<1> DEFINE n == Cardinality(S)
           s == InOrder(S)
<1>1. n \in Nat
  BY RowsFinite
<1>2. \A k \in 1..n : s[k] \in S /\ RowsAhead(s[k], S) = k - 1
  <2> SUFFICES ASSUME NEW k \in 1..n PROVE s[k] \in S /\ RowsAhead(s[k], S) = k - 1
    OBVIOUS
  <2>1. k - 1 \in 0..(n - 1)
    BY <1>1
  <2>2. \E r \in S : RowsAhead(r, S) = k - 1
    BY <2>1, CountsAreAll
  <2>3. s[k] = CHOOSE r \in S : RowsAhead(r, S) = k - 1
    BY DEF InOrder
  <2> QED
    BY <2>2, <2>3
<1>3. DOMAIN s = 1..n
  BY DEF InOrder
<1>4. s \in [1..n -> S]
  BY <1>2 DEF InOrder
<1>5. s \in Seq(S) /\ Len(s) = n
  BY <1>1, <1>4
<1>6. ToSet(s) = S
  <2>1. ASSUME NEW r \in S PROVE \E k \in 1..n : s[k] = r
    <3>1. RowsAhead(r, S) \in 0..(n - 1)
      BY CountsAreAll
    <3>2. RowsAhead(r, S) + 1 \in 1..n
      BY <1>1, <3>1
    <3>3. s[RowsAhead(r, S) + 1] \in S /\ RowsAhead(s[RowsAhead(r, S) + 1], S) = RowsAhead(r, S)
      BY <1>2, <3>1, <3>2
    <3>4. s[RowsAhead(r, S) + 1] = r
      BY <3>3, CountsTellAhead
    <3> QED
      BY <3>2, <3>4
  <2> QED
    BY <1>2, <1>3, <2>1 DEF ToSet
<1>7. ASSUME NEW i \in 1..n, NEW j \in 1..n, i < j PROVE Ahead(s[i], s[j])
  <2>1. s[i] \in S /\ s[j] \in S /\ RowsAhead(s[i], S) < RowsAhead(s[j], S)
    BY <1>2, <1>7
  <2> QED
    BY <2>1, CountsTellAhead
<1> QED
  BY <1>3, <1>5, <1>6, <1>7

(* A window of the numbers holds no more rows than it is wide, and as many if *)
(* the rows reach beyond it.                                                *)
LEMMA WindowHolds ==
  ASSUME RowsTyped, NEW S \in SUBSET ListRows, NEW a \in Nat, NEW w \in Nat, NEW W,
         W = {r \in S : RowsAhead(r, S) \in a..(a + w - 1)}
  PROVE  /\ Cardinality(W) <= w
         /\ Cardinality(S) >= a + w => Cardinality(W) = w
<1> DEFINE b == a + w - 1
           f == [r \in W |-> RowsAhead(r, S)]
<1>1. Cardinality(S) \in Nat /\ IsFiniteSet(S)
  BY RowsFinite
<1>2. IsFiniteSet(a..b) /\ Cardinality(a..b) = w
  <2>1. a \in Int /\ b \in Int /\ w = IF a > b THEN 0 ELSE b - a + 1
    OBVIOUS
  <2>2. IsFiniteSet(a..b) /\ Cardinality(a..b) = IF a > b THEN 0 ELSE b - a + 1
    BY <2>1, FS_Interval
  <2> QED
    BY <2>1, <2>2
<1>3. f \in Injection(W, a..b)
  <2>1. f \in [W -> a..b]
    OBVIOUS
  <2>2. \A r, t \in W : f[r] = f[t] => r = t
    BY CountsTellAhead
  <2> QED
    BY <2>1, <2>2 DEF Injection, IsInjective
<1>4. Cardinality(W) <= w /\ (f \in Surjection(W, a..b) => Cardinality(W) = w)
  BY <1>2, <1>3, FS_Injection
<1>5. ASSUME Cardinality(S) >= a + w PROVE f \in Surjection(W, a..b)
  <2>1. ASSUME NEW k \in a..b PROVE \E r \in W : f[r] = k
    <3>1. k \in 0..(Cardinality(S) - 1)
      BY <1>1, <1>5
    <3>2. PICK r \in S : RowsAhead(r, S) = k
      BY <3>1, CountsAreAll
    <3> QED
      BY <3>2
  <2>2. f \in [W -> a..b]
    OBVIOUS
  <2> QED
    BY <2>1, <2>2 DEF Surjection
<1> QED
  BY <1>4, <1>5

(* An answer: a page of the rows that follow, in order; what is left out is *)
(* before its window, or behind all of a full page.                         *)
LEMMA PageFacts ==
  ASSUME RowsTyped, Skipped \in Nat
  PROVE  /\ Rest \in SUBSET listed /\ PageRows \in SUBSET Rest /\ PageRows \in SUBSET ListRows
         /\ Cardinality(PageRows) \in Nat /\ Cardinality(PageRows) <= PageSize
         /\ \A r \in Rest \ PageRows :
              \/ RowsAhead(r, Rest) < Skipped
              \/ Cardinality(PageRows) = PageSize /\ \A s \in PageRows : Ahead(s, r)
         /\ Skipped = 0 /\ Cardinality(Rest) <= PageSize => PageRows = Rest
<1>1. PageSize \in Nat \ {0} /\ Rest \in SUBSET listed /\ PageRows \in SUBSET Rest
  BY RowsAreNumbers DEF Rest, PageRows
<1>2. Rest \in SUBSET ListRows /\ PageRows \in SUBSET ListRows
  BY <1>1 DEF RowsTyped
<1>3. Cardinality(PageRows) \in Nat /\ Cardinality(Rest) \in Nat
  BY <1>2, RowsFinite
<1>4. /\ Cardinality(PageRows) <= PageSize
      /\ Cardinality(Rest) >= Skipped + PageSize => Cardinality(PageRows) = PageSize
  <2>1. PageRows = {r \in Rest : RowsAhead(r, Rest) \in Skipped..(Skipped + PageSize - 1)}
    BY DEF PageRows
  <2> QED
    BY ZenonT(60), <1>1, <1>2, <2>1, WindowHolds
<1>5. ASSUME NEW r \in Rest \ PageRows, ~(RowsAhead(r, Rest) < Skipped)
      PROVE  Cardinality(PageRows) = PageSize /\ \A s \in PageRows : Ahead(s, r)
  <2>1. RowsAhead(r, Rest) \in 0..(Cardinality(Rest) - 1)
    BY <1>2, CountsAreAll
  <2>2. RowsAhead(r, Rest) > Skipped + PageSize - 1
    BY <1>1, <1>5, <2>1 DEF PageRows
  <2>3. Cardinality(PageRows) = PageSize
    BY <1>1, <1>3, <1>4, <2>1, <2>2
  <2>4. ASSUME NEW s \in PageRows PROVE Ahead(s, r)
    <3>1. s \in Rest /\ RowsAhead(s, Rest) \in Skipped..(Skipped + PageSize - 1)
      BY DEF PageRows
    <3>2. RowsAhead(s, Rest) < RowsAhead(r, Rest)
      BY <1>1, <2>1, <2>2, <3>1
    <3> QED
      BY <1>2, <3>1, <3>2, CountsTellAhead
  <2> QED
    BY <2>3, <2>4
<1>6. ASSUME Skipped = 0, Cardinality(Rest) <= PageSize PROVE PageRows = Rest
  <2>1. ASSUME NEW r \in Rest PROVE r \in PageRows
    <3>1. RowsAhead(r, Rest) \in 0..(Cardinality(Rest) - 1)
      BY <1>2, CountsAreAll
    <3> QED
      BY <1>1, <1>3, <1>6, <3>1 DEF PageRows
  <2> QED
    BY <1>1, <2>1
<1> QED
  BY <1>1, <1>2, <1>3, <1>4, <1>5, <1>6

(* The time as it is displayed (pagination-timestamps.ts:1-18). *)
LEMMA MilliFacts ==
  ASSUME NEW a \in Nat, NEW b \in Nat, a <= b
  PROVE  /\ Milli(b) \in Nat /\ Milli(b) <= b
         /\ Milli(b) <= a => Milli(a) = Milli(b)
<1> DEFINE q == a \div Micros
           r == a % Micros
           p == b \div Micros
           t == b % Micros
<1>0. Micros \in Nat \ {0}
  BY RowsAreNumbers
<1>1. q \in Nat /\ r \in 0..(Micros - 1) /\ a = q * Micros + r
  BY <1>0
<1>2. p \in Nat /\ t \in 0..(Micros - 1) /\ b = p * Micros + t
  BY <1>0
<1>3. Milli(a) = q * Micros /\ Milli(b) = p * Micros
  BY <1>0, <1>1, <1>2 DEF Milli
<1>4. p * Micros \in Nat
  BY <1>0, <1>2
<1>5. ASSUME p * Micros <= a PROVE p = q
  <2>1. ~(q < p)
    <3> SUFFICES ASSUME q + 1 <= p PROVE FALSE
      BY <1>1, <1>2
    <3>1. (q + 1) * Micros <= p * Micros
      BY <1>0, <1>1, <1>2
    <3>2. (q + 1) * Micros = q * Micros + Micros
      BY <1>0, <1>1
    <3> QED
      BY <1>0, <1>1, <1>2, <1>5, <3>1, <3>2
  <2>2. ~(p < q)
    <3> SUFFICES ASSUME p + 1 <= q PROVE FALSE
      BY <1>1, <1>2
    <3>1. (p + 1) * Micros <= q * Micros
      BY <1>0, <1>1, <1>2
    <3>2. (p + 1) * Micros = p * Micros + Micros
      BY <1>0, <1>2
    <3> QED
      BY <1>0, <1>1, <1>2, <1>5, <3>1, <3>2
  <2> QED
    BY <1>1, <1>2, <2>1, <2>2
<1> QED
  BY <1>0, <1>2, <1>3, <1>4, <1>5

-----------------------------------------------------------------------------
(* The walk *)

CursorSet == [v : Nat, at : Nat, id : Nat]
Walks == [phase : {"idle", "reading", "done", "failed"}, cursor : CursorSet, page : Nat \ {0},
          items : Seq(ListRows), cursors : SUBSET CursorSet, restarted : BOOLEAN]

WalkTyped ==
  /\ RowsTyped
  /\ walk \in Walks
  /\ writes \in 0..MaxWrites
  /\ walk.phase = "idle" => /\ walk.items = <<>> /\ walk.cursor = NoCursor /\ walk.page = 1
                            /\ standing = {} /\ writes = 0
  /\ list \in Offset \cup Unpaged => walk.cursor = NoCursor

Reading == walk.phase \in {"idle", "reading"}

(* No row twice. *)
NoneTwice == \A i, j \in DOMAIN walk.items : walk.items[i] = walk.items[j] => i = j

(* An exact list has been read down to its cursor. *)
ReadExactly == list \in Exact =>
  /\ \A i, j \in DOMAIN walk.items : i < j => Ahead(walk.items[i], walk.items[j])
  /\ Reading => IF walk.cursor = NoCursor THEN walk.items = <<>>
                ELSE /\ walk.items # <<>>
                     /\ walk.cursor.at = at[Last(walk.items)] /\ walk.cursor.id = Last(walk.items)
  /\ Reading => \A r \in Missed : walk.cursor = NoCursor \/ Follows(walk.cursor, r)
  /\ walk.phase = "done" => Missed = {}

(* A queue has been read down to its page, but for rows that came in front. *)
ReadByOffset == list \in Offset =>
  /\ Shown \subseteq listed
  /\ Reading => /\ \A r \in Missed : RowsAhead(r, listed) >= (walk.page - 1) * PageSize
                /\ Len(walk.items) <= (walk.page - 1) * PageSize
  /\ walk.phase = "reading" => Cardinality(listed \ standing) <= writes
  /\ walk.phase = "done" => Missed = {}

Excused(r) == at[r] = Undated \/ \E s \in Shown : Milli(at[s]) = Milli(at[r])

(* A coarse list has been read down to its cursor, but for what is excused. *)
ReadByTime == list \in Coarse =>
  /\ Reading => \A r \in Missed : walk.cursor = NoCursor \/ Follows(walk.cursor, r) \/ Excused(r)
  /\ Reading /\ list \in Appending =>
       IF walk.cursor = NoCursor THEN walk.items = <<>> ELSE \A r \in Shown : at[r] >= walk.cursor.at
  /\ walk.phase = "done" => \A r \in Missed : Excused(r)

ReadWithoutPages == list \in Unpaged /\ walk.phase = "done" =>
  \A r \in Missed : Cardinality({s \in Shown : Ahead(s, r)}) >= PageSize

WalkInv == WalkTyped /\ NoneTwice /\ ReadExactly /\ ReadByOffset /\ ReadByTime /\ ReadWithoutPages

(* Fewer rows than a page are written while a queue is read. *)
FewWrites == ListKinds \cap Offset = {} \/ MaxWrites < PageSize

(* The four ways in which a list goes on exclude each other. *)
LEMMA KindsOfLists ==
  /\ Exact = {"reports", "audit-logs", "security-events", "versions"}
  /\ Coarse = {"orders", "wallet", "courses", "contents"}
  /\ Offset = {"applications", "certifications"} /\ Unpaged = {"refunds", "submissions"}
  /\ Appending = {"orders", "wallet"}
<1> QED
  BY DEF Exact, Restartable, Coarse, Offset, Unpaged, Appending

LEMMA WalkFacts ==
  ASSUME WalkTyped
  PROVE  /\ RowsTyped /\ PageSize \in Nat \ {0}
         /\ walk.items \in Seq(ListRows) /\ Len(walk.items) \in Nat /\ Shown \in SUBSET ListRows
         /\ walk.page \in Nat \ {0} /\ (walk.page - 1) * PageSize \in Nat
         /\ (walk.page + 1 - 1) * PageSize = (walk.page - 1) * PageSize + PageSize
         /\ walk.cursor \in CursorSet /\ Skipped \in Nat
         /\ Skipped = IF list \in Offset THEN (walk.page - 1) * PageSize ELSE 0
<1>1. PageSize \in Nat \ {0} /\ RowsTyped
  BY RowsAreNumbers DEF WalkTyped
<1>2. walk.items \in Seq(ListRows) /\ walk.page \in Nat \ {0} /\ walk.cursor \in CursorSet
  BY DEF WalkTyped, Walks
<1>3. Len(walk.items) \in Nat /\ Shown \in SUBSET ListRows
  BY <1>2 DEF Shown, ToSet
<1>4. PICK m \in Nat : walk.page = m + 1
  <2>1. walk.page - 1 \in Nat /\ walk.page = (walk.page - 1) + 1
    BY <1>2
  <2> QED
    BY <2>1
<1>5. (walk.page - 1) * PageSize = m * PageSize /\ (walk.page + 1 - 1) * PageSize = (m + 1) * PageSize
  BY <1>1, <1>4
<1>6. m * PageSize \in Nat /\ (m + 1) * PageSize = m * PageSize + PageSize
  BY <1>1, <1>4
<1> QED
  BY <1>1, <1>2, <1>3, <1>5, <1>6 DEF Skipped

(* Two loops append, and what they append is new. *)
PageIsNew == list \in Appending => PageRows \cap Shown = {}

LEMMA PageComesAnew ==
  ASSUME WalkTyped, ReadByTime, walk.phase = "reading"
  PROVE  PageIsNew
<1> SUFFICES ASSUME list \in Appending, NEW r \in PageRows, r \in Shown PROVE FALSE
  BY DEF PageIsNew
<1>1. list \in Coarse /\ list \notin Exact
  BY KindsOfLists
<1>2. walk.cursor # NoCursor /\ at[r] >= walk.cursor.at
  BY <1>1 DEF ReadByTime, Reading, Shown, ToSet
<1>3. at[r] < walk.cursor.at
  BY <1>1, <1>2 DEF PageRows, Rest, Follows
<1>4. at[r] \in Nat /\ walk.cursor.at \in Nat
  BY WalkFacts DEF RowsTyped, CursorSet
<1> QED
  BY <1>2, <1>3, <1>4

(* The new rows of an answer, in order. *)
LEMMA NewRows ==
  ASSUME WalkTyped, PageIsNew, NEW n, n = New(Page)
  PROVE  /\ n \in Seq(PageRows) /\ ToSet(n) = PageRows \ Shown
         /\ Len(n) \in Nat /\ Len(n) = Cardinality(PageRows \ Shown) /\ Len(n) <= PageSize
         /\ n = <<>> <=> PageRows \subseteq Shown
         /\ \A i, j \in DOMAIN n : i < j => Ahead(n[i], n[j])
<1>1. /\ RowsTyped /\ PageRows \in SUBSET ListRows /\ PageSize \in Nat
      /\ Cardinality(PageRows) \in Nat /\ Cardinality(PageRows) <= PageSize
  BY WalkFacts, PageFacts
<1>2. PICK S : S = PageRows \ Shown
  OBVIOUS
<1>3. S \in SUBSET ListRows /\ S \in SUBSET PageRows
  BY <1>1, <1>2
<1>4. n = InOrder(S)
  <2>1. CASE list \in Appending
    BY <1>2, <2>1 DEF New, Page, PageIsNew
  <2>2. CASE list \notin Appending
    BY <1>1, <1>2, <2>2, InOrderFacts DEF New, Page, Shown
  <2> QED
    BY <2>1, <2>2
<1>5. /\ n \in Seq(S) /\ Len(n) = Cardinality(S) /\ ToSet(n) = S
      /\ \A i, j \in DOMAIN n : i < j => Ahead(n[i], n[j])
  BY <1>1, <1>3, <1>4, InOrderFacts
<1>6. Cardinality(S) \in Nat /\ Cardinality(S) <= Cardinality(PageRows)
  BY <1>1, <1>3, RowsFinite, FS_Subset
<1>7. n \in Seq(PageRows)
  BY <1>3, <1>5, SeqMonotonic
<1>8. n = <<>> <=> S = {}
  BY <1>5 DEF ToSet
<1>9. S = {} <=> PageRows \subseteq Shown
  BY <1>2
<1>10. Len(n) \in Nat /\ Len(n) <= PageSize
  BY <1>1, <1>5, <1>6
<1>11. Len(n) = Cardinality(PageRows \ Shown) /\ ToSet(n) = PageRows \ Shown
  BY <1>2, <1>5
<1> QED
  BY <1>5, <1>7, <1>8, <1>9, <1>10, <1>11

(* What has been read with one more answer. *)
LEMMA ItemsRead ==
  ASSUME WalkTyped, NoneTwice, PageIsNew, NEW t, t = walk.items \o New(Page)
  PROVE  /\ t \in Seq(ListRows) /\ ToSet(t) = Shown \cup PageRows
         /\ Len(t) \in Nat /\ Len(t) <= Len(walk.items) + PageSize
         /\ \A i, j \in DOMAIN t : t[i] = t[j] => i = j
         /\ (\A i, j \in DOMAIN walk.items : i < j => Ahead(walk.items[i], walk.items[j]))
              /\ (\A r \in Shown, s \in PageRows : Ahead(r, s))
            => \A i, j \in DOMAIN t : i < j => Ahead(t[i], t[j])
<1>1. PICK n : n = New(Page)
  OBVIOUS
<1>2. PICK u : u = walk.items
  OBVIOUS
<1>3. /\ n \in Seq(ListRows) /\ Len(n) \in Nat /\ ToSet(n) = PageRows \ Shown /\ Len(n) <= PageSize
      /\ \A i, j \in DOMAIN n : i < j => Ahead(n[i], n[j])
  <2>1. PageRows \in SUBSET ListRows
    BY WalkFacts, PageFacts
  <2> QED
    BY <1>1, <2>1, NewRows, SeqMonotonic
<1>4. u \in Seq(ListRows) /\ Len(u) \in Nat /\ ToSet(u) = Shown /\ PageSize \in Nat
  BY <1>2, WalkFacts DEF Shown
<1>5. PICK p \in Nat, q \in Nat : p = Len(u) /\ q = Len(n)
  BY <1>3, <1>4
<1>6. /\ t \in Seq(ListRows) /\ Len(t) = p + q
      /\ DOMAIN t = 1..(p + q) /\ DOMAIN u = 1..p /\ DOMAIN n = 1..q
      /\ \A i \in 1..p : t[i] = u[i]
      /\ \A j \in 1..q : t[p + j] = n[j]
  <2>1. /\ t \in Seq(ListRows) /\ Len(t) = Len(u) + Len(n)
        /\ \A i \in 1..(Len(u) + Len(n)) : t[i] = IF i <= Len(u) THEN u[i] ELSE n[i - Len(u)]
    BY <1>1, <1>2, <1>3, <1>4, ConcatProperties
  <2>2. \A i \in 1..(p + q) : t[i] = IF i <= p THEN u[i] ELSE n[i - p]
    BY <1>5, <2>1
  <2>3. DOMAIN t = 1..(p + q) /\ DOMAIN u = 1..p /\ DOMAIN n = 1..q
    BY <1>3, <1>4, <1>5, <2>1
  <2>4. \A j \in 1..q : p + j \in 1..(p + q) /\ ~(p + j <= p) /\ (p + j) - p = j
    BY <1>5
  <2>5. \A i \in 1..p : i \in 1..(p + q) /\ i <= p
    BY <1>5
  <2>6. \A j \in 1..q : t[p + j] = n[j]
    <3> SUFFICES ASSUME NEW j \in 1..q PROVE t[p + j] = n[j]
      OBVIOUS
    <3>1. p + j \in 1..(p + q) /\ ~(p + j <= p) /\ (p + j) - p = j
      BY <2>4
    <3>2. PICK i \in 1..(p + q) : i = p + j
      BY <3>1
    <3> QED
      BY <2>2, <3>1, <3>2
  <2>7. \A i \in 1..p : t[i] = u[i]
    BY <2>2, <2>5
  <2>8. Len(t) = p + q
    BY <1>5, <2>1
  <2> QED
    BY <2>1, <2>3, <2>6, <2>7, <2>8
<1>7. \A i \in 1..(p + q) : i \in 1..p \/ \E j \in 1..q : i = p + j
  <2> SUFFICES ASSUME NEW i \in 1..(p + q), i \notin 1..p PROVE \E j \in 1..q : i = p + j
    OBVIOUS
  <2>1. i - p \in 1..q /\ i = p + (i - p)
    BY <1>5
  <2> QED
    BY <2>1
<1>8. ToSet(t) = ToSet(u) \cup ToSet(n)
  <2>1. ASSUME NEW i \in 1..p PROVE u[i] \in ToSet(t)
    <3>1. i \in DOMAIN t /\ t[i] = u[i]
      BY <1>5, <1>6
    <3> QED
      BY <3>1 DEF ToSet
  <2>2. ASSUME NEW j \in 1..q PROVE n[j] \in ToSet(t)
    <3>1. PICK i \in 1..(p + q) : i = p + j
      BY <1>5
    <3>2. i \in DOMAIN t /\ t[i] = n[j]
      BY <1>6, <3>1
    <3> QED
      BY <3>2 DEF ToSet
  <2>3. ASSUME NEW i \in DOMAIN t PROVE t[i] \in ToSet(u) \cup ToSet(n)
    <3>1. CASE i \in 1..p
      BY <1>6, <3>1 DEF ToSet
    <3>2. ASSUME NEW j \in 1..q, i = p + j PROVE t[i] \in ToSet(u) \cup ToSet(n)
      BY <1>6, <3>2 DEF ToSet
    <3> QED
      BY <1>6, <1>7, <3>1, <3>2
  <2>4. \A r \in ToSet(u) : \E i \in 1..p : u[i] = r
    BY <1>6 DEF ToSet
  <2>5. \A r \in ToSet(n) : \E j \in 1..q : n[j] = r
    BY <1>6 DEF ToSet
  <2>6. \A r \in ToSet(t) : \E i \in DOMAIN t : t[i] = r
    BY DEF ToSet
  <2> QED
    BY ZenonT(60), <2>1, <2>2, <2>3, <2>4, <2>5, <2>6
<1>9. \A i \in 1..p : u[i] \in Shown
  BY <1>4, <1>6 DEF ToSet
<1>10. \A j \in 1..q : n[j] \in PageRows \ Shown /\ n[j] \in ListRows
  <2>1. \A j \in 1..q : n[j] \in ToSet(n)
    BY <1>6 DEF ToSet
  <2> QED
    BY <1>3, <1>6, <2>1, WalkFacts, PageFacts
<1>11. \A i, j \in 1..q : i < j => Ahead(n[i], n[j])
  BY <1>3, <1>6
<1>12. \A i, j \in 1..p : u[i] = u[j] => i = j
  BY <1>2, <1>6 DEF NoneTwice
<1>13. \A i, j \in 1..q : n[i] = n[j] => i = j
  <2> SUFFICES ASSUME NEW i \in 1..q, NEW j \in 1..q, i < j PROVE n[i] # n[j]
    BY <1>5
  <2>1. Ahead(n[i], n[j]) /\ n[i] \in ListRows /\ n[j] \in ListRows
    BY <1>10, <1>11
  <2> QED
    BY <2>1, AheadOrders, WalkFacts
<1>14. \A i, j \in 1..(p + q) : t[i] = t[j] => i = j
  <2> SUFFICES ASSUME NEW i \in 1..(p + q), NEW j \in 1..(p + q), t[i] = t[j] PROVE i = j
    OBVIOUS
  <2>1. CASE i \in 1..p /\ j \in 1..p
    BY <1>6, <1>12, <2>1
  <2>2. ASSUME i \in 1..p, NEW k \in 1..q, j = p + k PROVE FALSE
    BY <1>6, <1>9, <1>10, <2>2
  <2>3. ASSUME NEW k \in 1..q, i = p + k, j \in 1..p PROVE FALSE
    BY <1>6, <1>9, <1>10, <2>3
  <2>4. ASSUME NEW k \in 1..q, NEW l \in 1..q, i = p + k, j = p + l PROVE i = j
    <3>1. t[p + k] = n[k] /\ t[p + l] = n[l]
      BY <1>6
    <3>2. n[k] = n[l]
      BY <2>4, <3>1
    <3> QED
      BY <1>13, <2>4, <3>2
  <2> QED
    BY <1>7, <2>1, <2>2, <2>3, <2>4
<1>15. ASSUME \A i, j \in DOMAIN u : i < j => Ahead(u[i], u[j]),
              \A r \in Shown, s \in PageRows : Ahead(r, s),
              NEW i \in 1..(p + q), NEW j \in 1..(p + q), i < j
       PROVE  Ahead(t[i], t[j])
  <2>1. CASE i \in 1..p /\ j \in 1..p
    BY <1>6, <1>15, <2>1
  <2>2. ASSUME i \in 1..p, NEW k \in 1..q, j = p + k PROVE Ahead(t[i], t[j])
    BY <1>6, <1>9, <1>10, <1>15, <2>2
  <2>3. ASSUME NEW k \in 1..q, i = p + k, j \in 1..p PROVE FALSE
    BY <1>5, <1>15, <2>3
  <2>4. ASSUME NEW k \in 1..q, NEW l \in 1..q, i = p + k, j = p + l PROVE Ahead(t[i], t[j])
    <3>1. k < l
      BY <1>5, <1>15, <2>4
    <3> QED
      BY <1>6, <1>11, <2>4, <3>1
  <2> QED
    BY <1>7, <2>1, <2>2, <2>3, <2>4
<1>16. Len(t) \in Nat /\ Len(t) <= Len(walk.items) + PageSize
  BY <1>2, <1>3, <1>4, <1>5, <1>6
<1>17. ToSet(t) = Shown \cup PageRows
  BY <1>3, <1>4, <1>8
<1> QED
  BY <1>2, <1>6, <1>14, <1>15, <1>16, <1>17

(* The cursor of an answer, and what it says of the rows that are left. *)
LEMMA NextCursor ==
  ASSUME WalkTyped, NEW v \in {1, 2}, NEW next, next = IF Page = <<>> THEN NoCursor ELSE Cursor(v)
  PROVE  /\ next \in CursorSet
         /\ list \in Exact => IF next = NoCursor THEN PageRows = Rest
                              ELSE /\ Page # <<>> /\ Cardinality(PageRows) = PageSize
                                   /\ next.at = at[Last(Page)] /\ next.id = Last(Page)
         /\ list \in Offset \cup Unpaged => next = NoCursor
         /\ list \in Coarse => IF next = NoCursor
                               THEN Cardinality(PageRows) < PageSize \/ (Page # <<>> /\ at[Last(Page)] = Undated)
                               ELSE /\ Page # <<>> /\ Cardinality(PageRows) = PageSize
                                    /\ next.at = Milli(at[Last(Page)])
<1>1. /\ RowsTyped /\ PageRows \in SUBSET ListRows /\ PageSize \in Nat \ {0}
      /\ Cardinality(PageRows) \in Nat /\ Cardinality(PageRows) <= PageSize /\ Rest \in SUBSET ListRows
  BY WalkFacts, PageFacts DEF RowsTyped
<1>2. Page \in Seq(PageRows) /\ Len(Page) = Cardinality(PageRows) /\ ToSet(Page) = PageRows
  BY <1>1, InOrderFacts DEF Page
<1>3. Page # <<>> => Last(Page) \in ListRows /\ at[Last(Page)] \in Nat /\ Milli(at[Last(Page)]) \in Nat
  <2> SUFFICES ASSUME Page # <<>> PROVE Last(Page) \in ListRows /\ at[Last(Page)] \in Nat /\ Milli(at[Last(Page)]) \in Nat
    OBVIOUS
  <2>1. Last(Page) \in ListRows
    BY <1>1, <1>2 DEF Last
  <2>2. at[Last(Page)] \in Nat
    BY <1>1, <2>1 DEF RowsTyped
  <2> QED
    BY <2>1, <2>2, MilliFacts
<1>4. NoCursor \in CursorSet
  BY DEF NoCursor, CursorSet, Undated
<1>5. CASE list \in Exact
  <2>0. list \notin Offset \cup Unpaged \cup Coarse
    BY <1>5, KindsOfLists
  <2>1. Skipped = 0 /\ Cardinality(Rest) \in Nat
    BY <1>1, <2>0, RowsFinite DEF Skipped
  <2>2. CASE Cardinality(Rest) > PageSize
    <3>1. Cardinality(PageRows) = PageSize
      <4>1. PageRows = {r \in Rest : RowsAhead(r, Rest) \in 0..(0 + PageSize - 1)}
        BY <2>1 DEF PageRows
      <4> QED
        BY <1>1, <2>1, <2>2, <4>1, WindowHolds
    <3>2. Page # <<>>
      BY <1>1, <1>2, <3>1
    <3>3. next = [v |-> v, at |-> at[Last(Page)], id |-> Last(Page)]
      BY <1>5, <2>2, <3>2 DEF Cursor
    <3>4. next \in CursorSet /\ next # NoCursor
      <4>1. Last(Page) # 0 /\ Last(Page) \in Nat
        BY <1>3, <3>2, RowsAreNumbers
      <4>2. next.id = Last(Page) /\ next.id # NoCursor.id
        BY <3>3, <4>1 DEF NoCursor
      <4> QED
        BY <1>3, <3>2, <3>3, <4>1, <4>2 DEF CursorSet
    <3> QED
      BY <1>5, <2>0, <3>1, <3>2, <3>3, <3>4
  <2>3. CASE ~(Cardinality(Rest) > PageSize)
    <3>1. PageRows = Rest
      BY <1>1, <2>1, <2>3, PageFacts
    <3>2. next = NoCursor
      BY <2>0, <2>3 DEF Cursor
    <3> QED
      BY <1>4, <2>0, <3>1, <3>2
  <2> QED
    BY <2>2, <2>3
<1>6. CASE list \in Coarse
  <2>0. list \notin Offset \cup Unpaged \cup Exact
    BY <1>6, KindsOfLists
  <2>1. CASE Page # <<>> /\ Len(Page) = PageSize /\ at[Last(Page)] # Undated
    <3>1. next = [v |-> v, at |-> Milli(at[Last(Page)]), id |-> 0]
      BY <1>6, <2>0, <2>1 DEF Cursor
    <3>2. next \in CursorSet /\ next # NoCursor
      BY <1>3, <2>1, <3>1 DEF CursorSet, NoCursor
    <3> QED
      BY <1>2, <1>6, <2>0, <2>1, <3>1, <3>2
  <2>2. CASE ~(Page # <<>> /\ Len(Page) = PageSize /\ at[Last(Page)] # Undated)
    <3>1. next = NoCursor
      BY <2>0, <2>2 DEF Cursor
    <3>2. Cardinality(PageRows) < PageSize \/ (Page # <<>> /\ at[Last(Page)] = Undated)
      BY <1>1, <1>2, <2>2
    <3> QED
      BY <1>4, <1>6, <2>0, <3>1, <3>2
  <2> QED
    BY <2>1, <2>2
<1>7. CASE list \notin Exact \cup Coarse
  BY <1>4, <1>7 DEF Cursor
<1> QED
  BY <1>5, <1>6, <1>7

(* An answer is added, and the walk goes on, begins again from the first page, *)
(* ends or fails (pagination.js:17-33).                                     *)
LEMMA Continued ==
  ASSUME WalkTyped, NoneTwice, PageIsNew, walk.phase = "reading",
         NEW next \in CursorSet, NEW w, w = Continue(Page, next), NEW t, t = walk.items \o New(Page)
  PROVE  /\ w \in Walks /\ w.items = t
         /\ \/ w.phase = "failed" /\ w.cursor = walk.cursor
            \/ next # NoCursor /\ w.phase = "reading" /\ w.cursor = next /\ w.page = walk.page + 1
            \/ /\ next = NoCursor /\ w.phase = "done" /\ w.cursor = walk.cursor
               /\ list \in Exact \cup Appending \/ Cardinality(PageRows) < PageSize \/ PageRows \subseteq Shown
            \/ /\ next = NoCursor /\ w.phase = "reading" /\ w.cursor = NoCursor /\ w.page = walk.page + 1
               /\ list \notin Exact \cup Appending /\ Cardinality(PageRows) >= PageSize
<1>1. walk \in Walks /\ t \in Seq(ListRows)
  BY ItemsRead DEF WalkTyped
<1>2. PICK read : read = [walk EXCEPT !.items = @ \o New(Page)]
  OBVIOUS
<1>3. /\ read \in Walks /\ read.items = t /\ read.phase = "reading" /\ read.cursor = walk.cursor
      /\ read.page = walk.page /\ read.cursors = walk.cursors /\ read.cursors \in SUBSET CursorSet
      /\ walk.page \in Nat \ {0}
  BY <1>1, <1>2 DEF Walks
<1>4. /\ Cardinality(PageRows) \in Nat /\ PageSize \in Nat
      /\ Len(Page) = Cardinality(PageRows) /\ (New(Page) = <<>> <=> PageRows \subseteq Shown)
  <2>1. RowsTyped /\ PageRows \in SUBSET ListRows /\ Cardinality(PageRows) \in Nat /\ PageSize \in Nat
    BY WalkFacts, PageFacts
  <2> QED
    BY <2>1, InOrderFacts, NewRows DEF Page
<1>5. w = IF next # NoCursor
          THEN IF next \in walk.cursors THEN [read EXCEPT !.phase = "failed"]
               ELSE [read EXCEPT !.cursor = next, !.cursors = @ \cup {next}, !.page = @ + 1]
          ELSE IF list \in Exact \cup Appending \/ Len(Page) < PageSize \/ New(Page) = <<>>
            THEN [read EXCEPT !.phase = "done"]
          ELSE [read EXCEPT !.cursor = NoCursor, !.page = @ + 1]
  BY <1>2 DEF Continue
<1>6. ASSUME w = [read EXCEPT !.phase = "failed"]
      PROVE  w \in Walks /\ w.items = t /\ w.phase = "failed" /\ w.cursor = walk.cursor
  BY <1>3, <1>6 DEF Walks
<1>7. ASSUME w = [read EXCEPT !.cursor = next, !.cursors = @ \cup {next}, !.page = @ + 1]
      PROVE  w \in Walks /\ w.items = t /\ w.phase = "reading" /\ w.cursor = next /\ w.page = walk.page + 1
  <2>1. read.page + 1 \in Nat \ {0} /\ read.cursors \cup {next} \in SUBSET CursorSet
    BY <1>3
  <2>2. /\ w = [read EXCEPT !.cursor = next, !.cursors = read.cursors \cup {next}, !.page = read.page + 1]
    BY <1>7
  <2> QED
    BY ZenonT(60), <1>3, <2>1, <2>2 DEF Walks
<1>8. ASSUME w = [read EXCEPT !.phase = "done"]
      PROVE  w \in Walks /\ w.items = t /\ w.phase = "done" /\ w.cursor = walk.cursor
  BY <1>3, <1>8 DEF Walks
<1>9. ASSUME w = [read EXCEPT !.cursor = NoCursor, !.page = @ + 1], next = NoCursor
      PROVE  w \in Walks /\ w.items = t /\ w.phase = "reading" /\ w.cursor = NoCursor /\ w.page = walk.page + 1
  <2>1. read.page + 1 \in Nat \ {0}
    BY <1>3
  <2>2. w = [read EXCEPT !.cursor = next, !.page = read.page + 1]
    BY <1>9
  <2> QED
    BY <1>3, <1>9, <2>1, <2>2 DEF Walks
<1>10. CASE next # NoCursor
  BY <1>5, <1>6, <1>7, <1>10
<1>11. CASE next = NoCursor /\ (list \in Exact \cup Appending \/ Len(Page) < PageSize \/ New(Page) = <<>>)
  BY <1>4, <1>5, <1>8, <1>11
<1>12. CASE next = NoCursor /\ ~(list \in Exact \cup Appending \/ Len(Page) < PageSize \/ New(Page) = <<>>)
  BY <1>4, <1>5, <1>9, <1>12
<1> QED
  BY <1>10, <1>11, <1>12

(* One answer to the loop. *)
OnePage(v) ==
  /\ walk.phase = "reading"
  /\ walk' = Continue(Page, IF Page = <<>> THEN NoCursor ELSE Cursor(v))
  /\ UNCHANGED <<list, at, listed, standing, writes>>

LEMMA AnswerFacts ==
  ASSUME WalkInv, NEW v \in {1, 2}, OnePage(v)
  PROVE  \E next \in CursorSet :
           /\ next = IF Page = <<>> THEN NoCursor ELSE Cursor(v)
           /\ WalkTyped' /\ NoneTwice' /\ walk' \in Walks
           /\ PageIsNew /\ walk'.items = walk.items \o New(Page)
           /\ Shown' = Shown \cup PageRows /\ Missed' = Missed \ PageRows
           /\ Len(walk'.items) \in Nat /\ Len(walk'.items) <= Len(walk.items) + PageSize
           /\ \/ walk'.phase = "failed"
              \/ next # NoCursor /\ walk'.phase = "reading" /\ walk'.cursor = next /\ walk'.page = walk.page + 1
              \/ /\ next = NoCursor /\ walk'.phase = "done"
                 /\ list \in Exact \cup Appending \/ Cardinality(PageRows) < PageSize \/ PageRows \subseteq Shown
              \/ /\ next = NoCursor /\ walk'.phase = "reading" /\ walk'.cursor = NoCursor /\ walk'.page = walk.page + 1
                 /\ list \notin Exact \cup Appending /\ Cardinality(PageRows) >= PageSize
<1>1. WalkTyped /\ NoneTwice /\ PageIsNew /\ walk.phase = "reading"
  BY PageComesAnew DEF WalkInv, OnePage
<1>2. PICK next : next = IF Page = <<>> THEN NoCursor ELSE Cursor(v)
  OBVIOUS
<1>3. PICK t : t = walk.items \o New(Page)
  OBVIOUS
<1>4. PICK w : w = Continue(Page, next)
  OBVIOUS
<1>5. next \in CursorSet /\ (list \in Offset \cup Unpaged => next = NoCursor /\ walk.cursor = NoCursor)
  BY <1>1, <1>2, NextCursor DEF WalkTyped
<1>6. walk' = w
  BY <1>2, <1>4 DEF OnePage
<1>7. /\ t \in Seq(ListRows) /\ ToSet(t) = Shown \cup PageRows
      /\ Len(t) \in Nat /\ Len(t) <= Len(walk.items) + PageSize
      /\ \A i, j \in DOMAIN t : t[i] = t[j] => i = j
  BY <1>1, <1>3, ItemsRead
<1>8. /\ w \in Walks /\ w.items = t
      /\ \/ w.phase = "failed" /\ w.cursor = walk.cursor
         \/ next # NoCursor /\ w.phase = "reading" /\ w.cursor = next /\ w.page = walk.page + 1
         \/ /\ next = NoCursor /\ w.phase = "done" /\ w.cursor = walk.cursor
            /\ list \in Exact \cup Appending \/ Cardinality(PageRows) < PageSize \/ PageRows \subseteq Shown
         \/ /\ next = NoCursor /\ w.phase = "reading" /\ w.cursor = NoCursor /\ w.page = walk.page + 1
            /\ list \notin Exact \cup Appending /\ Cardinality(PageRows) >= PageSize
  <2>1. next \in CursorSet
    BY <1>5
  <2> QED
    BY ONLY SMTT(40), <1>1, <1>3, <1>4, <2>1, Continued
<1>9. UNCHANGED <<list, at, listed, standing, writes>>
  BY DEF OnePage
<1>10. RowsTyped'
  BY <1>1, <1>9 DEF WalkTyped, RowsTyped
<1>11. w.phase # "idle" /\ (list \in Offset \cup Unpaged => w.cursor = NoCursor)
  BY <1>5, <1>8
<1>12. WalkTyped'
  BY <1>1, <1>6, <1>8, <1>9, <1>10, <1>11 DEF WalkTyped
<1>13. NoneTwice'
  BY <1>6, <1>7, <1>8 DEF NoneTwice
<1>14. Shown' = Shown \cup PageRows
  BY <1>6, <1>7, <1>8 DEF Shown
<1>15. Missed' = Missed \ PageRows
  BY <1>9, <1>14 DEF Missed
<1> QED
  BY <1>1, <1>2, <1>3, <1>5, <1>6, <1>7, <1>8, <1>12, <1>13, <1>14, <1>15

LEMMA LastIsBehind ==
  ASSUME NEW t \in Seq(ListRows), t # <<>>, \A i, j \in DOMAIN t : i < j => Ahead(t[i], t[j])
  PROVE  /\ Last(t) \in ToSet(t) /\ Last(t) \in ListRows
         /\ \A r \in ToSet(t) : r = Last(t) \/ Ahead(r, Last(t))
<1>1. Len(t) \in Nat \ {0} /\ DOMAIN t = 1..Len(t)
  BY LenProperties, EmptySeq
<1>2. Len(t) \in DOMAIN t /\ Last(t) = t[Len(t)]
  BY <1>1 DEF Last
<1>3. ASSUME NEW i \in DOMAIN t PROVE t[i] = Last(t) \/ Ahead(t[i], Last(t))
  <2>1. i = Len(t) \/ i < Len(t)
    BY <1>1
  <2> QED
    BY <1>2, <2>1
<1> QED
  BY <1>2, <1>3 DEF ToSet

LEMMA LastOfPage ==
  ASSUME WalkTyped, Page # <<>>
  PROVE  /\ Last(Page) \in PageRows /\ Last(Page) \in ListRows
         /\ \A r \in PageRows : r = Last(Page) \/ Ahead(r, Last(Page))
<1>1. RowsTyped /\ PageRows \in SUBSET ListRows
  BY WalkFacts, PageFacts
<1>2. /\ Page \in Seq(PageRows) /\ ToSet(Page) = PageRows
      /\ \A i, j \in DOMAIN Page : i < j => Ahead(Page[i], Page[j])
  BY <1>1, InOrderFacts DEF Page
<1>3. Page \in Seq(ListRows)
  BY <1>1, <1>2, SeqMonotonic
<1> QED
  BY <1>2, <1>3, LastIsBehind

(* What is left of the list after an answer. *)
LEMMA LeftOut ==
  ASSUME WalkTyped, NEW r \in Missed \ PageRows, walk.cursor = NoCursor \/ Follows(walk.cursor, r)
  PROVE  /\ r \in Rest /\ r \in ListRows
         /\ \/ list \in Offset /\ RowsAhead(r, Rest) < Skipped
            \/ Cardinality(PageRows) = PageSize /\ \A s \in PageRows : Ahead(s, r)
<1>1. r \in listed /\ r \in ListRows
  BY DEF Missed, WalkTyped, RowsTyped
<1>2. r \in Rest
  BY <1>1 DEF Rest
<1>3. \/ RowsAhead(r, Rest) < Skipped
      \/ Cardinality(PageRows) = PageSize /\ \A s \in PageRows : Ahead(s, r)
  BY <1>2, WalkFacts, PageFacts
<1>4. RowsAhead(r, Rest) \in Nat /\ (list \notin Offset => Skipped = 0)
  BY WalkFacts, PageFacts, RowsAheadOf DEF RowsTyped
<1> QED
  BY <1>1, <1>2, <1>3, <1>4

LEMMA ExactAnswered ==
  ASSUME WalkInv, NEW v \in {1, 2}, OnePage(v), list \in Exact
  PROVE  ReadExactly'
<1>0. WalkTyped /\ RowsTyped /\ NoneTwice /\ ReadExactly /\ walk.phase = "reading" /\ Reading
  BY WalkFacts DEF WalkInv, OnePage, Reading
<1>0a. list \notin Offset \cup Unpaged \cup Coarse \cup Appending
  BY KindsOfLists
<1>1. PICK next \in CursorSet :
        /\ next = IF Page = <<>> THEN NoCursor ELSE Cursor(v)
        /\ WalkTyped' /\ walk' \in Walks
        /\ PageIsNew /\ walk'.items = walk.items \o New(Page)
        /\ Shown' = Shown \cup PageRows /\ Missed' = Missed \ PageRows
        /\ \/ walk'.phase = "failed"
           \/ next # NoCursor /\ walk'.phase = "reading" /\ walk'.cursor = next
           \/ next = NoCursor /\ walk'.phase = "done"
  BY <1>0a, AnswerFacts
<1>2. PICK t : t = walk'.items
  OBVIOUS
<1>3. UNCHANGED <<list, at>> /\ Ahead(0, 0)' = Ahead(0, 0)
  BY DEF OnePage, Ahead
<1>4. \A r, s \in ListRows : Ahead(r, s)' <=> Ahead(r, s)
  BY <1>3 DEF Ahead
<1>5. \A r \in Shown, s \in PageRows : Ahead(r, s)
  <2> SUFFICES ASSUME NEW r \in Shown, NEW s \in PageRows PROVE Ahead(r, s)
    OBVIOUS
  <2>1. walk.items \in Seq(ListRows) /\ walk.items # <<>> /\ r \in ToSet(walk.items)
    BY <1>0, WalkFacts DEF Shown, ToSet
  <2>2. walk.cursor # NoCursor
    BY <1>0, <2>1 DEF ReadExactly
  <2>3. PICK l : l = Last(walk.items)
    OBVIOUS
  <2>4. walk.cursor.at = at[l] /\ walk.cursor.id = l
    BY <1>0, <2>2, <2>3 DEF ReadExactly
  <2>5. l \in ListRows /\ (r = l \/ Ahead(r, l))
    BY <1>0, <2>1, <2>3, LastIsBehind DEF ReadExactly
  <2>6. s \in ListRows /\ Follows(walk.cursor, s)
    BY <1>0, <2>2, WalkFacts, PageFacts DEF PageRows, Rest
  <2>7. Ahead(l, s)
    BY <1>0, <1>0a, <2>4, <2>5, <2>6, RowsAreNumbers DEF Follows, Ahead, RowsTyped
  <2> QED
    BY <1>0, <2>5, <2>6, <2>7, WalkFacts, AheadOrders DEF RowsTyped, Shown
<1>6. /\ t \in Seq(ListRows) /\ ToSet(t) = Shown \cup PageRows
      /\ \A i, j \in DOMAIN t : i < j => Ahead(t[i], t[j])
  BY <1>0, <1>1, <1>2, <1>5, ItemsRead DEF ReadExactly
<1>7. \A i, j \in DOMAIN t : i < j => Ahead(t[i], t[j])'
  <2>1. \A i \in DOMAIN t : t[i] \in ListRows
    BY <1>6
  <2> QED
    BY <1>4, <1>6, <2>1
<1>8. ASSUME next # NoCursor, walk'.phase = "reading", walk'.cursor = next
      PROVE  /\ walk'.cursor # NoCursor /\ t # <<>>
             /\ walk'.cursor.at = at[Last(t)] /\ walk'.cursor.id = Last(t)
             /\ \A r \in Missed' : Follows(walk'.cursor, r)
  <2>1. /\ Page # <<>> /\ Cardinality(PageRows) = PageSize
        /\ next.at = at[Last(Page)] /\ next.id = Last(Page)
    BY <1>0, <1>1, <1>8, NextCursor
  <2>2. PICK l : l = Last(Page)
    OBVIOUS
  <2>3. l \in PageRows /\ l \in ListRows /\ \A r \in PageRows : r = l \/ Ahead(r, l)
    BY <1>0, <2>1, <2>2, LastOfPage
  <2>4. t # <<>>
    BY <1>6, <2>3 DEF ToSet
  <2>5. PICK m : m = Last(t)
    OBVIOUS
  <2>6. m \in ToSet(t) /\ m \in ListRows /\ \A r \in ToSet(t) : r = m \/ Ahead(r, m)
    BY <1>6, <2>4, <2>5, LastIsBehind
  <2>7. m = l
    <3>1. m = l \/ Ahead(m, l)
      BY <1>5, <1>6, <2>3, <2>6
    <3>2. l = m \/ Ahead(l, m)
      BY <1>6, <2>3, <2>6
    <3> QED
      BY <1>0, <2>3, <2>6, <3>1, <3>2, AheadOrders
  <2>8. ASSUME NEW r \in Missed \ PageRows PROVE Follows(next, r)
    <3>1. walk.cursor = NoCursor \/ Follows(walk.cursor, r)
      BY <1>0, <2>8 DEF ReadExactly
    <3>2. r \in ListRows /\ Ahead(l, r)
      BY <1>0, <1>0a, <2>3, <3>1, LeftOut
    <3> QED
      BY <1>0, <1>0a, <2>1, <2>2, <2>3, <3>2, RowsAreNumbers DEF Follows, Ahead, RowsTyped
  <2> QED
    BY <1>1, <1>8, <2>1, <2>2, <2>4, <2>5, <2>7, <2>8
<1>9. ASSUME next = NoCursor, walk'.phase = "done" PROVE Missed' = {}
  <2>1. PageRows = Rest
    BY <1>0, <1>1, <1>9, NextCursor
  <2> QED
    BY <1>0, <1>1, <2>1, LeftOut DEF ReadExactly
<1>10. \A c, r : Follows(c, r)' <=> Follows(c, r)
  BY <1>3 DEF Follows
<1> QED
  BY <1>1, <1>2, <1>3, <1>7, <1>8, <1>9, <1>10 DEF ReadExactly, Reading

LEMMA ShownOnce ==
  ASSUME WalkTyped, NoneTwice
  PROVE  IsFiniteSet(Shown) /\ Cardinality(Shown) \in Nat /\ Cardinality(Shown) = Len(walk.items)
<1>1. PICK u \in Seq(ListRows), n \in Nat : u = walk.items /\ n = Len(u) /\ DOMAIN u = 1..n
  BY WalkFacts
<1>2. Shown = {u[i] : i \in 1..n}
  BY <1>1 DEF Shown, ToSet
<1>3. u \in Bijection(1..n, Shown)
  <2>1. u \in [1..n -> Shown]
    BY <1>1, <1>2
  <2>2. \A i, j \in 1..n : u[i] = u[j] => i = j
    BY <1>1 DEF NoneTwice
  <2>3. \A r \in Shown : \E i \in 1..n : u[i] = r
    BY <1>2
  <2> QED
    BY <2>1, <2>2, <2>3 DEF Bijection, Injection, Surjection, IsInjective
<1>4. IsFiniteSet(1..n) /\ Cardinality(1..n) = n
  <2>0. 1 \in Int /\ n \in Int
    OBVIOUS
  <2>1. IsFiniteSet(1..n) /\ Cardinality(1..n) = IF 1 > n THEN 0 ELSE n - 1 + 1
    BY ONLY <2>0, FS_Interval
  <2> QED
    BY <1>1, <2>1
<1>5. IsFiniteSet(Shown) /\ Cardinality(Shown) = n
  BY <1>3, <1>4, FS_Bijection DEF ExistsBijection
<1> QED
  BY <1>1, <1>5

(* A full page that shows nothing new is the end of a queue: fewer rows have *)
(* come than would make up a page of rows that were seen.                   *)
LEMMA NothingNewIsTheEnd ==
  ASSUME WalkTyped, NoneTwice, ReadByOffset, FewWrites, list \in Offset, walk.phase = "reading",
         PageRows \subseteq Shown
  PROVE  Missed \subseteq PageRows
<1>1. PICK a \in Nat, P \in Nat : a = (walk.page - 1) * PageSize /\ P = PageSize
  BY WalkFacts
<1>2. /\ RowsTyped /\ Rest = listed /\ Skipped = a /\ listed \in SUBSET ListRows /\ P # 0
      /\ Cardinality(listed) \in Nat /\ IsFiniteSet(listed)
  <2>1. listed \in SUBSET ListRows /\ RowsTyped /\ walk.cursor = NoCursor
    BY DEF WalkTyped, RowsTyped
  <2> QED
    BY <1>1, <2>1, WalkFacts, RowsFinite DEF Rest
<1>3. SUFFICES ASSUME NEW r \in Missed \ PageRows PROVE FALSE
  OBVIOUS
<1>4. RowsAhead(r, listed) \in Nat /\ RowsAhead(r, listed) >= a /\ RowsAhead(r, listed) < Cardinality(listed)
  <2>1. r \in listed /\ RowsAhead(r, listed) \in 0..(Cardinality(listed) - 1)
    BY <1>2, CountsAreAll DEF Missed, RowsTyped
  <2> QED
    BY <1>1, <1>2, <2>1 DEF ReadByOffset, Reading
<1>5. Cardinality(PageRows) = P /\ PageRows \in SUBSET ListRows
  BY <1>1, <1>2, <1>4, PageFacts DEF Missed, RowsTyped
<1>6. PICK InFront : InFront = {s \in listed : RowsAhead(s, listed) \in 0..(0 + a - 1)}
  OBVIOUS
<1>7. InFront \in SUBSET ListRows /\ Cardinality(InFront) = a
  BY SMTT(40), <1>1, <1>2, <1>4, <1>6, WindowHolds
<1>8. InFront \cap PageRows = {}
  BY <1>1, <1>2, <1>6 DEF PageRows
<1>9. PICK Came : Came = listed \ standing
  OBVIOUS
<1>10. InFront \cup PageRows \subseteq Shown \cup Came
  <2>1. ASSUME NEW s \in InFront, s \in standing PROVE s \in Shown
    <3>1. s \notin Missed
      BY <1>1, <1>6 DEF ReadByOffset, Reading
    <3> QED
      BY <2>1, <3>1 DEF Missed
  <2> QED
    BY <1>6, <1>9, <2>1
<1>11. Cardinality(InFront \cup PageRows) = a + P
  <2>1. IsFiniteSet(InFront) /\ IsFiniteSet(PageRows)
    BY <1>5, <1>7, RowsFinite
  <2>2. Cardinality(InFront \cup PageRows) = Cardinality(InFront) + Cardinality(PageRows) - Cardinality(InFront \cap PageRows)
    BY <2>1, FS_Union
  <2>3. Cardinality(InFront \cap PageRows) = 0
    BY <1>8, FS_EmptySet
  <2> QED
    BY <1>1, <1>5, <1>7, <2>2, <2>3
<1>12. Cardinality(Shown) \in Nat /\ Cardinality(Shown) <= a
  <2>1. Len(walk.items) <= a
    BY <1>1 DEF ReadByOffset, Reading
  <2> QED
    BY <2>1, ShownOnce
<1>13. Cardinality(Came) \in Nat /\ Cardinality(Came) < P
  <2>1. Cardinality(Came) <= writes
    BY <1>9 DEF ReadByOffset
  <2>2. writes \in Nat /\ writes <= MaxWrites /\ MaxWrites \in Nat
    BY ListAssumption DEF WalkTyped, ListAssumption
  <2>3. MaxWrites < P
    BY <1>1, <1>2 DEF FewWrites, RowsTyped
  <2>4. Cardinality(Came) \in Nat
    BY <1>2, <1>9, RowsFinite
  <2> QED
    BY <1>1, <2>1, <2>2, <2>3, <2>4
<1>14. Cardinality(Shown \cup Came) \in Nat /\ Cardinality(Shown \cup Came) <= Cardinality(Shown) + Cardinality(Came)
  <2>1. Came \in SUBSET ListRows /\ Shown \in SUBSET ListRows
    BY <1>2, <1>9, WalkFacts
  <2>2. IsFiniteSet(Shown) /\ IsFiniteSet(Came) /\ Cardinality(Shown \cap Came) \in Nat
    BY <2>1, RowsFinite
  <2>3. Cardinality(Shown \cup Came) = Cardinality(Shown) + Cardinality(Came) - Cardinality(Shown \cap Came)
    BY <2>2, FS_Union
  <2>4. Cardinality(Shown \cup Came) \in Nat
    BY <2>1, RowsFinite
  <2> QED
    BY <1>12, <1>13, <2>2, <2>3, <2>4
<1>15. Cardinality(InFront \cup PageRows) <= Cardinality(Shown \cup Came)
  <2>1. IsFiniteSet(Shown \cup Came)
    BY <1>2, <1>9, WalkFacts, RowsFinite, FS_Union, ShownOnce
  <2> QED
    BY <1>10, <2>1, FS_Subset
<1> QED
  BY <1>1, <1>11, <1>12, <1>13, <1>14, <1>15

LEMMA OffsetAnswered ==
  ASSUME WalkInv, NEW v \in {1, 2}, OnePage(v), list \in Offset, FewWrites
  PROVE  ReadByOffset'
<1>0. WalkTyped /\ RowsTyped /\ NoneTwice /\ ReadByOffset /\ walk.phase = "reading" /\ Reading
  BY WalkFacts DEF WalkInv, OnePage, Reading
<1>0a. list \notin Exact \cup Unpaged \cup Coarse \cup Appending
  BY KindsOfLists
<1>1. /\ WalkTyped' /\ Shown' = Shown \cup PageRows /\ Missed' = Missed \ PageRows
      /\ Len(walk'.items) \in Nat /\ Len(walk'.items) <= Len(walk.items) + PageSize
      /\ \/ walk'.phase = "failed"
         \/ walk'.phase = "done" /\ (Cardinality(PageRows) < PageSize \/ PageRows \subseteq Shown)
         \/ walk'.phase = "reading" /\ walk'.page = walk.page + 1
  BY <1>0a, AnswerFacts
<1>2. UNCHANGED <<list, at, listed, standing, writes>>
  BY DEF OnePage
<1>3. \A r : RowsAhead(r, listed)' = RowsAhead(r, listed)
  BY <1>2 DEF RowsAhead, Ahead
<1>4. PICK a \in Nat, P \in Nat : a = (walk.page - 1) * PageSize /\ P = PageSize
  BY <1>0, WalkFacts
<1>5. Rest = listed /\ Skipped = a
  BY <1>0, <1>4, WalkFacts DEF Rest, WalkTyped
<1>6. PageRows \subseteq listed
  BY <1>5 DEF PageRows
<1>7. ASSUME NEW r \in Missed \ PageRows
      PROVE  RowsAhead(r, listed) >= a + P /\ Cardinality(PageRows) = P
  <2>1. r \in listed /\ RowsAhead(r, listed) \in Nat
    BY <1>0, RowsAheadOf DEF Missed, RowsTyped
  <2>2. RowsAhead(r, listed) >= a
    BY <1>0, <1>4 DEF ReadByOffset
  <2>3. Cardinality(PageRows) = P
    BY <1>0, <1>4, <1>5, <2>1, <2>2, PageFacts
  <2>4. RowsAhead(r, listed) \notin a..(a + P - 1)
    BY <1>4, <1>5, <2>1 DEF PageRows
  <2> QED
    BY <1>4, <2>1, <2>2, <2>3, <2>4
<1>8. ASSUME walk'.phase = "reading"
      PROVE  /\ \A r \in Missed' : RowsAhead(r, listed)' >= ((walk.page - 1) * PageSize)'
             /\ Len(walk'.items) <= (walk'.page - 1) * PageSize
  <2>1. (walk'.page - 1) * PageSize = a + P
    BY <1>0, <1>1, <1>4, <1>8, WalkFacts
  <2>2. Len(walk'.items) <= a + P
    BY SMTT(40), <1>0, <1>1, <1>4, WalkFacts DEF ReadByOffset
  <2> QED
    BY <1>1, <1>3, <1>7, <2>1, <2>2
<1>9. ASSUME walk'.phase = "done" PROVE Missed' = {}
  <2>1. CASE Cardinality(PageRows) < PageSize
    BY <1>1, <1>4, <1>7, <2>1
  <2>2. CASE PageRows \subseteq Shown
    BY <1>0, <1>1, <2>2, NothingNewIsTheEnd
  <2> QED
    BY <1>1, <1>9, <2>1, <2>2
<1>10. walk'.phase # "idle"
  BY <1>1
<1>11. Shown' \subseteq listed'
  BY <1>0, <1>1, <1>2, <1>6 DEF ReadByOffset
<1>12. Cardinality(listed \ standing)' <= writes'
  BY <1>0, <1>2 DEF ReadByOffset
<1> QED
  BY <1>8, <1>9, <1>10, <1>11, <1>12 DEF ReadByOffset, Reading

LEMMA TimeAnswered ==
  ASSUME WalkInv, NEW v \in {1, 2}, OnePage(v), list \in Coarse
  PROVE  ReadByTime'
<1>0. WalkTyped /\ RowsTyped /\ ReadByTime /\ walk.phase = "reading" /\ Reading
  BY WalkFacts DEF WalkInv, OnePage, Reading
<1>0a. list \notin Exact \cup Unpaged \cup Offset
  BY KindsOfLists
<1>1. PICK next \in CursorSet :
        /\ next = IF Page = <<>> THEN NoCursor ELSE Cursor(v)
        /\ Shown' = Shown \cup PageRows /\ Missed' = Missed \ PageRows
        /\ \/ walk'.phase = "failed"
           \/ next # NoCursor /\ walk'.phase = "reading" /\ walk'.cursor = next
           \/ /\ next = NoCursor /\ walk'.phase = "done"
              /\ list \in Appending \/ Cardinality(PageRows) < PageSize \/ PageRows \subseteq Shown
           \/ /\ next = NoCursor /\ walk'.phase = "reading" /\ walk'.cursor = NoCursor
              /\ list \notin Appending
  BY <1>0a, AnswerFacts
<1>2. UNCHANGED <<list, at>>
  BY DEF OnePage
<1>3. /\ \A c, r : Follows(c, r)' <=> Follows(c, r)
      /\ \A r : Excused(r)' <=> (at[r] = Undated \/ \E s \in Shown \cup PageRows : Milli(at[s]) = Milli(at[r]))
  BY <1>1, <1>2 DEF Follows, Excused
<1>4. /\ \A r \in ListRows : at[r] \in Nat
      /\ PageRows \subseteq Rest /\ Shown \subseteq ListRows /\ PageRows \subseteq ListRows
      /\ PageSize # 0
  BY <1>0, WalkFacts, PageFacts DEF RowsTyped
<1>5. ASSUME NEW r \in Missed \ PageRows
      PROVE  Excused(r)' \/ (next # NoCursor /\ Follows(next, r))
  <2>1. CASE Excused(r)
    BY <1>3, <2>1 DEF Excused
  <2>2. CASE ~Excused(r)
    <3>1. walk.cursor = NoCursor \/ Follows(walk.cursor, r)
      BY <1>0, <2>2 DEF ReadByTime
    <3>2. r \in ListRows /\ Cardinality(PageRows) = PageSize /\ \A s \in PageRows : Ahead(s, r)
      BY <1>0, <1>0a, <3>1, LeftOut
    <3>3. Page # <<>>
      <4>1. RowsTyped /\ PageRows \in SUBSET ListRows
        BY <1>0, <1>4
      <4>2. Len(Page) = Cardinality(PageRows)
        BY <4>1, InOrderFacts DEF Page
      <4> QED
        BY <1>4, <3>2, <4>2
    <3>4. PICK l : l = Last(Page)
      OBVIOUS
    <3>5. l \in PageRows /\ l \in ListRows /\ Ahead(l, r)
      BY <1>0, <3>2, <3>3, <3>4, LastOfPage
    <3>6. at[r] \in Nat /\ at[l] \in Nat /\ at[r] <= at[l]
      BY <1>0a, <1>4, <3>2, <3>5, RowsAreNumbers DEF Ahead
    <3>7. CASE next = NoCursor
      <4>1. at[l] = Undated
        BY <1>0, <1>1, <3>2, <3>4, <3>7, NextCursor, WalkFacts
      <4>2. at[r] = Undated
        BY <3>6, <4>1 DEF Undated
      <4> QED
        BY <1>3, <4>2
    <3>8. CASE next # NoCursor
      <4>1. next.at = Milli(at[l])
        BY <1>0, <1>1, <3>4, <3>8, NextCursor
      <4>2. /\ Milli(at[l]) \in Nat
            /\ Milli(at[l]) <= at[r] => Milli(at[r]) = Milli(at[l])
        BY <3>6, MilliFacts
      <4>3. CASE Milli(at[l]) <= at[r]
        <5>1. Milli(at[l]) = Milli(at[r])
          BY <4>2, <4>3
        <5> QED
          BY <1>3, <3>5, <5>1
      <4>4. CASE ~(Milli(at[l]) <= at[r])
        <5>1. at[r] = Undated \/ Follows(next, r)
          BY <1>0a, <3>6, <4>1, <4>2, <4>4 DEF Follows
        <5> QED
          BY <1>3, <3>8, <5>1
      <4> QED
        BY <4>3, <4>4
    <3> QED
      BY <3>7, <3>8
  <2> QED
    BY <2>1, <2>2
<1>6. ASSUME list \in Appending, next # NoCursor, NEW r \in Shown \cup PageRows
      PROVE  at[r] >= next.at
  <2>1. PICK l : l = Last(Page)
    OBVIOUS
  <2>2. Page # <<>> /\ next.at = Milli(at[l])
    BY <1>0, <1>1, <1>6, <2>1, NextCursor
  <2>3. l \in PageRows /\ l \in ListRows /\ \A s \in PageRows : s = l \/ Ahead(s, l)
    BY <1>0, <2>1, <2>2, LastOfPage
  <2>4. at[l] \in Nat /\ at[r] \in Nat /\ Milli(at[l]) \in Nat /\ Milli(at[l]) <= at[l]
    BY <1>4, <2>3, MilliFacts
  <2>5. at[r] >= at[l]
    <3>1. CASE r \in PageRows
      BY <1>0a, <2>3, <2>4, <3>1 DEF Ahead
    <3>2. CASE r \in Shown
      <4>1. walk.cursor # NoCursor /\ at[r] >= walk.cursor.at
        BY <1>0, <1>6, <3>2 DEF ReadByTime, Shown, ToSet
      <4>2. at[l] < walk.cursor.at /\ walk.cursor.at \in Nat
        BY <1>0, <1>0a, <1>4, <2>3, <4>1, WalkFacts DEF Rest, Follows, CursorSet
      <4> QED
        BY <2>4, <4>1, <4>2
    <3> QED
      BY <3>1, <3>2
  <2> QED
    BY <2>2, <2>4, <2>5
<1>7. ASSUME walk'.phase \in {"idle", "reading"}
      PROVE  /\ \A r \in Missed' : walk'.cursor = NoCursor \/ Follows(walk'.cursor, r) \/ Excused(r)'
             /\ list \in Appending => IF walk'.cursor = NoCursor THEN walk'.items = <<>>
                                      ELSE \A r \in Shown' : at'[r] >= walk'.cursor.at
  <2>1. walk'.cursor = NoCursor \/ (next # NoCursor /\ walk'.cursor = next)
    BY <1>1, <1>7
  <2>2. \A r \in Missed' : walk'.cursor = NoCursor \/ Follows(walk'.cursor, r) \/ Excused(r)'
    BY <1>1, <1>3, <1>5, <2>1
  <2>3. ASSUME list \in Appending PROVE walk'.cursor # NoCursor /\ next # NoCursor /\ walk'.cursor = next
    BY <1>1, <1>7, <2>3
  <2>4. ASSUME list \in Appending, NEW r \in Shown' PROVE at'[r] >= walk'.cursor.at
    <3>1. r \in Shown \cup PageRows
      BY <1>1, <2>4
    <3>2. at[r] >= next.at
      BY <1>6, <2>3, <2>4, <3>1
    <3> QED
      BY <1>2, <2>3, <2>4, <3>2
  <2> QED
    BY <2>2, <2>3, <2>4
<1>8. ASSUME walk'.phase = "done" PROVE \A r \in Missed' : Excused(r)'
  BY <1>1, <1>5, <1>8
<1>9. (list \in Appending)' <=> list \in Appending
  BY <1>2 DEF Appending
<1>10. /\ (\A r \in Missed : walk.cursor = NoCursor \/ Follows(walk.cursor, r) \/ Excused(r))'
         <=> \A r \in Missed' : walk'.cursor = NoCursor \/ Follows(walk'.cursor, r) \/ Excused(r)'
       /\ Reading' <=> walk'.phase \in {"idle", "reading"}
       /\ (\A r \in Missed : Excused(r))' <=> \A r \in Missed' : Excused(r)'
  BY <1>2, <1>3 DEF Follows, Reading
<1> QED
  BY <1>7, <1>8, <1>9, <1>10 DEF ReadByTime

LEMMA UnpagedAnswered ==
  ASSUME WalkInv, NEW v \in {1, 2}, OnePage(v), list \in Unpaged
  PROVE  ReadWithoutPages'
<1>0. WalkTyped /\ RowsTyped /\ list \notin Offset /\ walk.cursor = NoCursor
  BY WalkFacts, KindsOfLists DEF WalkInv, WalkTyped
<1>1. Shown' = Shown \cup PageRows /\ Missed' = Missed \ PageRows
  BY AnswerFacts
<1>2. UNCHANGED <<list, at>>
  BY DEF OnePage
<1>3. \A r, s : Ahead(r, s)' <=> Ahead(r, s)
  BY <1>2 DEF Ahead
<1>4. ASSUME NEW r \in Missed \ PageRows
      PROVE  Cardinality({s \in Shown \cup PageRows : Ahead(s, r)}) >= PageSize
  <2>1. Cardinality(PageRows) = PageSize /\ \A s \in PageRows : Ahead(s, r)
    BY <1>0, LeftOut
  <2>2. PageRows \in SUBSET ListRows /\ Shown \in SUBSET ListRows
    BY <1>0, WalkFacts, PageFacts
  <2>3. PICK A : A = {s \in Shown \cup PageRows : Ahead(s, r)}
    OBVIOUS
  <2>4. A \in SUBSET ListRows /\ PageRows \subseteq A
    BY <2>1, <2>2, <2>3
  <2>5. Cardinality(PageRows) <= Cardinality(A) /\ Cardinality(A) \in Nat /\ PageSize \in Nat
    BY <2>4, RowsFinite, FS_Subset, RowsAreNumbers
  <2> QED
    BY <2>1, <2>3, <2>5
<1>5. \A r : {s \in Shown : Ahead(s, r)}' = {s \in Shown \cup PageRows : Ahead(s, r)}
  BY <1>1, <1>3
<1> QED
  BY <1>1, <1>4, <1>5 DEF ReadWithoutPages

LEMMA AnswerStep ==
  ASSUME WalkInv, FewWrites, NEW v \in {1, 2}, OnePage(v)
  PROVE  WalkInv'
<1>1. WalkTyped' /\ NoneTwice'
  BY AnswerFacts
<1>2. list' = list
  BY DEF OnePage
<1>3. ReadExactly'
  <2>1. CASE list \in Exact
    BY <2>1, ExactAnswered
  <2>2. CASE list \notin Exact
    BY <1>2, <2>2 DEF ReadExactly, Exact
  <2> QED
    BY <2>1, <2>2
<1>4. ReadByOffset'
  <2>1. CASE list \in Offset
    BY <2>1, OffsetAnswered
  <2>2. CASE list \notin Offset
    BY <1>2, <2>2 DEF ReadByOffset, Offset
  <2> QED
    BY <2>1, <2>2
<1>5. ReadByTime'
  <2>1. CASE list \in Coarse
    BY <2>1, TimeAnswered
  <2>2. CASE list \notin Coarse
    BY <1>2, <2>2 DEF ReadByTime, Coarse
  <2> QED
    BY <2>1, <2>2
<1>6. ReadWithoutPages'
  <2>1. CASE list \in Unpaged
    BY <2>1, UnpagedAnswered
  <2>2. CASE list \notin Unpaged
    BY <1>2, <2>2 DEF ReadWithoutPages, Unpaged
  <2> QED
    BY <2>1, <2>2
<1> QED
  BY <1>1, <1>3, <1>4, <1>5, <1>6 DEF WalkInv

(* A walk that begins, for the first time or again. *)
LEMMA BegunAnew ==
  ASSUME WalkTyped', walk'.phase = "reading", walk'.items = <<>>, walk'.cursor = NoCursor,
         walk'.page = 1, Shown' = {}, listed' \in SUBSET ListRows,
         list' \in Offset => Cardinality((listed \ standing)') <= writes'
  PROVE  WalkInv'
<1>1. NoneTwice'
  BY DEF NoneTwice
<1>2. ReadExactly'
  BY DEF ReadExactly, Reading
<1>3. ReadByOffset'
  <2>1. ((walk.page - 1) * PageSize)' = 0 /\ Len(walk'.items) = 0
    BY RowsAreNumbers, EmptySeq
  <2>2. \A r : RowsAhead(r, listed)' \in Nat
    <3> SUFFICES ASSUME NEW r PROVE RowsAhead(r, listed)' \in Nat
      OBVIOUS
    <3>1. PICK A : A = {s \in listed : Ahead(s, r)}'
      OBVIOUS
    <3>2. A \in SUBSET ListRows
      BY <3>1
    <3> QED
      BY <3>1, <3>2, RowsFinite DEF RowsAhead
  <2>3. \A r \in Missed' : RowsAhead(r, listed)' >= ((walk.page - 1) * PageSize)'
    BY <2>1, <2>2
  <2> QED
    BY <2>1, <2>3 DEF ReadByOffset, Reading
<1>4. ReadByTime'
  BY DEF ReadByTime, Reading
<1>5. ReadWithoutPages'
  BY DEF ReadWithoutPages
<1> QED
  BY <1>1, <1>2, <1>3, <1>4, <1>5 DEF WalkInv

LEMMA Begins ==
  ASSUME WalkInv, StartWalk
  PROVE  WalkInv'
<1>1. WalkTyped /\ walk \in Walks /\ walk.phase = "idle"
  BY DEF WalkInv, WalkTyped, StartWalk
<1>2. walk.items = <<>> /\ walk.cursor = NoCursor /\ walk.page = 1 /\ writes = 0
  BY <1>1 DEF WalkTyped
<1>3. /\ walk' = [walk EXCEPT !.phase = "reading"] /\ standing' = listed
      /\ UNCHANGED <<list, at, listed, writes>>
  BY DEF StartWalk
<1>4. /\ walk' \in Walks /\ walk'.phase = "reading" /\ walk'.items = <<>> /\ walk'.cursor = NoCursor
      /\ walk'.page = 1
  BY <1>1, <1>2, <1>3 DEF Walks
<1>5. RowsTyped'
  BY <1>1, <1>3 DEF WalkTyped, RowsTyped
<1>6. WalkTyped'
  BY <1>1, <1>3, <1>4, <1>5 DEF WalkTyped
<1>7. Shown' = {}
  BY <1>4 DEF Shown, ToSet
<1>8. Cardinality((listed \ standing)') <= writes'
  <2>1. (listed \ standing)' = {}
    BY <1>3
  <2> QED
    BY <1>2, <1>3, <2>1, FS_EmptySet
<1>9. listed' \in SUBSET ListRows
  BY <1>5 DEF RowsTyped
<1> QED
  BY <1>4, <1>6, <1>7, <1>8, <1>9, BegunAnew

LEMMA BeginsAgain ==
  ASSUME WalkInv, RefuseOldCursor
  PROVE  WalkInv'
<1>1. WalkTyped /\ NoneTwice /\ ReadExactly /\ walk \in Walks /\ walk.phase = "reading" /\ walk.cursor.v = 1
  BY DEF WalkInv, WalkTyped, RefuseOldCursor
<1>2. list \notin Offset \cup Unpaged
  BY <1>1 DEF WalkTyped, NoCursor
<1>3. UNCHANGED <<list, at, listed, standing, writes>>
  BY DEF RefuseOldCursor
<1>4. RowsTyped'
  BY <1>1, <1>3 DEF WalkTyped, RowsTyped
<1>5. CASE walk.restarted
  <2>1. walk' = [walk EXCEPT !.phase = "failed"]
    BY <1>5 DEF RefuseOldCursor
  <2>2. walk' \in Walks /\ walk'.phase = "failed" /\ walk'.items = walk.items
    BY <1>1, <2>1 DEF Walks
  <2>3. WalkTyped'
    BY <1>1, <1>2, <1>3, <1>4, <2>2 DEF WalkTyped
  <2>4. NoneTwice'
    BY <1>1, <2>2 DEF NoneTwice
  <2>5. ReadExactly'
    BY <1>1, <1>3, <2>2 DEF ReadExactly, Reading, Ahead
  <2>6. ReadByOffset' /\ ReadByTime' /\ ReadWithoutPages'
    BY <1>2, <1>3, <2>2 DEF ReadByOffset, ReadByTime, ReadWithoutPages, Reading
  <2> QED
    BY <2>3, <2>4, <2>5, <2>6 DEF WalkInv
<1>6. CASE ~walk.restarted
  <2>1. walk' = [walk EXCEPT !.cursor = NoCursor, !.page = 1, !.items = <<>>, !.cursors = {},
                               !.restarted = TRUE]
    BY <1>6 DEF RefuseOldCursor
  <2>2. NoCursor \in CursorSet /\ <<>> \in Seq(ListRows) /\ 1 \in Nat \ {0}
    BY EmptySeq DEF NoCursor, CursorSet, Undated
  <2>3. /\ walk' \in Walks /\ walk'.phase = "reading" /\ walk'.items = <<>> /\ walk'.cursor = NoCursor
        /\ walk'.page = 1
    <3>1. PICK C \in CursorSet, I \in Seq(ListRows), n \in Nat \ {0} : C = NoCursor /\ I = <<>> /\ n = 1
      BY <2>2
    <3>2. walk' = [walk EXCEPT !.cursor = C, !.page = n, !.items = I, !.cursors = {}, !.restarted = TRUE]
      BY <2>1, <3>1
    <3>3. walk' \in Walks /\ walk'.phase = "reading" /\ walk'.items = I /\ walk'.cursor = C /\ walk'.page = n
      <4>0. walk \in Walks /\ walk.phase = "reading"
        BY <1>1
      <4>1. PICK w : w = [walk EXCEPT !.cursor = C, !.items = I]
        OBVIOUS
      <4>2. w \in Walks /\ w.phase = "reading" /\ w.items = I /\ w.cursor = C
        BY ONLY <4>0, <4>1, C \in CursorSet, I \in Seq(ListRows) DEF Walks
      <4>3. walk' = [w EXCEPT !.page = n, !.cursors = {}, !.restarted = TRUE]
        BY <1>1, <3>2, <4>1 DEF Walks
      <4>4. PICK y : y = [w EXCEPT !.page = n]
        OBVIOUS
      <4>5. y \in Walks /\ y.phase = "reading" /\ y.items = I /\ y.cursor = C /\ y.page = n
        BY ONLY <4>2, <4>4, n \in Nat \ {0} DEF Walks
      <4>6. walk' = [y EXCEPT !.cursors = {}, !.restarted = TRUE]
        BY ONLY <4>2, <4>3, <4>4 DEF Walks
      <4> QED
        BY <4>5, <4>6 DEF Walks
    <3> QED
      BY <3>1, <3>3
  <2>4. WalkTyped'
    BY <1>1, <1>3, <1>4, <2>3 DEF WalkTyped
  <2>5. Shown' = {}
    BY <2>3 DEF Shown, ToSet
  <2>6. listed' \in SUBSET ListRows
    BY <1>4 DEF RowsTyped
  <2> QED
    BY <1>2, <1>3, <2>3, <2>4, <2>5, <2>6, BegunAnew
<1> QED
  BY <1>5, <1>6

LEMMA GivesUp ==
  ASSUME WalkInv, FetchFails
  PROVE  WalkInv'
<1>1. WalkTyped /\ NoneTwice /\ ReadExactly /\ ReadByOffset /\ walk \in Walks
  BY DEF WalkInv, WalkTyped
<1>2. UNCHANGED <<list, at, listed, standing, writes>> /\ walk' = [walk EXCEPT !.phase = "failed"]
  BY DEF FetchFails
<1>3. /\ walk' \in Walks /\ walk'.phase = "failed" /\ walk'.items = walk.items
      /\ walk'.cursor = walk.cursor
  BY <1>1, <1>2 DEF Walks
<1>4. RowsTyped'
  BY <1>1, <1>2 DEF WalkTyped, RowsTyped
<1>5. WalkTyped'
  BY <1>1, <1>2, <1>3, <1>4 DEF WalkTyped
<1>6. NoneTwice'
  BY <1>1, <1>3 DEF NoneTwice
<1>7. ReadExactly'
  BY <1>1, <1>2, <1>3 DEF ReadExactly, Reading, Ahead
<1>8. ReadByOffset' /\ ReadByTime' /\ ReadWithoutPages'
  BY <1>1, <1>2, <1>3 DEF ReadByOffset, ReadByTime, ReadWithoutPages, Reading, Shown
<1> QED
  BY <1>5, <1>6, <1>7, <1>8 DEF WalkInv

LEMMA RowComes ==
  ASSUME WalkInv, NEW r \in ListRows, CommitRow(r)
  PROVE  WalkInv'
<1>1. WalkTyped /\ RowsTyped /\ walk.phase = "reading" /\ writes \in Nat /\ writes < MaxWrites
  BY DEF WalkInv, WalkTyped, CommitRow
<1>2. listed' = listed \cup {r} /\ writes' = writes + 1 /\ UNCHANGED <<list, at, walk, standing>>
  BY DEF CommitRow
<1>3. Shown' = Shown /\ Missed' = Missed
  BY <1>2 DEF Shown, Missed
<1>4. RowsTyped'
  BY <1>1, <1>2 DEF RowsTyped
<1>5. writes' \in 0..MaxWrites
  BY <1>1, <1>2, ListAssumption DEF ListAssumption
<1>6. WalkTyped'
  BY <1>1, <1>2, <1>4, <1>5 DEF WalkTyped
<1>7. NoneTwice' /\ ReadExactly' /\ ReadByTime' /\ ReadWithoutPages'
  BY <1>2, <1>3 DEF WalkInv, NoneTwice, ReadExactly, ReadByTime, ReadWithoutPages, Reading, Ahead,
                    Follows, Excused
<1>8. ReadByOffset'
  <2>1. listed' \in SUBSET ListRows /\ listed \in SUBSET listed'
    BY <1>2, <1>4 DEF RowsTyped
  <2>2. \A s : RowsAhead(s, listed)' \in Nat /\ RowsAhead(s, listed) \in Nat
               /\ RowsAhead(s, listed)' >= RowsAhead(s, listed)
    <3> SUFFICES ASSUME NEW s
                 PROVE  RowsAhead(s, listed)' \in Nat /\ RowsAhead(s, listed) \in Nat
                        /\ RowsAhead(s, listed)' >= RowsAhead(s, listed)
      OBVIOUS
    <3>1. PICK A, B : A = {q \in listed : Ahead(q, s)} /\ B = {q \in listed' : Ahead(q, s)}
      OBVIOUS
    <3>2. A \in SUBSET B /\ B \in SUBSET ListRows /\ A \in SUBSET ListRows
      BY <2>1, <3>1
    <3>3. Cardinality(A) <= Cardinality(B) /\ Cardinality(A) \in Nat /\ Cardinality(B) \in Nat
      BY <3>2, RowsFinite, FS_Subset
    <3>4. RowsAhead(s, listed) = Cardinality(A) /\ RowsAhead(s, listed)' = Cardinality(B)
      BY <1>2, <3>1 DEF RowsAhead, Ahead
    <3> QED
      BY <3>3, <3>4
  <2>3. Cardinality(listed \ standing) \in Nat /\ Cardinality((listed \ standing)') \in Nat
        /\ Cardinality((listed \ standing)') <= Cardinality(listed \ standing) + 1
    <3>1. PICK A, B : A = listed \ standing /\ B = (listed \ standing)'
      OBVIOUS
    <3>2. A \in SUBSET ListRows /\ B \in SUBSET ListRows /\ B \subseteq A \cup {r} /\ A \cup {r} \in SUBSET ListRows
      BY <1>2, <2>1, <3>1
    <3>3. /\ IsFiniteSet(A) /\ IsFiniteSet(A \cup {r}) /\ Cardinality(A) \in Nat /\ Cardinality(B) \in Nat
          /\ Cardinality(A \cup {r}) \in Nat
      BY <3>2, RowsFinite
    <3>4. Cardinality(A \cup {r}) <= Cardinality(A) + 1
      BY <3>3, FS_AddElement
    <3>5. Cardinality(B) <= Cardinality(A \cup {r})
      BY <3>2, <3>3, FS_Subset
    <3> QED
      BY <3>1, <3>3, <3>4, <3>5
  <2>4. ((walk.page - 1) * PageSize)' = (walk.page - 1) * PageSize /\ (walk.page - 1) * PageSize \in Nat
    BY <1>1, <1>2, WalkFacts
  <2>5. ReadByOffset
    BY DEF WalkInv
  <2>6. ASSUME list \in Offset
        PROVE  /\ \A s \in Missed' : RowsAhead(s, listed)' >= ((walk.page - 1) * PageSize)'
               /\ Len(walk'.items) <= ((walk.page - 1) * PageSize)'
               /\ Cardinality((listed \ standing)') <= writes'
               /\ Shown' \subseteq listed'
    <3>1. \A s \in Missed : RowsAhead(s, listed) >= (walk.page - 1) * PageSize
      BY <1>1, <2>5, <2>6 DEF ReadByOffset, Reading
    <3>2. \A s \in Missed : RowsAhead(s, listed)' >= (walk.page - 1) * PageSize
      <4> SUFFICES ASSUME NEW s \in Missed PROVE RowsAhead(s, listed)' >= (walk.page - 1) * PageSize
        OBVIOUS
      <4>1. PICK m, n, k \in Nat :
              /\ m = RowsAhead(s, listed)' /\ n = RowsAhead(s, listed)
              /\ k = (walk.page - 1) * PageSize
        BY <2>2, <2>4
      <4> QED
        BY <2>2, <3>1, <4>1
    <3>3. Cardinality((listed \ standing)') <= writes'
      BY <1>1, <1>2, <2>3, <2>5, <2>6 DEF ReadByOffset
    <3> QED
      BY <1>1, <1>2, <1>3, <2>1, <2>4, <2>5, <2>6, <3>2, <3>3 DEF ReadByOffset, Reading
  <2>7. walk'.phase = "reading" /\ list' = list
    BY <1>1, <1>2
  <2> QED
    BY <2>6, <2>7 DEF ReadByOffset, Reading
<1> QED
  BY <1>6, <1>7, <1>8 DEF WalkInv

LEMMA RowGoes ==
  ASSUME WalkInv, NEW r \in ListRows, RowLeaves(r)
  PROVE  WalkInv'
<1>1. /\ WalkTyped /\ RowsTyped /\ walk.phase = "reading" /\ writes \in Nat /\ writes < MaxWrites
      /\ list \notin Offset
  BY KindsOfLists DEF WalkInv, WalkTyped, RowLeaves, MayLeave
<1>2. listed' = listed \ {r} /\ standing' = standing \ {r} /\ writes' = writes + 1 /\ UNCHANGED <<list, at, walk>>
  BY DEF RowLeaves
<1>3. Shown' = Shown /\ Missed' \subseteq Missed
  BY <1>2 DEF Shown, Missed
<1>4. RowsTyped'
  BY <1>1, <1>2 DEF RowsTyped
<1>5. writes' \in 0..MaxWrites
  BY <1>1, <1>2, ListAssumption DEF ListAssumption
<1>6. WalkTyped'
  BY <1>1, <1>2, <1>4, <1>5 DEF WalkTyped
<1>7. NoneTwice' /\ ReadExactly' /\ ReadByTime' /\ ReadWithoutPages'
  BY <1>1, <1>2, <1>3 DEF WalkInv, NoneTwice, ReadExactly, ReadByTime, ReadWithoutPages, Reading, Ahead,
                    Follows, Excused
<1>8. ReadByOffset'
  BY <1>1, <1>2 DEF ReadByOffset
<1> QED
  BY <1>6, <1>7, <1>8 DEF WalkInv

LEMMA WalkStays ==
  ASSUME WalkInv, UNCHANGED <<list, at, listed, walk, standing, writes>>
  PROVE  WalkInv'
<1>1. RowsTyped' <=> RowsTyped
  BY DEF RowsTyped
<1>2. \A r, S : RowsAhead(r, S)' = RowsAhead(r, S)
  BY DEF RowsAhead, Ahead
<1>3. Shown' = Shown /\ Missed' = Missed
  BY DEF Shown, Missed
<1>4. WalkTyped'
  BY <1>1 DEF WalkInv, WalkTyped
<1>5. NoneTwice' /\ ReadExactly' /\ ReadByTime' /\ ReadWithoutPages'
  BY <1>3 DEF WalkInv, NoneTwice, ReadExactly, ReadByTime, ReadWithoutPages, Reading, Ahead,
                    Follows, Excused
<1>6. ReadByOffset'
  <2>1. \A r : RowsAhead(r, listed)' = RowsAhead(r, listed)
    BY DEF RowsAhead, Ahead
  <2> QED
    BY <1>3, <2>1 DEF WalkInv, ReadByOffset, Reading
<1> QED
  BY <1>4, <1>5, <1>6 DEF WalkInv

LEMMA WalkInit ==
  ASSUME ListInit
  PROVE  WalkInv
<1>1. RowsTyped
  <2>1. Instants \subseteq Nat \ {0}
    BY ListAssumption DEF ListAssumption
  <2>2. at \in [ListRows -> Nat] /\ (list \notin {"reports", "courses"} => \A r \in ListRows : at[r] # Undated)
    <3>1. CASE list \in {"reports", "courses"}
      <4>1. at \in [ListRows -> Instants \cup {0}]
        BY <3>1 DEF ListInit, MayBeUndated, Undated
      <4>2. Instants \cup {0} \subseteq Nat
        BY <2>1
      <4>3. at \in [ListRows -> Nat]
        BY <4>1, <4>2
      <4> QED
        BY <3>1, <4>3
    <3>2. CASE list \notin {"reports", "courses"}
      <4>1. Instants \cup (IF MayBeUndated THEN {Undated} ELSE {}) = Instants
        BY <3>2 DEF MayBeUndated
      <4>2. at \in [ListRows -> Instants]
        BY <4>1 DEF ListInit
      <4> QED
        BY <2>1, <4>2 DEF Undated
    <3> QED
      BY <3>1, <3>2
  <2> QED
    BY <2>2 DEF ListInit, RowsTyped
<1>2. walk \in Walks
  BY EmptySeq DEF ListInit, Walks, NoCursor, CursorSet, Undated
<1>3. /\ walk.phase = "idle" /\ walk.items = <<>> /\ walk.cursor = NoCursor /\ walk.page = 1
      /\ standing = {} /\ writes = 0 /\ writes \in 0..MaxWrites
  BY ListAssumption DEF ListInit, ListAssumption
<1>4. WalkTyped
  BY <1>1, <1>2, <1>3 DEF WalkTyped
<1>5. Missed = {} /\ Shown = {}
  BY <1>3 DEF Missed, Shown, ToSet
<1>6. NoneTwice /\ ReadExactly /\ ReadByTime /\ ReadWithoutPages
  BY <1>3, <1>5 DEF NoneTwice, ReadExactly, ReadByTime, ReadWithoutPages, Reading
<1>7. ReadByOffset
  <2>1. (walk.page - 1) * PageSize = 0 /\ Len(walk.items) = 0
    BY <1>3, RowsAreNumbers, EmptySeq
  <2> QED
    BY <1>3, <1>5, <2>1 DEF ReadByOffset, Reading
<1> QED
  BY <1>4, <1>6, <1>7 DEF WalkInv

LEMMA WalkNext ==
  ASSUME WalkInv, FewWrites, [ListNext]_listVars
  PROVE  WalkInv'
<1>1. CASE StartWalk
  BY <1>1, Begins
<1>2. CASE FetchPage
  <2>1. OnePage(2)
    BY <1>2 DEF FetchPage, OnePage
  <2> QED
    BY <2>1, AnswerStep
<1>3. CASE FetchFromOld
  <2>1. OnePage(1)
    BY <1>3 DEF FetchFromOld, OnePage
  <2> QED
    BY <2>1, AnswerStep
<1>4. CASE RefuseOldCursor
  BY <1>4, BeginsAgain
<1>5. CASE FetchFails
  BY <1>5, GivesUp
<1>6. CASE Deployed
  BY <1>6, WalkStays DEF Deployed
<1>7. ASSUME NEW r \in ListRows, CommitRow(r) PROVE WalkInv'
  BY <1>7, RowComes
<1>8. ASSUME NEW r \in ListRows, RowLeaves(r) PROVE WalkInv'
  BY <1>8, RowGoes
<1>9. CASE UNCHANGED listVars
  BY <1>9, WalkStays DEF listVars
<1> QED
  BY <1>1, <1>2, <1>3, <1>4, <1>5, <1>6, <1>7, <1>8, <1>9 DEF ListNext

LEMMA WalkTells ==
  ASSUME WalkInv
  PROVE  ListsAreWhole
<1>1. Cardinality(Shown) = Len(walk.items)
  BY ShownOnce DEF WalkInv
<1> QED
  BY <1>1 DEF WalkInv, ListsAreWhole, ReadExactly, ReadByOffset, ReadByTime, ReadWithoutPages, Excused

(* A list that has been read to its end is whole, as its kind promises     *)
(* (pagination.js:17-33, pagination-integration-check.mjs:203), however many *)
(* rows there are, however long a page is, whenever rows are committed and   *)
(* taken off: a queue, while fewer rows than a page are written.            *)
THEOREM ListsAlwaysWhole ==
  ASSUME FewWrites
  PROVE  ListSpec => []ListsAreWhole
<1>1. ListInit => WalkInv
  BY WalkInit
<1>2. WalkInv /\ [ListNext]_listVars => WalkInv'
  BY WalkNext
<1>3. WalkInv => ListsAreWhole
  BY WalkTells
<1> QED
  BY <1>1, <1>2, <1>3, PTL DEF ListSpec
=============================================================================
