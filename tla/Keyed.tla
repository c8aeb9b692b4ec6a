---- MODULE Keyed ----
(* Actions that are confirmed in a dialog and sent with an idempotency key: an    *)
(* adjustment of points, a report, its decision and a refund request.  Answers    *)
(* are lost while the call goes on, the dialog is confirmed again, perhaps with   *)
(* another text, or left and opened anew, and calls with one key overlap.  The    *)
(* fields stay enabled while a call is out, so what the dialog holds when its     *)
(* answer comes need not be what was confirmed.                                   *)
EXTENDS Naturals, FiniteSets, Sequences

CONSTANTS
  Dialogs,   \* pages of one member and one administrator
  Payloads,  \* what may be entered
  MaxKeys,   \* keys that are drawn
  MaxCalls   \* calls that are sent

ASSUME KeyedAssumption == MaxKeys \in Nat /\ MaxCalls \in Nat

VARIABLES
  purpose,  \* what each dialog is for
  dialog,   \* each dialog; `keyed' is what was confirmed last
  keys,     \* keys drawn until now
  calls,    \* calls in the order in which they were sent
  records,  \* idempotency_records: the request and answer of a key
  reports,  \* user_reports, by the key they were made with, 0 of another member
  acts      \* what was done, with the call that did it

keyedVars == <<purpose, dialog, keys, calls, records, reports, acts>>

Purposes == {"adjust", "report", "decide", "refund"}
Blank == [step |-> "closed", key |-> 0, payload |-> "none", about |-> 0, keyed |-> "none", call |-> 0]
Record(k) == {r \in records : r.key = k}
Pending(k) == reports[k] = "pending"

KeyedInit ==
  /\ purpose \in [Dialogs -> Purposes]
  /\ dialog = [d \in Dialogs |-> Blank]
  /\ keys = 0 /\ calls = <<>> /\ records = {} /\ acts = {}
  /\ reports = [k \in 0..MaxKeys |-> IF k = 0 THEN "pending" ELSE "none"]

-----------------------------------------------------------------------------
(* The key is drawn when the dialog opens; that of a refund request with its text. *)
OpenDialog(d) ==
  /\ dialog[d].step = "closed"
  /\ \E p \in Payloads, k \in 0..MaxKeys :
       /\ IF purpose[d] = "decide" THEN Pending(k) ELSE k = 0
       /\ IF purpose[d] = "refund" THEN UNCHANGED keys ELSE keys < MaxKeys /\ keys' = keys + 1
       /\ dialog' = [dialog EXCEPT ![d] =
            [Blank EXCEPT !.step = "open", !.key = IF purpose[d] = "refund" THEN 0 ELSE keys',
                          !.payload = p, !.about = k]]
  /\ UNCHANGED <<purpose, calls, records, reports, acts>>

(* An adjustment is only shown again; the other dialogs can be edited, also while *)
(* their call is out: only the buttons are disabled then.                         *)
EditDialog(d, p) ==
  /\ dialog[d].step \in {"open", "busy", "error"} /\ purpose[d] # "adjust" /\ p # dialog[d].payload
  /\ dialog' = [dialog EXCEPT ![d].payload = p]
  /\ UNCHANGED <<purpose, keys, calls, records, reports, acts>>

Confirm(d) ==
  /\ dialog[d].step \in {"open", "error"} /\ Len(calls) < MaxCalls
  /\ LET fresh == purpose[d] = "refund" /\ dialog[d].keyed # dialog[d].payload
         key == IF fresh THEN keys + 1 ELSE dialog[d].key IN
       /\ fresh => keys < MaxKeys
       /\ keys' = IF fresh THEN key ELSE keys
       /\ calls' = Append(calls, [purpose |-> purpose[d], key |-> key, payload |-> dialog[d].payload,
                                  about |-> dialog[d].about, stage |-> "sent"])
       /\ dialog' = [dialog EXCEPT ![d].step = "busy", ![d].key = key, ![d].call = Len(calls'),
                                   ![d].keyed = dialog[d].payload]
  /\ UNCHANGED <<purpose, records, reports, acts>>

(* A modal stays open while its call is out, but its page may be left. *)
CloseDialog(d) ==
  /\ dialog[d].step # "closed" /\ dialog' = [dialog EXCEPT ![d] = Blank]
  /\ UNCHANGED <<purpose, keys, calls, records, reports, acts>>

ReceiveAnswer(d) ==
  /\ dialog[d].step = "busy" /\ calls[dialog[d].call].stage \in {"ok", "refused"}
  /\ dialog' = [dialog EXCEPT ![d].step = IF calls[dialog[d].call].stage = "ok" THEN "success" ELSE "error"]
  /\ UNCHANGED <<purpose, keys, calls, records, reports, acts>>

(* No answer within the timeout: the call goes on. *)
GiveUp(d) ==
  /\ dialog[d].step = "busy" /\ dialog' = [dialog EXCEPT ![d].step = "error"]
  /\ UNCHANGED <<purpose, keys, calls, records, reports, acts>>

-----------------------------------------------------------------------------
(* Mutant: a replay answers whatever was asked. *)
SameRequest_ByKey(c, r) == r.purpose = c.purpose

(* The scope of a key and the fingerprint of a request. *)
SameRequest(c, r) == r.purpose = c.purpose /\ r.payload = c.payload /\ r.about = c.about

(* reserveIdempotency: the INSERT waits for a transaction that has the same key;  *)
(* what it committed is the answer, or a conflict.  A refund request has no key.  *)
Reserve(n) ==
  /\ calls[n].stage = "sent"
  /\ calls[n].purpose # "refund" =>
       ~\E m \in DOMAIN calls : calls[m].stage = "working" /\ calls[m].key = calls[n].key
  /\ calls' = [calls EXCEPT ![n].stage =
       IF calls[n].purpose # "refund" /\ Record(calls[n].key) # {}
         THEN IF \E r \in Record(calls[n].key) : SameRequest(calls[n], r) THEN "ok" ELSE "refused"
       ELSE "working"]
  /\ UNCHANGED <<purpose, dialog, keys, records, reports, acts>>

(* What unique indexes and the locked row ask for: one pending report of a member *)
(* and an item, one pending request of an order item, one decision of a report.   *)
Allowed(c) ==
  /\ c.purpose = "report" => \A k \in 1..MaxKeys : ~Pending(k)
  /\ c.purpose = "refund" => ~\E e \in acts : e.purpose = "refund"
  /\ c.purpose = "decide" => Pending(c.about)

(* The effect and completeIdempotency, in the transaction of the reservation. *)
Complete(n) ==
  /\ calls[n].stage = "working" /\ Allowed(calls[n])
  /\ calls' = [calls EXCEPT ![n].stage = "ok"]
  /\ acts' = acts \cup {[purpose |-> calls[n].purpose, key |-> calls[n].key, call |-> n,
                              payload |-> calls[n].payload, about |-> calls[n].about]}
  /\ records' = IF calls[n].purpose = "refund" THEN records ELSE records \cup {calls'[n]}
  /\ reports' = CASE calls[n].purpose = "report" -> [reports EXCEPT ![calls[n].key] = "pending"]
                  [] calls[n].purpose = "decide" -> [reports EXCEPT ![calls[n].about] = "decided"]
                  [] OTHER -> reports
  /\ UNCHANGED <<purpose, dialog, keys>>

(* A refusal, an error or a crash undoes the reservation with the rest. *)
RollBack(n) ==
  /\ calls[n].stage = "working" /\ calls' = [calls EXCEPT ![n].stage = "refused"]
  /\ UNCHANGED <<purpose, dialog, keys, records, reports, acts>>

KeyedNext ==
  \/ \E d \in Dialogs :
       OpenDialog(d) \/ Confirm(d) \/ CloseDialog(d) \/ ReceiveAnswer(d) \/ GiveUp(d)
         \/ \E p \in Payloads : EditDialog(d, p)
  \/ \E n \in DOMAIN calls : Reserve(n) \/ Complete(n) \/ RollBack(n)

KeyedSpec == KeyedInit /\ [][KeyedNext]_keyedVars

-----------------------------------------------------------------------------
(* A key acts once; when a dialog says that its action was recorded, what was     *)
(* confirmed in it last is what was recorded, not what an earlier confirmation    *)
(* had asked for under the key; a report is decided once, and a member has one    *)
(* pending report of an item (idempotency.ts:11-19; ReportButton.jsx:15;          *)
(* WorkflowPages.jsx:129; RefundPage, LearningPlatformPages.jsx:189).  What is    *)
(* typed while the call is out is not recorded, nor shown when it was.            *)
RecordedAsConfirmed ==
  /\ \A e, f \in acts : e.key = f.key => e = f
  /\ \A d \in Dialogs : dialog[d].step = "success" =>
       \E e \in acts : e.key = dialog[d].key /\ e.payload = dialog[d].keyed
                            /\ e.about = dialog[d].about
  /\ \A e, f \in acts : e.purpose = "decide" /\ f.purpose = "decide" /\ e.about = f.about => e = f
  /\ Cardinality({k \in 1..MaxKeys : Pending(k)}) <= 1
====
