---------------------------- MODULE TopUpProofs ----------------------------
(***************************************************************************)
(* Theorems about TopUp for every set of keys and payments.  A checkout    *)
(* that was handed out is known because the answer is stored with the      *)
(* session, and it is the only one of its key because a key is claimed by  *)
(* one request at a time and keeps the answer that was stored for it.      *)
(* Then about Notices, which arrive while connections come and go.         *)
(***************************************************************************)
EXTENDS TopUp, Notices, TLAPS

(* The request of p holds the claim on its key. *)
Active(p) == step[p] \in {"creating", "failing", "saving"}

(* A key is claimed by one request, or answers with the payment it made. *)
KeysAnswerOnce ==
  /\ \A p \in Payments :
       /\ step[p] # "none" => keyOf[p] \in Keys
       /\ Active(p) => paymentStatus[p] = "pending" /\ record[keyOf[p]] = "claimed"
       /\ step[p] = "answering" => Known(p)
       /\ Known(p) => keyOf[p] \in Keys /\ record[keyOf[p]] = p
       /\ keyOf[p] = NoKey => paymentStatus[p] = "none"
  /\ \A p, q \in Payments : Active(p) /\ Active(q) /\ keyOf[p] = keyOf[q] => p = q
  /\ \A k \in Keys : record[k] \in Payments => Known(record[k])

(* Stripe has no session before it is asked for one, and it reports as     *)
(* completed only what was paid.                                           *)
EventsAreTrue ==
  /\ \A p \in Payments : step[p] \in {"none", "creating"} => session[p] = "none"
  /\ \A e \in due : e[2] # "expired" => session[e[1]] = "paid"

Inv ==
  /\ TypeOK
  /\ KeysAnswerOnce
  /\ EventsAreTrue
  /\ PayableIsKnown
  /\ CreditedOnce

LEMMA InitInv == Init => Inv
BY KeyAssumption DEF Init, Inv, TypeOK, KeysAnswerOnce, Active, Known, EventsAreTrue, PayableIsKnown, CreditedOnce

LEMMA RequestStep ==
  ASSUME Inv, NEW p \in Payments,
         \/ \E k \in Keys : Prepare(k, p)
         \/ StripeCreates(p) \/ StripeFails(p) \/ Fail(p)
         \/ Save(p) \/ Answer(p) \/ Abandon(p)
  PROVE  Inv'
<1> USE DEF Inv, Active, Known
<1>1. ASSUME NEW k \in Keys, Prepare(k, p) PROVE Inv'
  <2>1. TypeOK'
    BY <1>1 DEF TypeOK, Prepare, eventVars
  <2>2. KeysAnswerOnce'
    BY <1>1, KeyAssumption DEF TypeOK, KeysAnswerOnce, Prepare, Claimable
  <2>3. EventsAreTrue' /\ PayableIsKnown' /\ CreditedOnce'
    BY <1>1, KeyAssumption DEF TypeOK, EventsAreTrue, PayableIsKnown, CreditedOnce, KeysAnswerOnce, Prepare, eventVars
  <2> QED
    BY <2>1, <2>2, <2>3
<1>2. CASE StripeCreates(p)
  <2>1. TypeOK'
    BY <1>2 DEF TypeOK, StripeCreates, eventVars
  <2>2. KeysAnswerOnce'
    BY <1>2 DEF TypeOK, KeysAnswerOnce, StripeCreates
  <2>3. EventsAreTrue' /\ PayableIsKnown' /\ CreditedOnce'
    BY <1>2 DEF TypeOK, EventsAreTrue, PayableIsKnown, CreditedOnce, KeysAnswerOnce, StripeCreates, eventVars
  <2> QED
    BY <2>1, <2>2, <2>3
<1>3. CASE StripeFails(p)
  <2>1. TypeOK'
    BY <1>3 DEF TypeOK, StripeFails, eventVars
  <2>2. KeysAnswerOnce'
    BY <1>3 DEF TypeOK, KeysAnswerOnce, StripeFails
  <2>3. EventsAreTrue' /\ PayableIsKnown' /\ CreditedOnce'
    BY <1>3 DEF TypeOK, EventsAreTrue, PayableIsKnown, CreditedOnce, KeysAnswerOnce, StripeFails, eventVars
  <2> QED
    BY <2>1, <2>2, <2>3
<1>4. CASE Fail(p)
  <2>1. TypeOK'
    BY <1>4 DEF TypeOK, Fail, eventVars
  <2>2. KeysAnswerOnce'
    BY <1>4, KeyAssumption DEF TypeOK, KeysAnswerOnce, Fail
  <2>3. EventsAreTrue' /\ PayableIsKnown' /\ CreditedOnce'
    BY <1>4 DEF TypeOK, EventsAreTrue, PayableIsKnown, CreditedOnce, KeysAnswerOnce, Fail, eventVars
  <2> QED
    BY <2>1, <2>2, <2>3
<1>5. CASE Save(p)
  <2>1. TypeOK'
    BY <1>5 DEF TypeOK, KeysAnswerOnce, Save, eventVars
  <2>2. KeysAnswerOnce'
    BY <1>5, KeyAssumption DEF TypeOK, KeysAnswerOnce, Save
  <2>3. EventsAreTrue' /\ PayableIsKnown' /\ CreditedOnce'
    BY <1>5 DEF TypeOK, EventsAreTrue, PayableIsKnown, CreditedOnce, KeysAnswerOnce, Save, eventVars
  <2> QED
    BY <2>1, <2>2, <2>3
<1>6. CASE Answer(p)
  <2>1. TypeOK'
    BY <1>6 DEF TypeOK, Answer, eventVars
  <2>2. KeysAnswerOnce'
    BY <1>6 DEF TypeOK, KeysAnswerOnce, Answer
  <2>3. EventsAreTrue' /\ PayableIsKnown' /\ CreditedOnce'
    BY <1>6 DEF TypeOK, EventsAreTrue, PayableIsKnown, CreditedOnce, KeysAnswerOnce, Answer, eventVars
  <2> QED
    BY <2>1, <2>2, <2>3
<1>7. CASE Abandon(p)
  <2>1. TypeOK'
    BY <1>7 DEF TypeOK, Abandon, eventVars
  <2>2. KeysAnswerOnce'
    BY <1>7 DEF TypeOK, KeysAnswerOnce, Abandon
  <2>3. EventsAreTrue' /\ PayableIsKnown' /\ CreditedOnce'
    BY <1>7 DEF TypeOK, EventsAreTrue, PayableIsKnown, CreditedOnce, KeysAnswerOnce, Abandon, Events, eventVars
  <2> QED
    BY <2>1, <2>2, <2>3
<1> QED
  BY <1>1, <1>2, <1>3, <1>4, <1>5, <1>6, <1>7

LEMMA CustomerStep ==
  ASSUME Inv,
         \/ \E k \in Keys : Replay(k)
         \/ \E p \in Payments : Pay(p) \/ Expire(p)
         \/ \E e \in Events : Acknowledge(e)
  PROVE  Inv'
<1> USE DEF Inv, Active, Known
<1>1. ASSUME NEW k \in Keys, Replay(k) PROVE Inv'
  <2>1. TypeOK'
    BY <1>1 DEF TypeOK, Replay, requestVars, eventVars
  <2>2. KeysAnswerOnce' /\ PayableIsKnown'
    BY <1>1 DEF TypeOK, KeysAnswerOnce, PayableIsKnown, Replay, requestVars
  <2>3. EventsAreTrue' /\ CreditedOnce'
    BY <1>1 DEF EventsAreTrue, CreditedOnce, Replay, requestVars, eventVars
  <2> QED
    BY <2>1, <2>2, <2>3
<1>2. ASSUME NEW p \in Payments, Pay(p) PROVE Inv'
  <2>1. TypeOK'
    BY <1>2 DEF TypeOK, Pay, requestVars, Events, Kinds
  <2>2. KeysAnswerOnce' /\ PayableIsKnown'
    BY <1>2 DEF KeysAnswerOnce, PayableIsKnown, Pay, requestVars
  <2>3. EventsAreTrue'
    BY <1>2 DEF TypeOK, EventsAreTrue, Pay, requestVars, Events
  <2>4. CreditedOnce'
    BY <1>2 DEF TypeOK, CreditedOnce, Pay
  <2> QED
    BY <2>1, <2>2, <2>3, <2>4
<1>3. ASSUME NEW p \in Payments, Expire(p) PROVE Inv'
  <2>1. TypeOK'
    BY <1>3 DEF TypeOK, Expire, requestVars, Events, Kinds
  <2>2. KeysAnswerOnce' /\ PayableIsKnown'
    BY <1>3 DEF KeysAnswerOnce, PayableIsKnown, Expire, requestVars
  <2>3. EventsAreTrue'
    BY <1>3 DEF TypeOK, EventsAreTrue, Expire, requestVars, Events
  <2>4. CreditedOnce'
    BY <1>3 DEF TypeOK, CreditedOnce, Expire
  <2> QED
    BY <2>1, <2>2, <2>3, <2>4
<1>4. ASSUME NEW e \in Events, Acknowledge(e) PROVE Inv'
  BY <1>4 DEF TypeOK, KeysAnswerOnce, EventsAreTrue, PayableIsKnown, CreditedOnce, Acknowledge, requestVars
<1> QED
  BY <1>1, <1>2, <1>3, <1>4

LEMMA WebhookStep ==
  ASSUME Inv, NEW e \in Events, Accept(e)
  PROVE  Inv'
<1> USE DEF Inv, Active, Known
<1> DEFINE p == e[1]
<1>1. p \in Payments
  BY DEF Events
<1>2. CASE ~ Creditable(e)
  BY <1>2 DEF TypeOK, KeysAnswerOnce, EventsAreTrue, PayableIsKnown, CreditedOnce, Accept, requestVars
<1>3. CASE Creditable(e)
  <2>1. session[p] = "paid" /\ Known(p) /\ paymentStatus[p] # "paid" /\ credits[p] = 0
    BY <1>1, <1>3 DEF TypeOK, EventsAreTrue, CreditedOnce, Accept, Creditable
  <2>2. /\ paymentStatus' = [paymentStatus EXCEPT ![p] = "paid"]
        /\ credits' = [credits EXCEPT ![p] = 1]
        /\ seen' = seen \cup {e}
        /\ UNCHANGED <<keyOf, record, step, session, held, due>>
    BY <1>1, <1>3, <2>1 DEF TypeOK, Accept, requestVars
  <2> HIDE DEF p
  <2>3. TypeOK'
    BY <1>1, <2>2 DEF TypeOK
  <2>4. KeysAnswerOnce' /\ PayableIsKnown'
    BY <1>1, <2>1, <2>2 DEF TypeOK, KeysAnswerOnce, PayableIsKnown
  <2>5. EventsAreTrue' /\ CreditedOnce'
    BY <1>1, <2>1, <2>2 DEF TypeOK, EventsAreTrue, CreditedOnce
  <2> QED
    BY <2>3, <2>4, <2>5
<1> QED
  BY <1>2, <1>3

THEOREM Invariance == Spec => []Inv
<1>1. Init => Inv
  BY InitInv
<1>2. Inv /\ [Next]_vars => Inv'
  <2> SUFFICES ASSUME Inv, [Next]_vars PROVE Inv'
    OBVIOUS
  <2>1. CASE UNCHANGED vars
    BY <2>1 DEF Inv, TypeOK, KeysAnswerOnce, Active, Known, EventsAreTrue, PayableIsKnown, CreditedOnce, vars, requestVars, eventVars
  <2>2. CASE Next
    BY <2>2, RequestStep, CustomerStep, WebhookStep DEF Next
  <2> QED
    BY <2>1, <2>2
<1> QED
  BY <1>1, <1>2, PTL DEF Spec

(* However often Stripe reports a payment it is credited once, and never   *)
(* before it was made (payments/stripe.ts:233-278).                        *)
THEOREM PaymentsCreditedOnce == Spec => [](TypeOK /\ CreditedOnce)
<1>1. Inv => TypeOK /\ CreditedOnce
  BY DEF Inv
<1> QED
  BY <1>1, Invariance, PTL

(* A checkout that a customer was handed is stored (payments/stripe.ts:158-166). *)
THEOREM HandedOutIsKnown == Spec => []PayableIsKnown
<1>1. Inv => PayableIsKnown
  BY DEF Inv
<1> QED
  BY <1>1, Invariance, PTL

(* One key never yields two checkouts (payments/stripe.ts:49-52, 151-152). *)
THEOREM KeysYieldOneCheckout == Spec => []OneCheckoutPerKey
<1>1. Inv => OneCheckoutPerKey
  <2> SUFFICES ASSUME Inv, NEW p \in held, NEW q \in held, keyOf[p] = keyOf[q]
               PROVE  p = q
    BY DEF OneCheckoutPerKey
  <2>1. p \in Payments /\ q \in Payments /\ Known(p) /\ Known(q)
    BY DEF Inv, TypeOK, PayableIsKnown
  <2> QED
    BY <2>1 DEF Inv, KeysAnswerOnce
<1> QED
  BY <1>1, Invariance, PTL

-----------------------------------------------------------------------------
(* What the promise sees of the payments.                                  *)
View == [p \in Payments |-> IF credits[p] > 0 THEN "credited"
                            ELSE IF session[p] = "paid" THEN "paid" ELSE "unpaid"]

(* Steps that neither credit nor pay are not seen.                         *)
LEMMA Unseen ==
  ASSUME credits' = credits, \A p \in Payments : session'[p] = "paid" <=> session[p] = "paid"
  PROVE  View' = View
BY DEF View

LEMMA PromiseStep ==
  ASSUME Inv, [Next]_vars
  PROVE  Promise!Next \/ View' = View
<1> USE DEF Inv
<1>1. CASE UNCHANGED vars
  BY <1>1, Unseen DEF vars, requestVars, eventVars
<1>2. ASSUME NEW p \in Payments,
             \/ \E k \in Keys : Prepare(k, p)
             \/ StripeCreates(p) \/ StripeFails(p) \/ Fail(p) \/ Save(p) \/ Answer(p) \/ Abandon(p) \/ Expire(p)
      PROVE  View' = View
  <2>1. credits' = credits
    BY <1>2 DEF Prepare, StripeCreates, StripeFails, Fail, Save, Answer, Abandon, Expire
  <2>2. \A q \in Payments : session'[q] = "paid" <=> session[q] = "paid"
    BY <1>2 DEF TypeOK, EventsAreTrue, Prepare, StripeCreates, StripeFails, Fail, Save, Answer, Abandon, Expire
  <2> QED BY <2>1, <2>2, Unseen
<1>3. CASE (\E k \in Keys : Replay(k)) \/ (\E e \in Events : Acknowledge(e))
  BY <1>3, Unseen DEF Replay, Acknowledge
<1>4. ASSUME NEW p \in Payments, Pay(p) PROVE Promise!Next
  <2>1. /\ credits' = credits /\ credits[p] = 0 /\ session[p] = "open"
        /\ session' = [session EXCEPT ![p] = "paid"] /\ session \in [Payments -> {"none", "open", "paid", "expired"}]
    BY <1>4 DEF Pay, TypeOK, CreditedOnce
  <2>2. View[p] = "unpaid"
    BY <2>1 DEF View
  <2>3. View' = [View EXCEPT ![p] = "paid"]
    <3>1. \A q \in Payments \ {p} : credits'[q] = credits[q] /\ session'[q] = session[q]
      BY <2>1
    <3>2. credits'[p] = 0 /\ session'[p] = "paid" /\ ~(0 > 0)
      BY <2>1
    <3> QED BY <3>1, <3>2 DEF View
  <2> QED BY <2>2, <2>3 DEF Promise!Next, Promise!Pay, View
<1>5. ASSUME NEW e \in Events, Accept(e) PROVE Promise!Next \/ View' = View
  <2> DEFINE p == e[1]
  <2>0. p \in Payments
    BY DEF Events
  <2>1. CASE ~ Creditable(e)
    BY <1>5, <2>1, Unseen DEF Accept
  <2>2. CASE Creditable(e)
    <3>1. /\ session' = session /\ session[p] = "paid" /\ credits[p] = 0 /\ credits' = [credits EXCEPT ![p] = 1]
          /\ credits \in [Payments -> 0..1]
      BY <1>5, <2>0, <2>2 DEF Accept, Creditable, TypeOK, EventsAreTrue, CreditedOnce
    <3> HIDE DEF p
    <3>2. View[p] = "paid"
      BY <2>0, <3>1 DEF View
    <3>3. View' = [View EXCEPT ![p] = "credited"]
      <4>1. \A q \in Payments \ {p} : credits'[q] = credits[q] /\ session'[q] = session[q]
        BY <3>1
      <4>2. credits'[p] = 1 /\ 1 > 0
        BY <2>0, <3>1
      <4> QED BY <4>1, <4>2 DEF View
    <3> QED BY <2>0, <3>2, <3>3 DEF Promise!Next, Promise!Credit, View
  <2> QED BY <2>1, <2>2
<1> QED BY <1>1, <1>2, <1>3, <1>4, <1>5 DEF Next

(* Every step of requests, customers, Stripe and the webhook is a step of  *)
(* the promise or none: a payment is credited after it was made, and once. *)
(* That it is credited in the end is left to TLC (payments/stripe.ts:232-285). *)
THEOREM PromiseKept == Spec => Promise!Safety
<1>1. Init => Promise!Init
  BY DEF Init, Promise!Init
<1>2. Inv /\ [Next]_vars => [Promise!Next]_View
  BY PromiseStep
<1> QED
  BY <1>1, <1>2, Invariance, PTL DEF Spec, Promise!Safety, View

-----------------------------------------------------------------------------
(***************************************************************************)
(* Notices of decided refunds.  A request that is not woken was subscribed *)
(* on the connection that still listens, and what the page may still show  *)
(* has not been dismissed.                                                 *)
(***************************************************************************)
Waits(q) == poll[q].at = "waiting" /\ poll[q].listening /\ ~poll[q].woken

(* Who is to be woken by the connection is among those it wakes.           *)
SubscribersListen ==
  \A q \in Polls :
    /\ poll[q].at \in {"starting", "waiting"} \/ poll[q].listening => poll[q].wait
    /\ poll[q].at = "starting" => ~poll[q].listening
    /\ poll[q].at \in {"read", "waiting"} /\ poll[q].listening /\ ~poll[q].woken => connection = "listening"
    /\ Waits(q) /\ Unread # {} => signals # {}

(* One notice at a time, between two polls; an answer that will be shown is newer
   than every dismissal.                                                   *)
NothingStale ==
  /\ page.notice # NoNotice => page.current = NoPoll /\ page.notice \notin dismissed
  /\ page.notice # NoNotice \/ page.current # NoPoll => page.timer = "none"
  /\ page.saving => page.notice # NoNotice
  /\ \A d \in dismissed : notification[d] = "read"
  /\ \A q \in Polls :
       /\ poll[q].at \in {"free", "starting", "read"} => poll[q].found = {}
       /\ page.current = q => poll[q].found \cap dismissed = {}

NoticeInv == NoticeTypeOK /\ SubscribersListen /\ NothingStale

LEMMA NoticeInvInit == NoticeInit => NoticeInv
<1> SUFFICES ASSUME NoticeInit PROVE NoticeInv
  OBVIOUS
<1>1. NoticeTypeOK
  BY DEF NoticeInit, NoticeTypeOK, Free, NoPoll, NoNotice
<1>2. SubscribersListen
  BY DEF NoticeInit, SubscribersListen, Waits, Free
<1>3. NothingStale
  BY NoticeAssumption DEF NoticeInit, NothingStale, Free, NoPoll, NoNotice, NoticeAssumption
<1> QED BY <1>1, <1>2, <1>3 DEF NoticeInv

PollRecords == [at : {"free", "starting", "read", "waiting", "reread", "answer"},
                wait : BOOLEAN, listening : BOOLEAN, woken : BOOLEAN, found : SUBSET Decisions]

(* A request is woken, and nothing else happens to it. *)
LEMMA WokenPoll ==
  ASSUME NEW p \in PollRecords, NEW b \in BOOLEAN
  PROVE  LET r == [p EXCEPT !.woken = b] IN
         /\ r \in PollRecords
         /\ r.at = p.at /\ r.wait = p.wait /\ r.listening = p.listening /\ r.found = p.found
         /\ r.woken = b
BY DEF PollRecords

LEMMA WokenAll ==
  ASSUME NoticeTypeOK, poll' = WakeAll
  PROVE  /\ poll' \in [Polls -> PollRecords]
         /\ \A q \in Polls :
              /\ poll'[q].at = poll[q].at /\ poll'[q].wait = poll[q].wait
              /\ poll'[q].listening = poll[q].listening /\ poll'[q].found = poll[q].found
              /\ poll'[q].woken = (poll[q].woken \/ Subscribed(q))
<1> DEFINE b(q) == poll[q].woken \/ Subscribed(q)
<1>1. \A q \in Polls : poll[q] \in PollRecords /\ b(q) \in BOOLEAN
  BY DEF NoticeTypeOK, PollRecords
<1>2. poll' = [q \in Polls |-> [poll[q] EXCEPT !.woken = b(q)]]
  BY DEF WakeAll
<1> HIDE DEF b
<1>3. ASSUME NEW q \in Polls
      PROVE  /\ poll'[q] \in PollRecords
             /\ poll'[q].at = poll[q].at /\ poll'[q].wait = poll[q].wait
             /\ poll'[q].listening = poll[q].listening /\ poll'[q].found = poll[q].found
             /\ poll'[q].woken = b(q)
  <2>1. poll'[q] = [poll[q] EXCEPT !.woken = b(q)]
    BY <1>2
  <2> QED BY <1>1, <2>1, WokenPoll
<1>4. poll' \in [Polls -> PollRecords]
  <2>1. poll' = [q \in Polls |-> poll'[q]]
    BY <1>2
  <2> QED BY <1>3, <2>1
<1> QED BY <1>3, <1>4 DEF b

(* A request becomes another record, the others rest. *)
LEMMA OnePoll ==
  ASSUME NoticeTypeOK, NEW q \in Polls, NEW r \in PollRecords, poll' = [poll EXCEPT ![q] = r]
  PROVE  /\ poll' \in [Polls -> PollRecords] /\ poll'[q] = r
         /\ \A p \in Polls : p # q => poll'[p] = poll[p]
BY DEF NoticeTypeOK, PollRecords

(* The decision, its signal and the connection (notification-events.ts:21-94). *)
LEMMA SignalsKeep ==
  ASSUME NoticeInv,
         \/ \E d \in Decisions : DecideRefund(d) \/ ReceiveSignal(d)
         \/ \E listens \in BOOLEAN : Listen(listens)
         \/ Disconnect
  PROVE  NoticeInv'
<1>0. NoticeTypeOK /\ SubscribersListen /\ NothingStale
  BY DEF NoticeInv
<1>1. ASSUME NEW d \in Decisions, DecideRefund(d) PROVE NoticeInv'
  <2>1. NoticeTypeOK'
    BY <1>0, <1>1 DEF DecideRefund, NoticeTypeOK
  <2>2. SubscribersListen'
    BY <1>0, <1>1 DEF DecideRefund, SubscribersListen, Waits, Unread
  <2>3. NothingStale'
    BY <1>0, <1>1 DEF DecideRefund, NothingStale, NoticeTypeOK
  <2> QED BY <2>1, <2>2, <2>3 DEF NoticeInv
<1>2. ASSUME (\E d \in Decisions : ReceiveSignal(d)) \/ Disconnect PROVE NoticeInv'
  <2>0. poll' = WakeAll /\ UNCHANGED <<notification, page, dismissed>> /\ signals' \subseteq signals
        /\ connection' \in {"none", connection}
    BY <1>2 DEF ReceiveSignal, Disconnect
  <2>1. NoticeTypeOK'
    BY <1>0, <2>0, WokenAll DEF NoticeTypeOK, PollRecords
  <2>2. SubscribersListen'
    BY <1>0, <2>0, WokenAll DEF SubscribersListen, Waits, Unread, Subscribed, NoticeTypeOK
  <2>3. NothingStale'
    BY <1>0, <2>0, WokenAll DEF NothingStale
  <2> QED BY <2>1, <2>2, <2>3 DEF NoticeInv
<1>3. ASSUME NEW listens \in BOOLEAN, Listen(listens) PROVE NoticeInv'
  <2>0. /\ connection = "starting" /\ connection' = (IF listens THEN "listening" ELSE "none")
        /\ UNCHANGED <<notification, signals, page, dismissed>>
    BY ZenonT(60), <1>3 DEF Listen
  <2>1. /\ poll' \in [Polls -> PollRecords]
        /\ \A q \in Polls :
             /\ poll[q].at = "starting" =>
                  /\ poll'[q].at = "read" /\ poll'[q].listening = listens
                  /\ poll'[q].woken = (poll[q].woken \/ ~listens)
             /\ poll[q].at # "starting" =>
                  /\ poll'[q].at = poll[q].at /\ poll'[q].listening = poll[q].listening
                  /\ poll'[q].woken = (poll[q].woken \/ (Subscribed(q) /\ ~listens))
             /\ poll'[q].wait = poll[q].wait /\ poll'[q].found = poll[q].found
    <3> DEFINE b(q) == poll[q].woken \/ ~listens
               c(q) == poll[q].woken \/ (Subscribed(q) /\ ~listens)
    <3>1. \A q \in Polls : poll[q] \in PollRecords /\ b(q) \in BOOLEAN /\ c(q) \in BOOLEAN
      BY SMTT(40), <1>0 DEF NoticeTypeOK, PollRecords
    <3>2. poll' = [q \in Polls |->
             IF poll[q].at = "starting"
             THEN [poll[q] EXCEPT !.at = "read", !.listening = listens, !.woken = b(q)]
             ELSE [poll[q] EXCEPT !.woken = c(q)]]
      BY ZenonT(60), <1>3 DEF Listen
    <3> HIDE DEF b, c
    <3>3. ASSUME NEW q \in Polls
          PROVE  /\ poll'[q] \in PollRecords
                 /\ poll[q].at = "starting" =>
                      /\ poll'[q].at = "read" /\ poll'[q].listening = listens /\ poll'[q].woken = b(q)
                 /\ poll[q].at # "starting" =>
                      /\ poll'[q].at = poll[q].at /\ poll'[q].listening = poll[q].listening
                      /\ poll'[q].woken = c(q)
                 /\ poll'[q].wait = poll[q].wait /\ poll'[q].found = poll[q].found
      <4>1. CASE poll[q].at = "starting"
        <5>1. poll'[q] = [poll[q] EXCEPT !.at = "read", !.listening = listens, !.woken = b(q)]
          BY <3>2, <4>1
        <5> QED BY <3>1, <4>1, <5>1 DEF PollRecords
      <4>2. CASE poll[q].at # "starting"
        <5>1. poll'[q] = [poll[q] EXCEPT !.woken = c(q)]
          BY <3>2, <4>2
        <5> QED BY <3>1, <4>2, <5>1, WokenPoll
      <4> QED BY <4>1, <4>2
    <3>4. poll' \in [Polls -> PollRecords]
      <4>1. poll' = [q \in Polls |-> poll'[q]]
        BY <3>2
      <4> QED BY <3>3, <4>1
    <3> QED BY <3>3, <3>4 DEF b, c
  <2>2. NoticeTypeOK'
    BY <1>0, <2>0, <2>1 DEF NoticeTypeOK, PollRecords
  <2>4. NothingStale'
    BY <1>0, <2>0, <2>1 DEF NothingStale
  <2>3. \A q \in Polls : poll[q].at = "starting" => poll[q].wait
    BY <1>0 DEF SubscribersListen
  <2>5. SubscribersListen'
    BY <1>0, <2>0, <2>1, <2>3 DEF SubscribersListen, Waits, Unread, Subscribed, NoticeTypeOK
  <2> QED BY SMTT(40), <2>2, <2>4, <2>5 DEF NoticeInv
<1> QED BY <1>1, <1>2, <1>3

(* The requests of the page at the API (notifications.ts:30-66). *)
LEMMA PollsKeep ==
  ASSUME NoticeInv, NEW q \in Polls,
         StartPoll(q) \/ ReadUnread(q) \/ Wake(q) \/ WaitEnds(q) \/ ReadAgain(q)
           \/ ReceiveAnswer(q) \/ LosePoll(q)
  PROVE  NoticeInv'
<1>0. NoticeTypeOK /\ SubscribersListen /\ NothingStale /\ poll[q] \in PollRecords
  BY DEF NoticeInv, NoticeTypeOK, PollRecords
<1>u. Unread \subseteq Decisions /\ Unread \cap dismissed = {}
  BY <1>0 DEF Unread, NothingStale
<1>1. UNCHANGED <<notification, signals, dismissed>>
  BY DEF StartPoll, ReadUnread, Wake, WaitEnds, ReadAgain, ReceiveAnswer, LosePoll
<1>2. CASE StartPoll(q)
  <2> DEFINE r == Subscribe(page.timer = "next")
  <2>1. PICK w \in BOOLEAN : w = (page.timer = "next")
    OBVIOUS
  <2>2. r = Subscribe(w)
    BY <2>1
  <2> HIDE DEF r
  <2>3. /\ r \in PollRecords /\ r.found = {} /\ r.at \in {"read", "starting"} /\ r.wait = w
        /\ r.at = "starting" <=> w /\ connection # "listening"
        /\ r.listening <=> w /\ connection = "listening"
    <3>1. CASE w = TRUE
      BY <2>2, <3>1 DEF Subscribe, Free, PollRecords
    <3>2. CASE w = FALSE
      BY <2>2, <3>2 DEF Subscribe, Free, PollRecords
    <3> QED BY <3>1, <3>2
  <2>4. /\ poll' = [poll EXCEPT ![q] = r]
        /\ connection' = (IF w /\ connection = "none" THEN "starting" ELSE connection)
        /\ page' = [page EXCEPT !.current = q, !.timer = "none"] /\ page.timer # "none"
    BY <1>2, <2>1, <2>2 DEF StartPoll
  <2>5. poll' \in [Polls -> PollRecords] /\ poll'[q] = r /\ \A p \in Polls : p # q => poll'[p] = poll[p]
    BY <1>0, <2>3, <2>4, OnePoll
  <2>6. /\ page'.current = q /\ page'.notice = page.notice /\ page'.saving = page.saving /\ page'.timer = "none"
        /\ page.notice = NoNotice
    BY <1>0, <2>4 DEF NoticeTypeOK, NothingStale
  <2>7. NoticeTypeOK'
    BY <1>0, <1>1, <2>4, <2>5 DEF NoticeTypeOK, PollRecords
  <2>8. SubscribersListen'
    BY <1>0, <1>1, <2>3, <2>4, <2>5 DEF SubscribersListen, Waits, Unread
  <2>9. NothingStale'
    BY <1>0, <1>1, <2>3, <2>5, <2>6 DEF NothingStale
  <2> QED BY <2>7, <2>8, <2>9 DEF NoticeInv
<1>3. CASE ReadUnread(q) \/ Wake(q) \/ WaitEnds(q) \/ ReadAgain(q)
  <2>1. UNCHANGED <<connection, page>>
    BY <1>3 DEF ReadUnread, Wake, WaitEnds, ReadAgain
  <2>2. PICK r \in PollRecords :
          /\ poll' = [poll EXCEPT ![q] = r]
          /\ r.wait = poll[q].wait /\ r.listening = poll[q].listening /\ r.woken = poll[q].woken
          /\ r.at \in {"waiting", "reread", "answer"} /\ r.found \in {Unread, poll[q].found}
          /\ r.at = "waiting" => poll[q].wait /\ poll[q].at = "read" /\ Unread = {}
    <3>1. CASE ReadUnread(q)
      <4> DEFINE a == IF Unread = {} /\ poll[q].wait THEN "waiting" ELSE "answer"
                 r == [poll[q] EXCEPT !.at = a, !.found = Unread]
      <4>1. a \in {"waiting", "answer"} /\ (a = "waiting" => Unread = {} /\ poll[q].wait)
        OBVIOUS
      <4>2. poll' = [poll EXCEPT ![q].at = a, ![q].found = Unread] /\ poll[q].at = "read"
        BY <3>1 DEF ReadUnread
      <4> HIDE DEF a
      <4>3. poll' = [poll EXCEPT ![q] = r]
        BY <1>0, <4>2 DEF NoticeTypeOK, PollRecords
      <4>4. /\ r \in PollRecords /\ r.at = a /\ r.found = Unread
            /\ r.wait = poll[q].wait /\ r.listening = poll[q].listening /\ r.woken = poll[q].woken
        BY <1>0, <1>u, <4>1 DEF PollRecords
      <4> HIDE DEF r
      <4> QED BY <4>1, <4>2, <4>3, <4>4
    <3>2. CASE Wake(q) \/ WaitEnds(q)
      <4> DEFINE r == [poll[q] EXCEPT !.at = "reread"]
      <4>1. poll' = [poll EXCEPT ![q] = r]
        BY <1>0, <3>2 DEF Wake, WaitEnds, NoticeTypeOK, PollRecords
      <4>2. /\ r \in PollRecords /\ r.at = "reread" /\ r.found = poll[q].found
            /\ r.wait = poll[q].wait /\ r.listening = poll[q].listening /\ r.woken = poll[q].woken
        BY <1>0 DEF PollRecords
      <4> HIDE DEF r
      <4> QED BY <4>1, <4>2
    <3>3. CASE ReadAgain(q)
      <4> DEFINE r == [poll[q] EXCEPT !.at = "answer", !.found = Unread]
      <4>1. poll' = [poll EXCEPT ![q].at = "answer", ![q].found = Unread]
        BY <3>3 DEF ReadAgain
      <4>2. poll' = [poll EXCEPT ![q] = r]
        BY <1>0, <4>1 DEF NoticeTypeOK, PollRecords
      <4>3. /\ r \in PollRecords /\ r.at = "answer" /\ r.found = Unread
            /\ r.wait = poll[q].wait /\ r.listening = poll[q].listening /\ r.woken = poll[q].woken
        BY <1>0, <1>u DEF PollRecords
      <4> HIDE DEF r
      <4> QED BY <4>2, <4>3
    <3> QED BY <1>3, <3>1, <3>2, <3>3
  <2>5. poll' \in [Polls -> PollRecords] /\ poll'[q] = r /\ \A p \in Polls : p # q => poll'[p] = poll[p]
    BY <1>0, <2>2, OnePoll
  <2>7. NoticeTypeOK'
    BY <1>0, <1>1, <2>1, <2>5 DEF NoticeTypeOK, PollRecords
  <2>8. SubscribersListen'
    BY <1>0, <1>1, <2>1, <2>2, <2>5 DEF SubscribersListen, Waits, Unread
  <2>9. NothingStale'
    BY <1>0, <1>1, <1>u, <2>1, <2>2, <2>5 DEF NothingStale
  <2> QED BY <2>7, <2>8, <2>9 DEF NoticeInv
<1>4. CASE ReceiveAnswer(q) \/ LosePoll(q)
  <2>0. Free \in PollRecords /\ Free.at = "free" /\ Free.found = {} /\ Free.wait = FALSE /\ Free.listening = FALSE
    BY DEF Free, PollRecords
  <2>1. UNCHANGED connection /\ poll' = [poll EXCEPT ![q] = Free]
    BY <1>4 DEF ReceiveAnswer, LosePoll
  <2>5. poll' \in [Polls -> PollRecords] /\ poll'[q] = Free /\ \A p \in Polls : p # q => poll'[p] = poll[p]
    BY <1>0, <2>0, <2>1, OnePoll
  <2>2. \/ page' = page /\ page.current # q
        \/ page.current = q /\ \E d \in poll[q].found : page' = [page EXCEPT !.current = NoPoll, !.notice = d]
        \/ page.current = q /\ \E t \in {"now", "next"} : page' = [page EXCEPT !.current = NoPoll, !.timer = t]
    <3>1. CASE page.current # q
      BY <1>4, <3>1 DEF ReceiveAnswer, LosePoll
    <3>2. CASE page.current = q /\ ReceiveAnswer(q) /\ poll[q].found # {}
      BY <3>2 DEF ReceiveAnswer
    <3>3. CASE page.current = q /\ ReceiveAnswer(q) /\ poll[q].found = {}
      BY <3>3 DEF ReceiveAnswer
    <3>4. CASE page.current = q /\ LosePoll(q)
      BY <3>4 DEF LosePoll
    <3> QED BY <1>4, <3>1, <3>2, <3>3, <3>4
  <2>3. page.current = q => page.notice = NoNotice /\ ~page.saving /\ q # NoPoll /\ poll[q].found \cap dismissed = {}
    BY <1>0, NoticeAssumption DEF NothingStale, NoticeAssumption, NoPoll, NoticeTypeOK
  <2>4. page \in [current : Polls \cup {NoPoll}, timer : {"none", "now", "next"},
                  notice : Decisions \cup {NoNotice}, saving : BOOLEAN]
        /\ poll[q].found \subseteq Decisions
    BY <1>0 DEF NoticeTypeOK, PollRecords
  <2>t. page.current = q /\ (\E d \in poll[q].found : page' = [page EXCEPT !.current = NoPoll, !.notice = d]) => page.timer = "none"
    BY <1>0, <2>3 DEF NothingStale
  <2>6. /\ page' \in [current : Polls \cup {NoPoll}, timer : {"none", "now", "next"},
                   notice : Decisions \cup {NoNotice}, saving : BOOLEAN]
        /\ page'.notice # NoNotice => page'.current = NoPoll /\ page'.notice \notin dismissed
        /\ page'.notice # NoNotice \/ page'.current # NoPoll => page'.timer = "none"
        /\ page'.saving => page'.notice # NoNotice
        /\ page'.current \in {page.current, NoPoll}
    BY <1>0, <2>2, <2>3, <2>4, <2>t DEF NothingStale
  <2>7. NoticeTypeOK'
    BY <1>0, <1>1, <2>1, <2>5, <2>6 DEF NoticeTypeOK, PollRecords
  <2>8. SubscribersListen'
    BY <1>0, <1>1, <2>0, <2>1, <2>5 DEF SubscribersListen, Waits, Unread
  <2>9. NothingStale'
    BY <1>0, <1>1, <2>0, <2>5, <2>6, NoticeAssumption DEF NothingStale, NoPoll, NoticeAssumption
  <2> QED BY <2>7, <2>8, <2>9 DEF NoticeInv
<1> QED BY <1>2, <1>3, <1>4

(* The page between its polls (RefundDecisionNotice.jsx:24-67). *)
LEMMA PageKeeps ==
  ASSUME NoticeInv, Resume \/ Dismiss \/ ConfirmDismissal
  PROVE  NoticeInv'
<1>0. NoticeTypeOK /\ SubscribersListen /\ NothingStale
  BY DEF NoticeInv
<1>1. UNCHANGED <<connection, signals, poll>>
  BY DEF Resume, Dismiss, ConfirmDismissal
<1>2. page \in [current : Polls \cup {NoPoll}, timer : {"none", "now", "next"},
                notice : Decisions \cup {NoNotice}, saving : BOOLEAN]
  BY <1>0 DEF NoticeTypeOK
<1>3. NoPoll \notin Polls /\ NoNotice \notin Decisions
  BY NoticeAssumption DEF NoticeAssumption, NoPoll, NoNotice
<1>4. CASE Resume
  <2>1. /\ page' = [page EXCEPT !.current = NoPoll, !.timer = "now"] /\ page.notice = NoNotice
        /\ UNCHANGED <<notification, dismissed>>
    BY <1>4 DEF Resume
  <2>2. NoticeTypeOK'
    BY <1>0, <1>1, <1>2, <2>1 DEF NoticeTypeOK
  <2>3. SubscribersListen'
    BY <1>0, <1>1, <2>1 DEF SubscribersListen, Waits, Unread
  <2>4. NothingStale'
    BY <1>0, <1>1, <1>2, <1>3, <2>1 DEF NothingStale
  <2> QED BY <2>2, <2>3, <2>4 DEF NoticeInv
<1>5. CASE Dismiss
  <2>1. /\ page' = [page EXCEPT !.saving = TRUE] /\ page.notice # NoNotice /\ dismissed' = dismissed
        /\ notification' \in {notification, [notification EXCEPT ![page.notice] = "read"]}
    BY <1>5 DEF Dismiss
  <2>2. page.notice \in Decisions
    BY <1>2, <2>1
  <2>3. NoticeTypeOK'
    BY <1>0, <1>1, <1>2, <2>1, <2>2 DEF NoticeTypeOK
  <2>4. Unread' \subseteq Unread
    BY <1>0, <2>1, <2>2 DEF Unread, NoticeTypeOK
  <2>5. SubscribersListen'
    BY <1>0, <1>1, <2>4 DEF SubscribersListen, Waits
  <2>6. \A d \in dismissed : notification'[d] = "read"
    BY <1>0, <2>1, <2>2 DEF NothingStale, NoticeTypeOK
  <2>7. NothingStale'
    BY <1>0, <1>1, <1>2, <2>1, <2>6 DEF NothingStale
  <2> QED BY <2>3, <2>5, <2>7 DEF NoticeInv
<1>6. CASE ConfirmDismissal
  <2>0. page.notice \in Decisions /\ page.notice # NoNotice /\ notification' = notification
    BY <1>0, <1>2, <1>6 DEF ConfirmDismissal, NothingStale
  <2>1. CASE /\ notification[page.notice] = "read"
             /\ dismissed' = dismissed \cup {page.notice}
             /\ page' = [current |-> NoPoll, timer |-> "now", notice |-> NoNotice, saving |-> FALSE]
    <3>1. NoticeTypeOK'
      BY <1>0, <1>1, <2>0, <2>1 DEF NoticeTypeOK, NoPoll, NoNotice
    <3>2. SubscribersListen'
      BY <1>0, <1>1, <2>0 DEF SubscribersListen, Waits, Unread
    <3>3. NothingStale'
      BY <1>0, <1>1, <1>3, <2>0, <2>1 DEF NothingStale
    <3> QED BY <3>1, <3>2, <3>3 DEF NoticeInv
  <2>2. CASE page' = [page EXCEPT !.saving = FALSE] /\ UNCHANGED dismissed
    <3>1. NoticeTypeOK'
      BY <1>0, <1>1, <1>2, <2>0, <2>2 DEF NoticeTypeOK
    <3>2. SubscribersListen'
      BY <1>0, <1>1, <2>0 DEF SubscribersListen, Waits, Unread
    <3>3. NothingStale'
      BY <1>0, <1>1, <1>2, <2>0, <2>2 DEF NothingStale
    <3> QED BY <3>1, <3>2, <3>3 DEF NoticeInv
  <2> QED BY <1>6, <2>1, <2>2 DEF ConfirmDismissal
<1> QED BY <1>4, <1>5, <1>6

LEMMA NoticeInvStep == NoticeInv /\ [NoticeNext]_noticeVars => NoticeInv'
<1> SUFFICES ASSUME NoticeInv, [NoticeNext]_noticeVars PROVE NoticeInv'
  OBVIOUS
<1>1. CASE UNCHANGED noticeVars
  BY <1>1 DEF noticeVars, NoticeInv, NoticeTypeOK, SubscribersListen, Waits, Unread, NothingStale
<1> QED BY <1>1, SignalsKeep, PollsKeep, PageKeeps DEF NoticeNext

(* For any decisions and any number of requests, whatever connections and  *)
(* calls are lost: a request that waits on a connection learns of what it  *)
(* waits for, and a notice that was dismissed is not shown again           *)
(* (notifications.ts:47-66, RefundDecisionNotice.jsx:24-37).               *)
THEOREM NoticesAlwaysKeepUp == NoticeSpec => []NoticesKeepUp
<1>1. NoticeInv => NoticesKeepUp
  <2> SUFFICES ASSUME NoticeInv PROVE NoticesKeepUp
    OBVIOUS
  <2>1. NoLostWakeUp
    BY DEF NoticeInv, NoticeTypeOK, SubscribersListen, Waits, NoLostWakeUp
  <2>2. DismissedStaysGone
    <3> SUFFICES ASSUME page.notice \in dismissed PROVE FALSE
      BY DEF DismissedStaysGone
    <3> QED BY NoticeAssumption DEF NoticeInv, NoticeTypeOK, NothingStale, NoticeAssumption, NoNotice
  <2> QED BY <2>1, <2>2 DEF NoticesKeepUp
<1> QED BY <1>1, NoticeInvInit, NoticeInvStep, PTL DEF NoticeSpec
=============================================================================
