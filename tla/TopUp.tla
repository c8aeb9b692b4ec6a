------------------------------- MODULE TopUp -------------------------------
(***************************************************************************)
(* Buying points with Stripe.  Creating a checkout takes three steps: a    *)
(* transaction that claims the idempotency key and inserts the payment, a  *)
(* call to Stripe, and a transaction that stores the session and the       *)
(* answer (or, when Stripe refuses, marks the payment failed and gives the *)
(* key back).  The API may stop between any two of them.  Stripe then      *)
(* reports what became of the session by events, which it delivers again   *)
(* until they are answered, in any order, and sometimes in two copies that *)
(* have ids of their own.                                                  *)
(*                                                                         *)
(* Each transaction is atomic.  The key is claimed by a SELECT and an      *)
(* INSERT: of two first submissions at once, the unique constraint lets    *)
(* one in and rolls the other back (payments/stripe.ts:44-57).             *)
(***************************************************************************)
EXTENDS Naturals

CONSTANTS
  Keys,      \* idempotency keys of one member's submissions
  NoKey,     \* key of a payment that does not exist yet
  Payments   \* payment transactions that may be inserted

ASSUME KeyAssumption ==
  /\ NoKey \notin Keys
  /\ {"free", "claimed"} \cap Payments = {}

Kinds == {"completed", "repeated", "expired"}
Events == Payments \X Kinds

VARIABLES
  keyOf,    \* key that the payment was submitted with
  record,   \* idempotency_records of a key: free, claimed, or its answer
  step,     \* what the request that made the payment does next
  paymentStatus, \* payment_transactions.payment_status
  session,  \* the checkout session at Stripe
  held,     \* payments whose checkout the customer was handed
  due,      \* events that Stripe goes on delivering
  seen,     \* stripe_payment_events
  credits   \* point transactions posted for the payment

requestVars == <<keyOf, record, step>>
eventVars == <<due, seen>>
vars == <<requestVars, paymentStatus, session, held, eventVars, credits>>

Init ==
  /\ keyOf = [p \in Payments |-> NoKey]
  /\ record = [k \in Keys |-> "free"]
  /\ step = [p \in Payments |-> "none"]
  /\ paymentStatus = [p \in Payments |-> "none"]
  /\ session = [p \in Payments |-> "none"]
  /\ held = {}
  /\ due = {}
  /\ seen = {}
  /\ credits = [p \in Payments |-> 0]

(* provider_transaction_id was stored: the webhook finds the payment. *)
Known(p) == paymentStatus[p] \in {"checkout_created", "paid"}

-----------------------------------------------------------------------------
(* Creating a checkout session *)

(* Mutant: a claim without an answer is taken over. *)
Claimable_Unanswered(k) == record[k] \in {"free", "claimed"}

Claimable(k) == record[k] = "free"

(* The key is claimed and the payment inserted. *)
Prepare(k, p) ==
  /\ keyOf[p] = NoKey
  /\ Claimable(k)
  /\ keyOf' = [keyOf EXCEPT ![p] = k]
  /\ record' = [record EXCEPT ![k] = "claimed"]
  /\ step' = [step EXCEPT ![p] = "creating"]
  /\ paymentStatus' = [paymentStatus EXCEPT ![p] = "pending"]
  /\ UNCHANGED <<session, held, eventVars, credits>>

(* Mutant: the customer is sent to Stripe before the session is stored. *)
StripeCreates_AnswersFirst(p) ==
  /\ step[p] = "creating"
  /\ step' = [step EXCEPT ![p] = "saving"]
  /\ session' = [session EXCEPT ![p] = "open"]
  /\ held' = held \cup {p}
  /\ UNCHANGED <<keyOf, record, paymentStatus, eventVars, credits>>

StripeCreates(p) ==
  /\ step[p] = "creating"
  /\ step' = [step EXCEPT ![p] = "saving"]
  /\ session' = [session EXCEPT ![p] = "open"]
  /\ UNCHANGED <<keyOf, record, paymentStatus, held, eventVars, credits>>

(* The call fails; after a timeout Stripe may have made the session. *)
StripeFails(p) ==
  /\ step[p] = "creating"
  /\ step' = [step EXCEPT ![p] = "failing"]
  /\ \E s \in {"none", "open"} : session' = [session EXCEPT ![p] = s]
  /\ UNCHANGED <<keyOf, record, paymentStatus, held, eventVars, credits>>

(* The payment is marked failed and its key may be submitted again. *)
Fail(p) ==
  /\ step[p] = "failing"
  /\ step' = [step EXCEPT ![p] = "done"]
  /\ paymentStatus' = [paymentStatus EXCEPT ![p] = "failed"]
  /\ record' = [record EXCEPT ![keyOf[p]] = "free"]
  /\ UNCHANGED <<keyOf, session, held, eventVars, credits>>

(* The session and the answer are stored. *)
Save(p) ==
  /\ step[p] = "saving"
  /\ step' = [step EXCEPT ![p] = "answering"]
  /\ paymentStatus' = [paymentStatus EXCEPT ![p] = "checkout_created"]
  /\ record' = [record EXCEPT ![keyOf[p]] = p]
  /\ UNCHANGED <<keyOf, session, held, eventVars, credits>>

(* The answer reaches the customer. *)
Answer(p) ==
  /\ step[p] = "answering"
  /\ step' = [step EXCEPT ![p] = "done"]
  /\ held' = held \cup {p}
  /\ UNCHANGED <<keyOf, record, paymentStatus, session, eventVars, credits>>

(* The request dies: the API stops, a transaction fails, Stripe returns no *)
(* URL.  Nobody comes back to the payment or to the claim on its key.      *)
Abandon(p) ==
  /\ step[p] \in {"creating", "failing", "saving", "answering"}
  /\ step' = [step EXCEPT ![p] = "done"]
  /\ \/ UNCHANGED session
     \/ step[p] = "creating" /\ session' = [session EXCEPT ![p] = "open"]
  /\ UNCHANGED <<keyOf, record, paymentStatus, held, eventVars, credits>>

(* The key is submitted again and the stored answer returned. *)
Replay(k) ==
  /\ record[k] \in Payments
  /\ held' = held \cup {record[k]}
  /\ UNCHANGED <<requestVars, paymentStatus, session, eventVars, credits>>

-----------------------------------------------------------------------------
(* Stripe *)

(* The customer pays; Stripe makes one event of it, or two. *)
Pay(p) ==
  /\ p \in held
  /\ session[p] = "open"
  /\ session' = [session EXCEPT ![p] = "paid"]
  /\ \/ due' = due \cup {<<p, "completed">>}
     \/ due' = due \cup {<<p, "completed">>, <<p, "repeated">>}
  /\ UNCHANGED <<requestVars, paymentStatus, held, seen, credits>>

Expire(p) ==
  /\ session[p] = "open"
  /\ session' = [session EXCEPT ![p] = "expired"]
  /\ due' = due \cup {<<p, "expired">>}
  /\ UNCHANGED <<requestVars, paymentStatus, held, seen, credits>>

(* An answered event is not delivered again. *)
Acknowledge(e) ==
  /\ e \in due \cap seen
  /\ due' = due \ {e}
  /\ UNCHANGED <<requestVars, paymentStatus, session, held, seen, credits>>

-----------------------------------------------------------------------------
(* The webhook *)

(* A completed session of a payment that was not credited yet. *)
Creditable(e) == e[2] # "expired" /\ paymentStatus[e[1]] # "paid"

(* The transaction of an event whose id is new.  One that finds no payment *)
(* is rolled back, its mark included, and will be delivered again.         *)
Accept(e) ==
  LET p == e[1] IN
  /\ e \in due \ seen
  /\ e[2] # "expired" => Known(p)
  /\ seen' = seen \cup {e}
  /\ IF Creditable(e)
     THEN /\ paymentStatus' = [paymentStatus EXCEPT ![p] = "paid"]
          /\ credits' = [credits EXCEPT ![p] = @ + 1]
     ELSE UNCHANGED <<paymentStatus, credits>>
  /\ UNCHANGED <<requestVars, session, held, due>>

Next ==
  \/ \E k \in Keys, p \in Payments : Prepare(k, p)
  \/ \E p \in Payments : StripeCreates(p)
  \/ \E p \in Payments : StripeFails(p)
  \/ \E p \in Payments : Fail(p)
  \/ \E p \in Payments : Save(p)
  \/ \E p \in Payments : Answer(p)
  \/ \E p \in Payments : Abandon(p)
  \/ \E k \in Keys : Replay(k)
  \/ \E p \in Payments : Pay(p)
  \/ \E p \in Payments : Expire(p)
  \/ \E e \in Events : Acknowledge(e)
  \/ \E e \in Events : Accept(e)

(* Stripe delivers an event until it is answered, and the API is up often  *)
(* enough to answer.  Nothing is assumed of the customer, nor of requests  *)
(* that create a checkout: they may die at any step.                       *)
Spec == Init /\ [][Next]_vars /\ \A e \in Events : WF_vars(Accept(e))

-----------------------------------------------------------------------------
(* Properties *)

TypeOK ==
  /\ keyOf \in [Payments -> Keys \cup {NoKey}]
  /\ record \in [Keys -> {"free", "claimed"} \cup Payments]
  /\ step \in [Payments -> {"none", "creating", "failing", "saving", "answering", "done"}]
  /\ paymentStatus \in [Payments -> {"none", "pending", "failed", "checkout_created", "paid"}]
  /\ session \in [Payments -> {"none", "open", "paid", "expired"}]
  /\ held \subseteq Payments
  /\ due \subseteq Events /\ seen \subseteq Events
  /\ credits \in [Payments -> 0 .. 1]

(* Points are credited for a payment exactly when it is marked paid, once  *)
(* (TypeOK), and only for a session that was paid, however often and in    *)
(* whatever copies Stripe reports it (payments/stripe.ts:233-278).         *)
CreditedOnce ==
  \A p \in Payments :
    /\ credits[p] = 1 <=> paymentStatus[p] = "paid"
    /\ paymentStatus[p] = "paid" => session[p] = "paid"

(* A session that can be paid, or was, is stored: the webhook will find    *)
(* its payment, because the customer is handed the checkout only after the *)
(* second transaction (payments/stripe.ts:158-166).                        *)
PayableIsKnown == \A p \in held : Known(p)

(* Submitting one key again and again, after errors and crashes too, never *)
(* gives the customer two checkouts to pay (payments/stripe.ts:49-52,      *)
(* 151-152).                                                               *)
OneCheckoutPerKey ==
  \A p, q \in held : keyOf[p] = keyOf[q] => p = q

Promise == INSTANCE TopUpPromise WITH
  state <- [p \in Payments |-> IF credits[p] > 0 THEN "credited"
                               ELSE IF session[p] = "paid" THEN "paid" ELSE "unpaid"]

(* Whatever dies on the way, a payment that was made is credited in the    *)
(* end, and none is credited before it was made                            *)
(* (payments/stripe.ts:232-285).                                           *)
ImplementsPromise == Promise!Spec
=============================================================================
