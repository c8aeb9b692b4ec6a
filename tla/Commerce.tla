------------------------------ MODULE Commerce ------------------------------
(***************************************************************************)
(* The points economy: checkout, live-course holds, refunds, settlement    *)
(* and cancellation of live runs, administrative adjustments, and the      *)
(* downloads that count as refund evidence.                                *)
(*                                                                         *)
(* Every handler runs in one database transaction that locks the rows it   *)
(* decides on (db/database.ts:16-29) and rolls back on any error, so a     *)
(* handler is one action and a handler that throws is no step at all.  The *)
(* exception is a file download: it checks the buyer's access without a    *)
(* lock and records the evidence in a later statement, so it is two        *)
(* actions.                                                                *)
(*                                                                         *)
(* An order stands for the buyer's idempotency key as well: a key that was *)
(* used returns the stored response and changes nothing                    *)
(* (orders/commerce.ts:59-74).  A basket has at most one line per product  *)
(* (orders/commerce.ts:15), so an order item is a pair <<order, product>>. *)
(***************************************************************************)
EXTENDS Integers, FiniteSets, PointSums

CONSTANTS
  Members,      \* buyers: members who are not administrators
  System,       \* the platform's point account
  NoMember,     \* buyer of an order that does not exist yet
  Orders,       \* the orders (and idempotency keys) that may be used
  LiveRuns,     \* course runs with an active live delivery option
  LocalRuns,    \* self-arranged course runs with local but no live delivery
  Recordings,   \* course runs with cloud or recorded delivery only
  Contents,     \* content versions
  Price,        \* price in points of every product
  Capacity,     \* seats of every course run that has a limit
  Uncapped,     \* course runs whose capacity is null
  Seller,       \* owner of every product
  Adjustments,  \* deltas an administrator may post
  MaxAdjusted   \* bound: net adjustment of one member's account

SelfArranged == LiveRuns \cup LocalRuns
Media == Recordings \cup Contents
Courses == SelfArranged \cup Recordings
Products == Courses \cup Contents
Accounts == Members \cup {System}

(* Order items, each named by its order and its product. *)
Items == Orders \X Products
Order(i) == i[1]
Product(i) == i[2]

(* points_amount of every order item: the product's price at purchase. *)
ItemPrice == [i \in Items |-> Price[Product(i)]]

(* The points that a set of order items cost. *)
Cost(S) == PointsOf(S, ItemPrice)

ASSUME ProductAssumption ==
  /\ IsFiniteSet(Orders) /\ IsFiniteSet(Products)
  /\ Media \cap SelfArranged = {} /\ Recordings \cap Contents = {}
  /\ Uncapped \subseteq Courses
  /\ Price \in [Products -> Nat]
  /\ Capacity \in [Courses \ Uncapped -> Nat \ {0}]

ASSUME AccountAssumption ==
  /\ System \notin Members /\ NoMember \notin Members
  /\ Adjustments \subseteq Int
  /\ MaxAdjusted \in Nat

VARIABLES
  runStatus,    \* course_runs.run_status of the live runs
  phase,        \* now against starts_at of every self-arranged run
  buyer,        \* orders.buyer_user_id
  orderStatus,  \* orders.order_status
  fulfilment,   \* order_items.fulfilment_status
  access,       \* the item's enrolment or access grant
  allocation,   \* earnings_allocations.allocation_status of the item
  hold,         \* point_holds.hold_status of the item's purchase
  request,      \* refund_requests.refund_status, latest of the item
  available,    \* point_accounts.available_balance
  frozen,       \* point_accounts.frozen_balance
  adjusted,     \* ledger entries of type admin_adjustment, netted by account
  checking,     \* downloads that passed the access check, not yet recorded
  evidence,     \* items with a recorded download or viewing above 10%
  issued        \* items whose buyer was handed a file URL

moneyVars == <<available, frozen, adjusted>>
itemVars == <<buyer, orderStatus, fulfilment, access, allocation, hold>>
mediaVars == <<checking, evidence, issued>>
vars == <<runStatus, phase, itemVars, request, moneyVars, mediaVars>>

-----------------------------------------------------------------------------
(* Helpers *)

(* f with the value v at every item of S: an UPDATE ... WHERE. *)
Mark(f, S, v) == [i \in Items |-> IF i \in S THEN v ELSE f[i]]

(* Items of S for which a ledger transaction is posted: price 0 posts none. *)
Charged(S) == {i \in S : ItemPrice[i] > 0}

Bought == {i \in Items : fulfilment[i] # "none"}
ItemsOf(m) == {i \in Bought : buyer[Order(i)] = m}
ItemsOfRun(r) == {i \in Bought : Product(i) = r}

OpenSeats(r) == {i \in ItemsOfRun(r) : access[i] = "open"}

(* A live run is reserved rather than bought only before it starts. *)
IsLiveReservation(p) == p \in LiveRuns /\ phase[p] # "started"

(* Mutant: one refunded line makes the order refunded. *)
RefundedStatus_AnyLine(o, f) ==
  IF \E i \in Items : Order(i) = o /\ f[i] = "refunded"
  THEN "refunded" ELSE "partially_refunded"

(* Order status once fulfilment has become f. *)
RefundedStatus(o, f) ==
  IF \A i \in Items : Order(i) = o => f[i] \in {"none", "refunded"}
  THEN "refunded" ELSE "partially_refunded"

-----------------------------------------------------------------------------
Init ==
  /\ runStatus = [r \in LiveRuns |-> "published"]
  /\ phase = [r \in SelfArranged |-> "early"]
  /\ buyer = [o \in Orders |-> NoMember]
  /\ orderStatus = [o \in Orders |-> "none"]
  /\ fulfilment = [i \in Items |-> "none"]
  /\ access = [i \in Items |-> "none"]
  /\ allocation = [i \in Items |-> "none"]
  /\ hold = [i \in Items |-> "none"]
  /\ request = [i \in Items |-> "none"]
  /\ available = [a \in Accounts |-> 0]
  /\ frozen = [a \in Accounts |-> 0]
  /\ adjusted = [a \in Accounts |-> 0]
  /\ checking = {}
  /\ evidence = {}
  /\ issued = {}

(* Mutant: the capacity test is off by one. *)
Purchasable_OneSeatTooMany(m, p) ==
  /\ Seller[p] # m
  /\ p \in LiveRuns => runStatus[p] = "published"
  /\ p \in Courses =>
       /\ \A i \in OpenSeats(p) : buyer[Order(i)] # m
       /\ p \notin Uncapped => Cardinality(OpenSeats(p)) <= Capacity[p]
  /\ p \in Contents => \A i \in ItemsOf(m) : Product(i) # p

(* lockProduct and assertPurchasable for one line of the basket. *)
Purchasable(m, p) ==
  /\ Seller[p] # m
  /\ p \in LiveRuns => runStatus[p] = "published"
  /\ p \in Courses =>
       /\ \A i \in OpenSeats(p) : buyer[Order(i)] # m
       /\ p \notin Uncapped => Cardinality(OpenSeats(p)) < Capacity[p]
  /\ p \in Contents => \A i \in ItemsOf(m) : Product(i) # p

(* A member buys every line of a basket, or none of them. *)
Checkout(m, o, basket) ==
  LET lines == {o} \X basket
      reserved == {i \in lines : IsLiveReservation(Product(i))}
      paid == lines \ reserved
  IN
  /\ buyer[o] = NoMember
  /\ \A p \in basket : Purchasable(m, p)
  /\ available[m] >= Cost(lines)
  /\ buyer' = [buyer EXCEPT ![o] = m]
  /\ orderStatus' = [orderStatus EXCEPT ![o] = "paid"]
  /\ fulfilment' = Mark(Mark(fulfilment, reserved, "reserved"), paid, "fulfilled")
  /\ access' = Mark(access, lines, "open")
  /\ allocation' = Mark(allocation, lines, "pending")
  /\ hold' = Mark(hold, Charged(reserved), "active")
  /\ available' = [available EXCEPT ![m] = @ - Cost(lines),
                                    ![System] = @ + Cost(paid)]
  /\ frozen' = [frozen EXCEPT ![m] = @ + Cost(reserved)]
  /\ UNCHANGED <<runStatus, phase, request, adjusted, mediaVars>>

(* evaluateRefund over the purchase-time policy snapshot. *)
Eligible(i) ==
  IF Product(i) \in SelfArranged THEN phase[Product(i)] = "early"
                                 ELSE i \notin evidence

(* A buyer files a refund request; one may be pending per item. *)
CreateRefundRequest(i) ==
  /\ fulfilment[i] \in {"reserved", "fulfilled"}
  /\ request[i] # "pending"
  /\ Eligible(i)
  /\ request' = [request EXCEPT ![i] = "pending"]
  /\ UNCHANGED <<runStatus, phase, itemVars, moneyVars, mediaVars>>

(* What decideRefund checks whatever the decision. *)
Decidable(i) ==
  /\ request[i] = "pending"
  /\ fulfilment[i] # "refunded"

RejectRefund(i) ==
  /\ Decidable(i)
  /\ request' = [request EXCEPT ![i] = "rejected"]
  /\ UNCHANGED <<runStatus, phase, itemVars, moneyVars, mediaVars>>

(* Mutant: a live item is refunded after its settlement too. *)
Refundable_Always(i) == TRUE

(* A live item is refunded only while it is still reserved. *)
Refundable(i) == Product(i) \in LiveRuns => fulfilment[i] = "reserved"

(* The hold goes back to its owner, or the platform pays the price back. *)
ApproveRefund(i) ==
  LET m == buyer[Order(i)]
      points == ItemPrice[i]
  IN
  /\ Decidable(i)
  /\ Refundable(i)
  /\ request' = [request EXCEPT ![i] = "approved"]
  /\ \/ /\ fulfilment[i] = "reserved"
        /\ frozen' = [frozen EXCEPT ![m] = @ - points]
        /\ available' = [available EXCEPT ![m] = @ + points]
        /\ hold' = Mark(hold, Charged({i}), "cancelled")
     \/ /\ fulfilment[i] # "reserved"
        /\ available' = [available EXCEPT ![m] = @ + points, ![System] = @ - points]
        /\ UNCHANGED <<frozen, hold>>
  /\ fulfilment' = [fulfilment EXCEPT ![i] = "refunded"]
  /\ access' = [access EXCEPT ![i] = "closed"]
  /\ allocation' = [allocation EXCEPT ![i] = IF @ = "pending" THEN "reversed" ELSE @]
  /\ orderStatus' = [orderStatus EXCEPT ![Order(i)] = RefundedStatus(Order(i), fulfilment')]
  /\ UNCHANGED <<runStatus, phase, buyer, adjusted, mediaVars>>

(* Items of the run whose hold is active, and those of them that m owns. *)
ActiveHolds(r) == {i \in ItemsOfRun(r) : hold[i] = "active"}

(* Mutant: every hold of the run is taken from m. *)
HoldsOf_AnyOwner(m, r) == ActiveHolds(r)

HoldsOf(m, r) == {i \in ActiveHolds(r) : buyer[Order(i)] = m}

(* Mutant: free reservations, which have no hold, are missed. *)
Reserved_WithHold(r) == ActiveHolds(r)

(* Items of the run that are still reserved, with or without a hold. *)
Reserved(r) == {i \in ItemsOfRun(r) : fulfilment[i] = "reserved"}

(* Mutant: earnings that were decided are decided again. *)
PendingEarnings_AnyEarning(r) == {i \in ItemsOfRun(r) : allocation[i] # "none"}

PendingEarnings(r) == {i \in ItemsOfRun(r) : allocation[i] = "pending"}

(* A started live run is completed: holds are settled to the platform. *)
CompleteLiveCourseRun(r) ==
  /\ runStatus[r] = "published"
  /\ phase[r] = "started"
  /\ frozen' = [a \in Accounts |-> frozen[a] - Cost(HoldsOf(a, r))]
  /\ available' = [available EXCEPT ![System] = @ + Cost(ActiveHolds(r))]
  /\ hold' = Mark(hold, ActiveHolds(r), "released")
  /\ fulfilment' = Mark(fulfilment, Reserved(r), "fulfilled")
  /\ allocation' = Mark(allocation, PendingEarnings(r), "settled")
  /\ runStatus' = [runStatus EXCEPT ![r] = "completed"]
  /\ UNCHANGED <<phase, buyer, orderStatus, access, request, adjusted, mediaVars>>

(* A live run is cancelled, before or after its start: holds go back.  The *)
(* enrolments of items bought without a hold are closed all the same.      *)
CancelLiveCourseRun(r) ==
  /\ runStatus[r] = "published"
  /\ frozen' = [a \in Accounts |-> frozen[a] - Cost(HoldsOf(a, r))]
  /\ available' = [a \in Accounts |-> available[a] + Cost(HoldsOf(a, r))]
  /\ hold' = Mark(hold, ActiveHolds(r), "cancelled")
  /\ fulfilment' = Mark(fulfilment, Reserved(r), "refunded")
  /\ access' = Mark(access, OpenSeats(r), "closed")
  /\ request' = Mark(request, {i \in ItemsOfRun(r) : request[i] = "pending"}, "cancelled")
  /\ allocation' = Mark(allocation, PendingEarnings(r), "reversed")
  /\ orderStatus' = [o \in Orders |->
       IF \E i \in ItemsOfRun(r) : Order(i) = o
       THEN RefundedStatus(o, fulfilment') ELSE orderStatus[o]]
  /\ runStatus' = [runStatus EXCEPT ![r] = "cancelled"]
  /\ UNCHANGED <<phase, buyer, adjusted, mediaVars>>

(* An administrator moves points between the platform and a member. *)
AdjustPoints(m, delta) ==
  /\ delta # 0
  /\ available[m] + delta >= 0
  /\ adjusted[m] + delta <= MaxAdjusted
  /\ available' = [available EXCEPT ![m] = @ + delta, ![System] = @ - delta]
  /\ adjusted' = [adjusted EXCEPT ![m] = @ + delta, ![System] = @ - delta]
  /\ UNCHANGED <<runStatus, phase, itemVars, request, frozen, mediaVars>>

(* A download request finds the purchase valid and goes on without a lock. *)
BeginDownload(i) ==
  /\ Product(i) \in Media
  /\ i \notin checking
  /\ fulfilment[i] = "fulfilled"
  /\ checking' = checking \cup {i}
  /\ UNCHANGED <<runStatus, phase, itemVars, request, moneyVars, evidence, issued>>

(* It records the download and hands out the URL.  A content grant that    *)
(* expired meanwhile takes no record, and the URL is handed out anyway.    *)
FinishDownload(i) ==
  /\ i \in checking
  /\ checking' = checking \ {i}
  /\ evidence' = IF Product(i) \in Contents /\ access[i] # "open"
                 THEN evidence ELSE evidence \cup {i}
  /\ issued' = issued \cup {i}
  /\ UNCHANGED <<runStatus, phase, itemVars, request, moneyVars>>

(* Accepted heartbeats take the viewing of a recorded course above 10%. *)
Watch(i) ==
  /\ Product(i) \in Recordings
  /\ fulfilment[i] = "fulfilled"
  /\ access[i] = "open"
  /\ evidence' = evidence \cup {i}
  /\ UNCHANGED <<runStatus, phase, itemVars, request, moneyVars, checking, issued>>

(* Time passes: 72 hours before the start, then the start. *)
PassTime(r) ==
  /\ phase[r] # "started"
  /\ phase' = [phase EXCEPT ![r] = IF @ = "early" THEN "notice" ELSE "started"]
  /\ UNCHANGED <<runStatus, itemVars, request, moneyVars, mediaVars>>

Next ==
  \/ \E m \in Members, o \in Orders, basket \in SUBSET Products \ {{}} :
       Checkout(m, o, basket)
  \/ \E i \in Items : CreateRefundRequest(i)
  \/ \E i \in Items : RejectRefund(i)
  \/ \E i \in Items : ApproveRefund(i)
  \/ \E r \in LiveRuns : CompleteLiveCourseRun(r)
  \/ \E r \in LiveRuns : CancelLiveCourseRun(r)
  \/ \E m \in Members, delta \in Adjustments : AdjustPoints(m, delta)
  \/ \E i \in Items : BeginDownload(i)
  \/ \E i \in Items : FinishDownload(i)
  \/ \E i \in Items : Watch(i)
  \/ \E r \in SelfArranged : PassTime(r)

Spec == Init /\ [][Next]_vars

-----------------------------------------------------------------------------
(* Properties *)

TypeOK ==
  /\ runStatus \in [LiveRuns -> {"published", "completed", "cancelled"}]
  /\ phase \in [SelfArranged -> {"early", "notice", "started"}]
  /\ buyer \in [Orders -> Members \cup {NoMember}]
  /\ orderStatus \in [Orders -> {"none", "paid", "partially_refunded", "refunded"}]
  /\ fulfilment \in [Items -> {"none", "reserved", "fulfilled", "refunded"}]
  /\ access \in [Items -> {"none", "open", "closed"}]
  /\ allocation \in [Items -> {"none", "pending", "settled", "reversed"}]
  /\ hold \in [Items -> {"none", "active", "released", "cancelled"}]
  /\ request \in [Items -> {"none", "pending", "approved", "rejected", "cancelled"}]
  /\ available \in [Accounts -> Int] /\ \A m \in Members : available[m] >= 0
  /\ frozen \in [Accounts -> Nat]
  /\ adjusted \in [Accounts -> Int]
  /\ checking \subseteq Items /\ evidence \subseteq Items /\ issued \subseteq Items

(* Items a member paid for and was not refunded, and those still reserved. *)
Kept(m) == {i \in ItemsOf(m) : fulfilment[i] # "refunded"}
ReservedBy(m) == {i \in ItemsOf(m) : fulfilment[i] = "reserved"}
Fulfilled == {i \in Items : fulfilment[i] = "fulfilled"}

(* Every balance is explained by what the account owns: a member has what  *)
(* was granted less the price of every item kept, exactly the reserved     *)
(* items are frozen, and the platform holds the price of the fulfilled     *)
(* ones.  Charging twice, refunding twice, settling a refunded hold or     *)
(* releasing another buyer's hold breaks it (orders/commerce.ts:266-284,   *)
(* refunds/service.ts:203-230, admin/operations.ts:173-185, 211-223).      *)
BalancesExplained ==
  /\ \A m \in Members :
       /\ available[m] = adjusted[m] - Cost(Kept(m))
       /\ frozen[m] = Cost(ReservedBy(m))
  /\ available[System] = adjusted[System] + Cost(Fulfilled)
  /\ frozen[System] = 0

(* A hold is active exactly while its item is reserved on a published      *)
(* live run; it ends settled with the item fulfilled and the run           *)
(* completed, or cancelled with the item refunded.  Checkout, refunds,     *)
(* completion and cancellation each update hold and item in statements of  *)
(* their own (admin/operations.ts:182-187, 220-225).                       *)
HoldMatches(i) ==
  /\ hold[i] = "active" <=> fulfilment[i] = "reserved" /\ ItemPrice[i] > 0
  /\ hold[i] = "released" =>
       /\ fulfilment[i] = "fulfilled"
       /\ Product(i) \in LiveRuns /\ runStatus[Product(i)] = "completed"
  /\ hold[i] = "cancelled" => fulfilment[i] = "refunded"
  /\ fulfilment[i] = "reserved" =>
       Product(i) \in LiveRuns /\ runStatus[Product(i)] = "published"

HoldsBackReservations == \A i \in Items : HoldMatches(i)

(* A run never has more open enrolments than seats and a member never two  *)
(* on one run, across refunds, repurchases and cancellations               *)
(* (orders/commerce.ts:145-154).                                           *)
SeatsRespected ==
  \A r \in Courses :
    /\ r \notin Uncapped => Cardinality(OpenSeats(r)) <= Capacity[r]
    /\ \A i, j \in OpenSeats(r) : buyer[Order(i)] = buyer[Order(j)] => i = j

(* A seller's earning is never settled on an item whose buyer is refunded, *)
(* and it is reversed only by a refund or by the cancellation of the run   *)
(* (refunds/service.ts:236-237, admin/operations.ts:188-189, 232-233).     *)
EarningsFollowItems ==
  \A i \in Items :
    /\ allocation[i] = "settled" =>
         fulfilment[i] = "fulfilled" /\ runStatus[Product(i)] = "completed"
    /\ fulfilment[i] = "refunded" => allocation[i] = "reversed"
    /\ allocation[i] = "reversed" /\ fulfilment[i] # "refunded" =>
         Product(i) \in LiveRuns /\ runStatus[Product(i)] = "cancelled"

(* A refunded item is closed, an item that was paid for and not refunded   *)
(* is open, except that the cancellation of a live run also closes the     *)
(* enrolments that were bought without a hold, after the start             *)
(* (admin/operations.ts:224-227).                                          *)
AccessFollowsPayment ==
  \A i \in Items :
    /\ fulfilment[i] = "refunded" => access[i] = "closed"
    /\ fulfilment[i] = "reserved" => access[i] = "open"
    /\ fulfilment[i] = "fulfilled" /\ access[i] # "open" =>
         /\ Product(i) \in LiveRuns
         /\ runStatus[Product(i)] = "cancelled"
         /\ phase[Product(i)] = "started"

(* Whatever settles, closes or refunds an item does so for its buyer and   *)
(* its seller alike (refunds/service.ts:236-237, admin/operations.ts:224). *)
SettlementsAgree == EarningsFollowItems /\ AccessFollowsPayment

(* A pending refund request can still be decided: its item is neither      *)
(* refunded nor on a cancelled run, whichever order the decision, the      *)
(* completion and the cancellation come in; an approved or cancelled       *)
(* request means the points went back (refunds/service.ts:188-199,         *)
(* admin/operations.ts:228-231).                                           *)
RequestsMatchItems ==
  \A i \in Items :
    /\ request[i] = "pending" =>
         fulfilment[i] \in {"reserved", "fulfilled"} /\ access[i] = "open"
    /\ request[i] \in {"approved", "cancelled"} => fulfilment[i] = "refunded"

(* The order's status summarises its lines, whichever of them was refunded *)
(* last and by whom (refunds/service.ts:238-240,                           *)
(* admin/operations.ts:234-237).                                           *)
OrderStatusSummarises ==
  \A o \in Orders :
    LET lines == {i \in Bought : Order(i) = o} IN
    /\ orderStatus[o] = "refunded" => \A i \in lines : fulfilment[i] = "refunded"
    /\ orderStatus[o] = "paid" => \A i \in lines : fulfilment[i] # "refunded"
    /\ orderStatus[o] = "partially_refunded" =>
         /\ \E i \in lines : fulfilment[i] # "refunded"
         /\ \E i \in lines : access[i] = "closed"

(* Whoever was handed a file URL left evidence of it, or has been refunded *)
(* meanwhile (storage/content-assets.ts:522-527).                          *)
DownloadsLeaveEvidence ==
  \A i \in issued \ evidence : Product(i) \in Contents /\ fulfilment[i] = "refunded"

(* Refunding lines one at a time, by decisions and cancellations, while    *)
(* files are being downloaded leaves orders, requests and evidence that    *)
(* tell the same (refunds/service.ts:188-240).                             *)
OrdersAgree == OrderStatusSummarises /\ RequestsMatchItems /\ DownloadsLeaveEvidence

(* "Recorded video or file refunds require ... no protected file download" *)
(* (refunds/purchase-policy.ts:14).                                        *)
RefundedMediaWithinPolicy ==
  \A i \in evidence \cup issued : fulfilment[i] # "refunded"

(* Where the price of an item is.  A fulfilled item of a live run cannot   *)
(* be refunded any more (refunds/service.ts:197-199).                      *)
PlaceOf(i) ==
  CASE fulfilment[i] = "none" -> "none"
    [] fulfilment[i] = "reserved" -> "held"
    [] fulfilment[i] = "refunded" -> "returned"
    [] OTHER -> IF Product(i) \in LiveRuns THEN "settled" ELSE "platform"

Escrow == INSTANCE PointEscrow WITH
  Things <- Items, Owners <- Members, Nobody <- NoMember,
  Price <- ItemPrice, Grants <- Adjustments,
  owner <- [i \in Items |-> IF fulfilment[i] = "none" THEN NoMember ELSE buyer[Order(i)]],
  place <- [i \in Items |-> PlaceOf(i)],
  granted <- [m \in Members |-> adjusted[m]]

(* Checkout, refunds, completion, cancellation and adjustments, in any     *)
(* order, implement the escrow: a buyer who lacks the points buys nothing, *)
(* and a price that was settled or returned never moves again              *)
(* (orders/commerce.ts:207-303, refunds/service.ts:164-251,                *)
(* admin/operations.ts:106-246).                                           *)
ImplementsEscrow == Escrow!Spec
=============================================================================
