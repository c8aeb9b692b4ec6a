------------------------------- MODULE Basket -------------------------------
(***************************************************************************)
(* The basket of a tab, how it is kept for each account in the storage of  *)
(* the browser, and paying for it: CartPage chooses, checkout              *)
(* (PlatformContext.jsx) gives each checkout a key, and the API answers a  *)
(* key it has seen with the order that it recorded.  Prices, the balance   *)
(* and refunds are in Commerce, tokens and lists of orders in Client.      *)
(*                                                                         *)
(* A call carries `moved', whether sessionRevision has been increased      *)
(* since it started, and `here', whether the page that sent it is open.    *)
(***************************************************************************)
EXTENDS Naturals

CONSTANTS Shoppers,     \* the accounts that sign in
          Goods,        \* what is for sale
          MaxClicks,    \* what the member does
          MaxMissed     \* calls without an answer, and baskets that cannot be saved

VARIABLES
  cartOwner,        \* the account of the page: accountId, and cartOwner
  leavingShop,      \* a sign-out is under way
  cart,             \* the goods, and which was put in before which
  savedCarts,       \* localStorage: cartStorageKey of each account
  purchased,        \* the goods that the orders on the page hold
  pendingCheckout,  \* [signature, key]; key 0 if there is none
  cartPage,         \* CartPage: open, selected, busy
  checkouts,        \* the calls that have not returned
  checkoutRecords,  \* idempotency_records of the scope checkout, and their orders
  keysMade, clicks, missed, \* counted
  putIn             \* history: what each account has put in its cart

basketVars == <<cartOwner, leavingShop, cart, savedCarts, purchased, pendingCheckout, cartPage,
                checkouts, checkoutRecords, keysMade, clicks, missed, putIn>>

NoOwner == "nobody"

ASSUME ShoppersAssumption == NoOwner \notin Shoppers

NoCheckout == [signature |-> {}, key |-> 0]
Closed == [open |-> FALSE, selected |-> {}, busy |-> FALSE]

\* The list of a cart holds no good twice, so it is a set and an order.
Carts == [goods : SUBSET Goods, before : SUBSET (Goods \X Goods)]
EmptyCart == [goods |-> {}, before |-> {}]
PutLast(s, g) == [goods |-> s.goods \cup {g}, before |-> s.before \cup (s.goods \X {g})]
Without(s, goods) ==
  LET rest == s.goods \ goods
  IN [goods |-> rest, before |-> s.before \cap (rest \X rest)]

BasketTypeOK ==
  /\ cartOwner \in Shoppers \cup {NoOwner} /\ leavingShop \in BOOLEAN
  /\ cart \in Carts /\ savedCarts \in [Shoppers -> Carts] /\ purchased \subseteq Goods
  /\ pendingCheckout \in [signature : SUBSET Goods, key : 0..MaxClicks]
  /\ cartPage \in [open : BOOLEAN, selected : SUBSET Goods, busy : BOOLEAN]
  /\ checkouts \subseteq [who : Shoppers, items : Carts, key : 1..MaxClicks, moved : BOOLEAN, here : BOOLEAN,
                          step : {"sent", "ok", "conflict", "owned", "failed"}]
  /\ checkoutRecords \subseteq [who : Shoppers, items : Carts, key : 1..MaxClicks]
  /\ keysMade \in 0..MaxClicks /\ clicks \in 0..MaxClicks /\ missed \in 0..MaxMissed
  /\ putIn \in [Shoppers -> SUBSET Goods]

BasketInit ==
  /\ cartOwner = NoOwner /\ leavingShop = FALSE
  /\ cart = EmptyCart /\ savedCarts = [a \in Shoppers |-> EmptyCart] /\ purchased = {}
  /\ pendingCheckout = NoCheckout /\ cartPage = Closed
  /\ checkouts = {} /\ checkoutRecords = {}
  /\ keysMade = 0 /\ clicks = 0 /\ missed = 0
  /\ putIn = [a \in Shoppers |-> {}]

Click == clicks < MaxClicks /\ clicks' = clicks + 1
Miss == missed < MaxMissed /\ missed' = missed + 1

-----------------------------------------------------------------------------
(* The account of the page.                                                *)

MoveSession == {[c EXCEPT !.moved = TRUE, !.here = FALSE] : c \in checkouts}
LeavePage(calls) == {[c EXCEPT !.here = FALSE] : c \in calls}

\* applyServerIdentity with another account.
ShopAs(a) ==
  /\ Click /\ a # cartOwner /\ ~leavingShop
  /\ cartOwner' = a
  /\ cart' = savedCarts[a]
  /\ purchased' = {} /\ pendingCheckout' = NoCheckout /\ cartPage' = Closed
  /\ checkouts' = MoveSession
  /\ UNCHANGED <<leavingShop, savedCarts, checkoutRecords, keysMade, missed, putIn>>

\* signOut moves the session before it calls the server, and empties the page after.
BeginSignOut ==
  /\ Click /\ cartOwner # NoOwner /\ ~leavingShop
  /\ leavingShop' = TRUE
  /\ checkouts' = MoveSession /\ cartPage' = Closed
  /\ UNCHANGED <<cartOwner, cart, savedCarts, purchased, pendingCheckout, checkoutRecords, keysMade, missed, putIn>>

EndSignOut ==
  /\ leavingShop /\ leavingShop' = FALSE
  /\ cartOwner' = NoOwner /\ cart' = EmptyCart /\ purchased' = {}
  /\ pendingCheckout' = NoCheckout /\ cartPage' = Closed
  /\ checkouts' = LeavePage(checkouts)
  /\ UNCHANGED <<savedCarts, checkoutRecords, keysMade, clicks, missed, putIn>>

\* What orders, or answers that confirm them, make purchased.
Purchases(orders) == UNION {o.items.goods : o \in orders}

Owned(a) == Purchases({r \in checkoutRecords : r.who = a})

\* The list of the orders arrives: what they hold counts as purchased.
OrdersListed ==
  /\ cartOwner # NoOwner /\ purchased # Owned(cartOwner)
  /\ purchased' = Owned(cartOwner)
  /\ UNCHANGED <<cartOwner, leavingShop, cart, savedCarts, pendingCheckout, cartPage, checkouts, checkoutRecords,
                 keysMade, clicks, missed, putIn>>

-----------------------------------------------------------------------------
(* The cart.                                                               *)

\* The effect that follows a change of the cart; the storage may refuse.
SetCart(s) ==
  /\ cart' = s
  /\ \/ savedCarts' = [savedCarts EXCEPT ![cartOwner] = s] /\ UNCHANGED missed
     \/ Miss /\ UNCHANGED savedCarts

\* addToCart, on the page of what is for sale: CartPage is not open.
AddToCart(g) ==
  /\ Click /\ cartOwner # NoOwner /\ g \notin purchased \cup cart.goods
  /\ SetCart(PutLast(cart, g))
  /\ putIn' = [putIn EXCEPT ![cartOwner] = @ \cup {g}]
  /\ cartPage' = Closed /\ checkouts' = LeavePage(checkouts)
  /\ UNCHANGED <<cartOwner, leavingShop, purchased, pendingCheckout, checkoutRecords, keysMade>>

RemoveFromCart(g) ==
  /\ Click /\ cartPage.open /\ ~cartPage.busy /\ g \in cart.goods \ purchased
  /\ SetCart(Without(cart, {g}))
  /\ cartPage' = [cartPage EXCEPT !.selected = @ \ {g}]
  /\ UNCHANGED <<cartOwner, leavingShop, purchased, pendingCheckout, checkouts, checkoutRecords, keysMade, putIn>>

\* CartPage opens, perhaps once more, with everything selected.
OpenCart ==
  /\ cartOwner # NoOwner
  /\ cartPage' = [open |-> TRUE, selected |-> cart.goods, busy |-> FALSE]
  /\ checkouts' = LeavePage(checkouts)
  /\ UNCHANGED <<cartOwner, leavingShop, cart, savedCarts, purchased, pendingCheckout, checkoutRecords,
                 keysMade, clicks, missed, putIn>>

ToggleSelected(g) ==
  /\ Click /\ cartPage.open /\ ~cartPage.busy /\ g \in cart.goods \ purchased
  /\ cartPage' = [cartPage EXCEPT !.selected = IF g \in @ THEN @ \ {g} ELSE @ \cup {g}]
  /\ UNCHANGED <<cartOwner, leavingShop, cart, savedCarts, purchased, pendingCheckout, checkouts, checkoutRecords,
                 keysMade, missed, putIn>>

-----------------------------------------------------------------------------
(* Paying.                                                                 *)

\* Mutant: a checkout that was not answered lends its key to any other.
KeepsKey_Always(items) == pendingCheckout.key # 0

\* The signature is the sorted list of the items: their order does not matter.
KeepsKey(items) == pendingCheckout.key # 0 /\ pendingCheckout.signature = items.goods

CreateCheckout(items, key) ==
  [who |-> cartOwner, items |-> items, key |-> key, moved |-> FALSE, here |-> TRUE, step |-> "sent"]

SelectedItems == Without(cart, purchased \cup (Goods \ cartPage.selected))

Pay ==
  LET items == SelectedItems
      pending == IF KeepsKey(items) THEN pendingCheckout ELSE [signature |-> items.goods, key |-> keysMade + 1]
  IN /\ Click /\ cartPage.open /\ ~cartPage.busy /\ items.goods # {}
     /\ pendingCheckout' = pending
     /\ keysMade' = IF KeepsKey(items) THEN keysMade ELSE keysMade + 1
     /\ checkouts' = checkouts \cup {CreateCheckout(items, pending.key)}
     /\ cartPage' = [cartPage EXCEPT !.busy = TRUE]
     /\ UNCHANGED <<cartOwner, leavingShop, cart, savedCarts, purchased, checkoutRecords, missed, putIn>>

\* claimIdempotency, whose fingerprint is of the items in their order, then
\* assertPurchasable; the order and its record are one transaction.
Verdict(c) ==
  LET seen == {r \in checkoutRecords : r.who = c.who /\ r.key = c.key}
  IN IF seen # {} THEN (IF \E r \in seen : r.items = c.items THEN "ok" ELSE "conflict")
     ELSE IF c.items.goods \cap Owned(c.who) # {} THEN "owned" ELSE "ok"

\* The answer may be lost after its effect.
ServeCheckout(c) ==
  LET verdict == Verdict(c)
  IN /\ c.step = "sent"
     /\ checkoutRecords' = IF verdict = "ok"
                             THEN checkoutRecords \cup {[who |-> c.who, items |-> c.items, key |-> c.key]}
                             ELSE checkoutRecords
     /\ \/ checkouts' = (checkouts \ {c}) \cup {[c EXCEPT !.step = verdict]} /\ UNCHANGED missed
        \/ checkouts' = (checkouts \ {c}) \cup {[c EXCEPT !.step = "failed"]} /\ Miss
     /\ UNCHANGED <<cartOwner, leavingShop, cart, savedCarts, purchased, pendingCheckout, cartPage, keysMade, clicks, putIn>>

LoseCheckout(c) ==
  /\ c.step = "sent" /\ Miss
  /\ checkouts' = (checkouts \ {c}) \cup {[c EXCEPT !.step = "failed"]}
  /\ UNCHANGED <<cartOwner, leavingShop, cart, savedCarts, purchased, pendingCheckout, cartPage, checkoutRecords,
                 keysMade, clicks, putIn>>

PageOf(c) == IF c.here THEN [cartPage EXCEPT !.busy = FALSE] ELSE cartPage

\* The answer of another session is not shown, but takes the pending key with it;
\* that of this one opens the receipt.
ReceiptArrives(c) ==
  /\ c.step = "ok"
  /\ checkouts' = IF c.moved THEN checkouts \ {c} ELSE LeavePage(checkouts \ {c})
  /\ pendingCheckout' = NoCheckout
  /\ IF c.moved THEN cartPage' = PageOf(c) /\ UNCHANGED <<cart, savedCarts, purchased, missed>>
     ELSE /\ purchased' = purchased \cup Purchases({c})
          /\ cartPage' = Closed
          /\ IF cartOwner = NoOwner THEN UNCHANGED <<cart, savedCarts, missed>>
             ELSE SetCart(Without(cart, c.items.goods))
  /\ UNCHANGED <<cartOwner, leavingShop, checkoutRecords, keysMade, clicks, putIn>>

CheckoutFails(c) ==
  /\ c.step \in {"conflict", "owned", "failed"}
  /\ checkouts' = checkouts \ {c}
  /\ cartPage' = PageOf(c)
  /\ UNCHANGED <<cartOwner, leavingShop, cart, savedCarts, purchased, pendingCheckout, checkoutRecords,
                 keysMade, clicks, missed, putIn>>

BasketNext ==
  \/ \E a \in Shoppers : ShopAs(a)
  \/ BeginSignOut \/ EndSignOut \/ OrdersListed \/ OpenCart \/ Pay
  \/ \E g \in Goods : AddToCart(g) \/ RemoveFromCart(g) \/ ToggleSelected(g)
  \/ \E c \in checkouts : ServeCheckout(c) \/ LoseCheckout(c) \/ ReceiptArrives(c) \/ CheckoutFails(c)

BasketSpec == BasketInit /\ [][BasketNext]_basketVars

-----------------------------------------------------------------------------
(* Properties.                                                             *)

\* What is shown, saved and paid is what that account put in: no cart, and no checkout
\* under way, passes to the account that signs in next (PlatformContext.jsx:315-319, 479-480).
CartsAreKeptApart ==
  /\ IF cartOwner = NoOwner THEN cart = EmptyCart ELSE cart.goods \subseteq putIn[cartOwner]
  /\ \A a \in Shoppers : savedCarts[a].goods \subseteq putIn[a]
  /\ \A c \in checkouts : c.items.goods \subseteq putIn[c.who]

\* A key stands for one choice of one account, in every call and in every order that was
\* recorded, however often calls are lost and repeated (PlatformContext.jsx:726-730).
KeysStandForChoices ==
  \A c, d \in checkouts \cup checkoutRecords :
    c.key = d.key => c.who = d.who /\ c.items.goods = d.items.goods

\* Both (PlatformContext.jsx:315-319, 479-480, 726-730).
BasketHolds == CartsAreKeptApart /\ KeysStandForChoices

\* What does not hold, and no run checks: a checkout that the page repeats, because it is
\* one of the same goods (PlatformContext.jsx:726), is answered by the order that was
\* recorded (README.md:23).  The API compares the goods in their order (commerce.ts:64, 206):
\* taken out and put in again while the answer is awaited, they are a different checkout.
RepetitionIsAnswered == \A c \in checkouts : c.step # "conflict"
=============================================================================
