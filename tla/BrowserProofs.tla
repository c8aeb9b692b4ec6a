---------------------------- MODULE BrowserProofs ----------------------------
(***************************************************************************)
(* The page of a tab is of one account and its cart and its payments are   *)
(* those of that account, for any accounts, listings and number of calls,  *)
(* whatever is lost, late or answered out of order; what is sent of a file *)
(* is that file; a release that succeeded published what it was for; the   *)
(* guards of the routes lead a tab to the page it was on the way to; and   *)
(* the form and the API judge a password alike, whatever is typed.         *)
(***************************************************************************)
EXTENDS Client, Basket, VideoSender, Uploader, Release, Entrance, Passwords,
        WellFoundedInduction, FiniteSetTheorems, SequenceTheorems, TLAPS

-----------------------------------------------------------------------------
(* The basket.                                                             *)

Call == [who : Shoppers, items : Carts, key : Nat \ {0}, moved : BOOLEAN, here : BOOLEAN,
         step : {"sent", "ok", "conflict", "owned", "failed"}]

BasketShape ==
  /\ cartOwner \in Shoppers \cup {NoOwner}
  /\ cart \in Carts /\ savedCarts \in [Shoppers -> Carts] /\ purchased \subseteq Goods
  /\ pendingCheckout \in [signature : SUBSET Goods, key : Nat]
  /\ cartPage \in [open : BOOLEAN, selected : SUBSET Goods, busy : BOOLEAN]
  /\ checkouts \subseteq Call
  /\ checkoutRecords \subseteq [who : Shoppers, items : Carts, key : Nat \ {0}]
  /\ keysMade \in Nat
  /\ putIn \in [Shoppers -> SUBSET Goods]

Paid == checkouts \cup checkoutRecords

(* No key is from the future, and the pending one is of the account of the *)
(* page and of the choice that it was made for.                            *)
KeysInOrder ==
  /\ pendingCheckout.key <= keysMade
  /\ \A c \in Paid : c.key <= keysMade

PendingIsOwn ==
  pendingCheckout.key # 0 =>
    \A c \in Paid : c.key = pendingCheckout.key => c.who = cartOwner /\ c.items.goods = pendingCheckout.signature

(* CartPage is a page of a signed-in member.                               *)
PageHasOwner == cartPage.open => cartOwner # NoOwner

BasketInv == BasketShape /\ BasketHolds /\ KeysInOrder /\ PendingIsOwn /\ PageHasOwner

(* What is taken out leaves a cart, and adds nothing (LearningPlatformPages.jsx:37-48). *)
LEMMA WithoutIsCart ==
  ASSUME NEW s \in Carts, NEW goods
  PROVE  Without(s, goods) \in Carts /\ Without(s, goods).goods \subseteq s.goods
BY DEF Without, Carts

(* What is put in is put in (PlatformContext.jsx:706-710).                 *)
LEMMA PutLastIsCart ==
  ASSUME NEW s \in Carts, NEW g \in Goods
  PROVE  PutLast(s, g) \in Carts /\ PutLast(s, g).goods = s.goods \cup {g}
BY DEF PutLast, Carts

(* The same payment: what a step may change in a checkout without touching *)
(* whose it is, what it pays and under which key.                          *)
SamePayment(c, d) == c.who = d.who /\ c.items = d.items /\ c.key = d.key

(* Steps that add no payment keep what is said of them, if the pending key *)
(* is kept or dropped, and the account with it.                            *)
LEMMA PaymentsKept ==
  ASSUME BasketInv,
         \A c \in Paid' : \E d \in Paid : SamePayment(c, d),
         \A c \in checkouts' : \E d \in checkouts : SamePayment(c, d),
         keysMade' = keysMade,
         \/ pendingCheckout' = NoCheckout
         \/ pendingCheckout' = pendingCheckout /\ cartOwner' = cartOwner,
         \A a \in Shoppers : putIn[a] \subseteq putIn'[a]
  PROVE  /\ KeysStandForChoices' /\ KeysInOrder' /\ PendingIsOwn'
         /\ \A c \in checkouts' : c.items.goods \subseteq putIn'[c.who]
<1>1. KeysStandForChoices'
  <2> SUFFICES ASSUME NEW c \in Paid', NEW d \in Paid', c.key = d.key
               PROVE  c.who = d.who /\ c.items.goods = d.items.goods
    BY DEF KeysStandForChoices, Paid
  <2>1. PICK e \in Paid : SamePayment(c, e)
    OBVIOUS
  <2>2. PICK f \in Paid : SamePayment(d, f)
    OBVIOUS
  <2>3. e.key = f.key
    BY <2>1, <2>2 DEF SamePayment
  <2>4. e.who = f.who /\ e.items.goods = f.items.goods
    BY <2>3 DEF BasketInv, BasketHolds, KeysStandForChoices, Paid
  <2> QED
    BY <2>1, <2>2, <2>4 DEF SamePayment
<1>2. KeysInOrder'
  <2>1. pendingCheckout'.key <= keysMade'
    BY DEF BasketInv, BasketShape, KeysInOrder, NoCheckout
  <2>2. ASSUME NEW c \in Paid' PROVE c.key <= keysMade'
    <3>1. PICK e \in Paid : SamePayment(c, e)
      OBVIOUS
    <3> QED
      BY <3>1 DEF BasketInv, KeysInOrder, SamePayment
  <2> QED
    BY <2>1, <2>2 DEF KeysInOrder
<1>3. PendingIsOwn'
  <2> SUFFICES ASSUME pendingCheckout'.key # 0, NEW c \in Paid', c.key = pendingCheckout'.key
               PROVE  c.who = cartOwner' /\ c.items.goods = pendingCheckout'.signature
    BY DEF PendingIsOwn
  <2>1. PICK e \in Paid : SamePayment(c, e)
    OBVIOUS
  <2>2. pendingCheckout' = pendingCheckout /\ cartOwner' = cartOwner
    BY DEF NoCheckout
  <2> QED
    BY <2>1, <2>2 DEF BasketInv, PendingIsOwn, SamePayment
<1>4. ASSUME NEW c \in checkouts' PROVE c.items.goods \subseteq putIn'[c.who]
  <2>1. PICK e \in checkouts : SamePayment(c, e)
    OBVIOUS
  <2>2. e.items.goods \subseteq putIn[e.who] /\ e.who \in Shoppers
    BY DEF BasketInv, BasketShape, BasketHolds, CartsAreKeptApart, Call
  <2> QED
    BY <2>1, <2>2 DEF SamePayment
<1> QED
  BY <1>1, <1>2, <1>3, <1>4

(* A cart that is saved, or could not be saved, is the account's.          *)
LEMMA CartKept ==
  ASSUME BasketInv, NEW s \in Carts, cartOwner # NoOwner, SetCart(s),
         s.goods \subseteq putIn'[cartOwner], \A a \in Shoppers : putIn[a] \subseteq putIn'[a]
  PROVE  /\ cart' = s /\ savedCarts' \in [Shoppers -> Carts]
         /\ \A a \in Shoppers : savedCarts'[a].goods \subseteq putIn'[a]
BY DEF BasketInv, BasketShape, SetCart, BasketHolds, CartsAreKeptApart

(* The checkouts of a page that is left are the same payments.             *)
LEMMA LeavePageKeeps ==
  ASSUME BasketInv, NEW calls \in SUBSET checkouts
  PROVE  /\ \A c \in LeavePage(calls) : c \in Call /\ \E d \in checkouts : SamePayment(c, d)
         /\ \A c \in MoveSession : c \in Call /\ \E d \in checkouts : SamePayment(c, d)
<1>1. \A d \in checkouts : d \in Call
  BY DEF BasketInv, BasketShape
<1>2. ASSUME NEW d \in Call
      PROVE  /\ [d EXCEPT !.here = FALSE] \in Call /\ SamePayment([d EXCEPT !.here = FALSE], d)
             /\ [d EXCEPT !.moved = TRUE, !.here = FALSE] \in Call
             /\ SamePayment([d EXCEPT !.moved = TRUE, !.here = FALSE], d)
  BY DEF Call, SamePayment
<1> QED
  BY <1>1, <1>2 DEF LeavePage, MoveSession

(* Nothing is in a cart, and nothing paid, at first.                       *)
LEMMA BasketStart == BasketInit => BasketInv
BY DEF BasketInit, BasketInv, BasketShape, BasketHolds, CartsAreKeptApart, KeysStandForChoices, KeysInOrder,
       PendingIsOwn, PageHasOwner, Paid, NoCheckout, Closed, EmptyCart, Carts

(* Every step keeps the invariant.                                         *)
LEMMA BasketStep ==
  ASSUME BasketInv, [BasketNext]_basketVars
  PROVE  BasketInv'
<1> USE ShoppersAssumption
<1>0. BasketShape /\ CartsAreKeptApart /\ PageHasOwner
  BY DEF BasketInv, BasketHolds
<1>e. EmptyCart \in Carts /\ EmptyCart.goods = {}
  BY DEF EmptyCart, Carts
<1>p. NoCheckout \in [signature : SUBSET Goods, key : Nat]
  BY DEF NoCheckout
<1>c. Closed \in [open : BOOLEAN, selected : SUBSET Goods, busy : BOOLEAN] /\ ~Closed.open
  BY DEF Closed
<1>1. ASSUME NEW a \in Shoppers, ShopAs(a) PROVE BasketInv'
  <2>1. \A c \in checkouts' : c \in Call /\ \E d \in checkouts : SamePayment(c, d)
    BY <1>1, LeavePageKeeps DEF ShopAs
  <2>2. \A c \in Paid' : \E d \in Paid : SamePayment(c, d)
    BY <1>1, <2>1 DEF ShopAs, Paid, SamePayment
  <2>3. BasketShape'
    BY <1>0, <1>1, <1>p, <1>c, <2>1 DEF ShopAs, BasketShape
  <2>4. /\ KeysStandForChoices' /\ KeysInOrder' /\ PendingIsOwn'
        /\ \A c \in checkouts' : c.items.goods \subseteq putIn'[c.who]
    BY <1>1, <2>1, <2>2, PaymentsKept DEF ShopAs
  <2>5. CartsAreKeptApart'
    BY <1>0, <1>1, <2>4 DEF ShopAs, CartsAreKeptApart, BasketShape
  <2>6. PageHasOwner'
    BY <1>1, <1>c DEF ShopAs, PageHasOwner
  <2> QED
    BY <2>3, <2>4, <2>5, <2>6 DEF BasketInv, BasketHolds
<1>2. ASSUME BeginSignOut PROVE BasketInv'
  <2>1. \A c \in checkouts' : c \in Call /\ \E d \in checkouts : SamePayment(c, d)
    BY <1>2, LeavePageKeeps DEF BeginSignOut
  <2>2. \A c \in Paid' : \E d \in Paid : SamePayment(c, d)
    BY <1>2, <2>1 DEF BeginSignOut, Paid, SamePayment
  <2>3. BasketShape'
    BY <1>0, <1>2, <1>p, <1>c, <2>1 DEF BeginSignOut, BasketShape
  <2>4. /\ KeysStandForChoices' /\ KeysInOrder' /\ PendingIsOwn'
        /\ \A c \in checkouts' : c.items.goods \subseteq putIn'[c.who]
    BY <1>2, <2>1, <2>2, PaymentsKept DEF BeginSignOut
  <2>5. CartsAreKeptApart' /\ PageHasOwner'
    BY <1>0, <1>2, <1>c, <2>4 DEF BeginSignOut, CartsAreKeptApart, BasketShape, PageHasOwner
  <2> QED
    BY <2>3, <2>4, <2>5 DEF BasketInv, BasketHolds
<1>3. ASSUME EndSignOut PROVE BasketInv'
  <2>1. \A c \in checkouts' : c \in Call /\ \E d \in checkouts : SamePayment(c, d)
    BY <1>3, LeavePageKeeps DEF EndSignOut
  <2>2. \A c \in Paid' : \E d \in Paid : SamePayment(c, d)
    BY <1>3, <2>1 DEF EndSignOut, Paid, SamePayment
  <2>3. BasketShape'
    BY <1>0, <1>3, <1>e, <1>p, <1>c, <2>1 DEF EndSignOut, BasketShape
  <2>4. /\ KeysStandForChoices' /\ KeysInOrder' /\ PendingIsOwn'
        /\ \A c \in checkouts' : c.items.goods \subseteq putIn'[c.who]
    BY <1>3, <2>1, <2>2, PaymentsKept DEF EndSignOut
  <2>5. CartsAreKeptApart' /\ PageHasOwner'
    BY <1>0, <1>3, <1>c, <2>4 DEF EndSignOut, CartsAreKeptApart, BasketShape, PageHasOwner
  <2> QED
    BY <2>3, <2>4, <2>5 DEF BasketInv, BasketHolds
<1>4. ASSUME OrdersListed PROVE BasketInv'
  <2>1. purchased' \subseteq Goods
    BY <1>0, <1>4 DEF OrdersListed, Owned, Purchases, BasketShape, Carts
  <2> QED
    BY <2>1, <1>4 DEF OrdersListed, BasketInv, BasketShape, BasketHolds, CartsAreKeptApart, KeysStandForChoices,
       KeysInOrder, PendingIsOwn, PageHasOwner, Paid
<1>5. ASSUME NEW g \in Goods, AddToCart(g) PROVE BasketInv'
  <2>1. \A c \in checkouts' : c \in Call /\ \E d \in checkouts : SamePayment(c, d)
    BY <1>5, LeavePageKeeps DEF AddToCart
  <2>2. \A c \in Paid' : \E d \in Paid : SamePayment(c, d)
    BY <1>5, <2>1 DEF AddToCart, Paid, SamePayment
  <2>3. cartOwner \in Shoppers
    BY <1>0, <1>5 DEF AddToCart, BasketShape
  <2>4. /\ \A a \in Shoppers : putIn[a] \subseteq putIn'[a]
        /\ putIn' \in [Shoppers -> SUBSET Goods]
        /\ putIn'[cartOwner] = putIn[cartOwner] \cup {g}
    BY <1>0, <1>5, <2>3 DEF AddToCart, BasketShape
  <2>5. PutLast(cart, g) \in Carts /\ PutLast(cart, g).goods = cart.goods \cup {g}
    BY <1>0, PutLastIsCart DEF BasketShape
  <2>6. PutLast(cart, g).goods \subseteq putIn'[cartOwner]
    BY <1>0, <1>5, <2>4, <2>5 DEF CartsAreKeptApart, AddToCart
  <2>7. /\ cart' = PutLast(cart, g) /\ savedCarts' \in [Shoppers -> Carts]
        /\ \A a \in Shoppers : savedCarts'[a].goods \subseteq putIn'[a]
    BY <1>5, <2>4, <2>5, <2>6, CartKept DEF AddToCart
  <2>8. BasketShape'
    BY <1>0, <1>5, <1>c, <2>1, <2>4, <2>5, <2>7 DEF AddToCart, BasketShape
  <2>9. /\ KeysStandForChoices' /\ KeysInOrder' /\ PendingIsOwn'
        /\ \A c \in checkouts' : c.items.goods \subseteq putIn'[c.who]
    BY <1>5, <2>1, <2>2, <2>4, PaymentsKept DEF AddToCart
  <2>10. CartsAreKeptApart' /\ PageHasOwner'
    BY <1>5, <1>c, <2>6, <2>7, <2>9 DEF AddToCart, CartsAreKeptApart, PageHasOwner
  <2> QED
    BY <2>8, <2>9, <2>10 DEF BasketInv, BasketHolds
<1>6. ASSUME NEW g \in Goods, RemoveFromCart(g) PROVE BasketInv'
  <2>1. cartOwner \in Shoppers /\ cartOwner # NoOwner
    BY <1>0, <1>6 DEF RemoveFromCart, BasketShape, PageHasOwner
  <2>2. Without(cart, {g}) \in Carts /\ Without(cart, {g}).goods \subseteq cart.goods
    BY <1>0, WithoutIsCart DEF BasketShape
  <2>3. Without(cart, {g}).goods \subseteq putIn'[cartOwner]
    BY <1>0, <1>6, <2>1, <2>2 DEF CartsAreKeptApart, RemoveFromCart
  <2>4. /\ cart' = Without(cart, {g}) /\ savedCarts' \in [Shoppers -> Carts]
        /\ \A a \in Shoppers : savedCarts'[a].goods \subseteq putIn'[a]
    BY <1>6, <2>1, <2>2, <2>3, CartKept DEF RemoveFromCart
  <2>5. cartPage' \in [open : BOOLEAN, selected : SUBSET Goods, busy : BOOLEAN] /\ cartPage'.open = cartPage.open
    BY <1>0, <1>6 DEF RemoveFromCart, BasketShape
  <2>6. BasketShape'
    BY <1>0, <1>6, <2>2, <2>4, <2>5 DEF RemoveFromCart, BasketShape
  <2>7. KeysStandForChoices' /\ KeysInOrder' /\ PendingIsOwn'
    BY <1>6 DEF RemoveFromCart, BasketInv, BasketHolds, KeysStandForChoices, KeysInOrder, PendingIsOwn, Paid
  <2>8. CartsAreKeptApart' /\ PageHasOwner'
    BY <1>0, <1>6, <2>1, <2>3, <2>4, <2>5 DEF RemoveFromCart, CartsAreKeptApart, PageHasOwner
  <2> QED
    BY <2>6, <2>7, <2>8 DEF BasketInv, BasketHolds
<1>7. ASSUME OpenCart \/ \E g \in Goods : ToggleSelected(g) PROVE BasketInv'
  <2>1. cartPage' \in [open : BOOLEAN, selected : SUBSET Goods, busy : BOOLEAN]
    <3>1. CASE OpenCart
      BY <1>0, <3>1 DEF OpenCart, BasketShape, Carts
    <3>2. ASSUME NEW g \in Goods, ToggleSelected(g) PROVE cartPage' \in [open : BOOLEAN, selected : SUBSET Goods, busy : BOOLEAN]
      <4>1. cartPage.selected \ {g} \in SUBSET Goods /\ cartPage.selected \cup {g} \in SUBSET Goods
        BY <1>0 DEF BasketShape
      <4> QED
        BY <1>0, <3>2, <4>1 DEF ToggleSelected, BasketShape
    <3> QED
      BY <1>7, <3>1, <3>2
  <2>2. cartPage'.open => cartOwner # NoOwner
    BY <1>0, <1>7 DEF OpenCart, ToggleSelected, BasketShape, PageHasOwner
  <2>3. \A c \in checkouts' : c \in Call /\ \E d \in checkouts : SamePayment(c, d)
    BY <1>0, <1>7, LeavePageKeeps DEF OpenCart, ToggleSelected, BasketShape, SamePayment
  <2>4. UNCHANGED <<cartOwner, cart, savedCarts, purchased, pendingCheckout, checkoutRecords, keysMade, putIn>>
    BY <1>7 DEF OpenCart, ToggleSelected
  <2>5. \A c \in Paid' : \E d \in Paid : SamePayment(c, d)
    BY <2>3, <2>4 DEF Paid, SamePayment
  <2>6. BasketShape'
    BY <1>0, <2>1, <2>3, <2>4 DEF BasketShape
  <2>7. /\ KeysStandForChoices' /\ KeysInOrder' /\ PendingIsOwn'
        /\ \A c \in checkouts' : c.items.goods \subseteq putIn'[c.who]
    BY <2>3, <2>4, <2>5, PaymentsKept
  <2>8. CartsAreKeptApart' /\ PageHasOwner'
    BY <1>0, <2>2, <2>4, <2>7 DEF CartsAreKeptApart, PageHasOwner
  <2> QED
    BY <2>6, <2>7, <2>8 DEF BasketInv, BasketHolds
<1>8. ASSUME Pay PROVE BasketInv'
  <2> DEFINE items == SelectedItems
             key == IF KeepsKey(items) THEN pendingCheckout.key ELSE keysMade + 1
             paid == CreateCheckout(items, key)
  <2>1. cartOwner \in Shoppers /\ cartOwner # NoOwner
    BY <1>0, <1>8 DEF Pay, BasketShape, PageHasOwner
  <2>2. items \in Carts /\ items.goods \subseteq cart.goods
    BY <1>0, WithoutIsCart DEF SelectedItems, BasketShape
  <2>3. items.goods \in SUBSET Goods
    BY <2>2 DEF Carts
  <2> HIDE DEF items
  <2>4. /\ pendingCheckout'.key = key /\ pendingCheckout'.signature = items.goods
        /\ pendingCheckout' \in [signature : SUBSET Goods, key : Nat]
        /\ checkouts' = checkouts \cup {CreateCheckout(items, pendingCheckout'.key)}
        /\ keysMade' = IF KeepsKey(items) THEN keysMade ELSE keysMade + 1
    BY <1>0, <1>8, <2>3 DEF Pay, KeepsKey, BasketShape, items
  <2>5. /\ key \in Nat \ {0} /\ key <= keysMade' /\ keysMade' \in Nat /\ keysMade <= keysMade'
    BY <1>0, <2>4 DEF KeepsKey, BasketShape, BasketInv, KeysInOrder
  <2>6. \A c \in Paid : c.key = key => c.who = cartOwner /\ c.items.goods = items.goods
    <3>1. CASE KeepsKey(items)
      BY <3>1 DEF KeepsKey, BasketInv, PendingIsOwn
    <3>2. CASE ~KeepsKey(items)
      <4>1. \A c \in Paid : c.key <= keysMade /\ c.key \in Nat
        BY <1>0 DEF BasketInv, KeysInOrder, BasketShape, Paid, Call
      <4> QED
        BY <3>2, <4>1, <1>0 DEF BasketShape
    <3> QED
      BY <3>1, <3>2
  <2> HIDE DEF key
  <2>7. paid \in Call /\ paid.who = cartOwner /\ paid.items = items /\ paid.key = key
    BY <2>1, <2>2, <2>5 DEF CreateCheckout, Call
  <2> HIDE DEF paid
  <2>8. checkouts' = checkouts \cup {paid} /\ Paid' = Paid \cup {paid}
    BY <1>8, <2>4 DEF Pay, Paid, paid
  <2>9. UNCHANGED <<cartOwner, cart, savedCarts, purchased, checkoutRecords, putIn>> /\ cartPage' = [cartPage EXCEPT !.busy = TRUE]
    BY <1>8 DEF Pay
  <2>10. BasketShape'
    BY <1>0, <2>4, <2>5, <2>7, <2>8, <2>9 DEF BasketShape, Call
  <2>11. KeysStandForChoices'
    <3> SUFFICES ASSUME NEW c \in Paid', NEW d \in Paid', c.key = d.key
                 PROVE  c.who = d.who /\ c.items.goods = d.items.goods
      BY DEF KeysStandForChoices, Paid
    <3>1. CASE c \in Paid /\ d \in Paid
      BY <3>1 DEF BasketInv, BasketHolds, KeysStandForChoices, Paid
    <3>2. CASE c = paid \/ d = paid
      BY <3>2, <2>6, <2>7, <2>8
    <3> QED
      BY <3>1, <3>2, <2>8
  <2>12. KeysInOrder'
    <3>1. \A c \in Paid : c.key <= keysMade /\ c.key \in Nat
      BY <1>0 DEF BasketInv, KeysInOrder, BasketShape, Paid, Call
    <3>2. \A c \in Paid : c.key <= keysMade'
      BY <1>0, <2>5, <3>1 DEF BasketShape
    <3> QED
      BY <3>2, <2>4, <2>5, <2>7, <2>8 DEF KeysInOrder
  <2>13. PendingIsOwn'
    BY <2>4, <2>6, <2>7, <2>8, <2>9 DEF PendingIsOwn
  <2>14. CartsAreKeptApart'
    BY <1>0, <2>1, <2>2, <2>7, <2>8, <2>9 DEF CartsAreKeptApart
  <2>15. PageHasOwner'
    BY <2>1, <2>9 DEF PageHasOwner
  <2> QED
    BY <2>10, <2>11, <2>12, <2>13, <2>14, <2>15 DEF BasketInv, BasketHolds
<1>9. ASSUME NEW c \in checkouts, ServeCheckout(c) \/ LoseCheckout(c) \/ CheckoutFails(c) PROVE BasketInv'
  <2>1. \A d \in checkouts' : d \in Call /\ \E e \in checkouts : SamePayment(d, e)
    BY <1>0, <1>9 DEF ServeCheckout, LoseCheckout, CheckoutFails, Verdict, BasketShape, SamePayment, Call
  <2>2. \A r \in checkoutRecords' : r \in [who : Shoppers, items : Carts, key : Nat \ {0}] /\ \E e \in Paid : SamePayment(r, e)
    BY <1>0, <1>9 DEF ServeCheckout, LoseCheckout, CheckoutFails, BasketShape, SamePayment, Paid, Call
  <2>3. \A d \in Paid' : \E e \in Paid : SamePayment(d, e)
    BY <2>1, <2>2 DEF Paid
  <2>4. UNCHANGED <<cartOwner, cart, savedCarts, purchased, pendingCheckout, keysMade, putIn>>
    BY <1>9 DEF ServeCheckout, LoseCheckout, CheckoutFails
  <2>5. cartPage' \in [open : BOOLEAN, selected : SUBSET Goods, busy : BOOLEAN] /\ cartPage'.open = cartPage.open
    BY <1>0, <1>9 DEF ServeCheckout, LoseCheckout, CheckoutFails, PageOf, BasketShape
  <2>6. BasketShape'
    BY <1>0, <2>1, <2>2, <2>4, <2>5 DEF BasketShape
  <2>7. /\ KeysStandForChoices' /\ KeysInOrder' /\ PendingIsOwn'
        /\ \A d \in checkouts' : d.items.goods \subseteq putIn'[d.who]
    BY <2>1, <2>3, <2>4, PaymentsKept
  <2>8. CartsAreKeptApart' /\ PageHasOwner'
    BY <1>0, <2>4, <2>5, <2>7 DEF CartsAreKeptApart, PageHasOwner
  <2> QED
    BY <2>6, <2>7, <2>8 DEF BasketInv, BasketHolds
<1>10. ASSUME NEW c \in checkouts, ReceiptArrives(c) PROVE BasketInv'
  <2>1. \A d \in checkouts' : d \in Call /\ \E e \in checkouts : SamePayment(d, e)
    <3>1. checkouts \ {c} \in SUBSET checkouts
      OBVIOUS
    <3>2. \A d \in checkouts : d \in Call /\ SamePayment(d, d)
      BY <1>0 DEF BasketShape, SamePayment
    <3>3. \A d \in LeavePage(checkouts \ {c}) : d \in Call /\ \E e \in checkouts : SamePayment(d, e)
      BY <3>1, LeavePageKeeps
    <3> QED
      BY <1>10, <3>2, <3>3 DEF ReceiptArrives
  <2>2. \A d \in Paid' : \E e \in Paid : SamePayment(d, e)
    BY <1>10, <2>1 DEF ReceiptArrives, Paid, SamePayment
  <2>3. UNCHANGED <<cartOwner, checkoutRecords, keysMade, putIn>> /\ pendingCheckout' = NoCheckout
    BY <1>10 DEF ReceiptArrives
  <2>4. /\ cartPage' \in [open : BOOLEAN, selected : SUBSET Goods, busy : BOOLEAN]
        /\ cartPage'.open => cartPage.open
    BY <1>0, <1>10, <1>c DEF ReceiptArrives, PageOf, BasketShape
  <2>5. purchased' \subseteq Goods
    BY <1>0, <1>10 DEF ReceiptArrives, Purchases, BasketShape, Carts, Call
  <2>6. /\ cart' \in Carts /\ savedCarts' \in [Shoppers -> Carts]
        /\ IF cartOwner = NoOwner THEN cart' = EmptyCart ELSE cart'.goods \subseteq putIn'[cartOwner]
        /\ \A a \in Shoppers : savedCarts'[a].goods \subseteq putIn'[a]
    <3>1. CASE c.moved \/ cartOwner = NoOwner
      BY <1>0, <1>10, <2>3, <3>1 DEF ReceiptArrives, BasketShape, CartsAreKeptApart
    <3>2. CASE ~(c.moved \/ cartOwner = NoOwner)
      <4> DEFINE s == Without(cart, c.items.goods)
      <4>1. s \in Carts /\ s.goods \subseteq cart.goods
        BY <1>0, WithoutIsCart DEF BasketShape
      <4>2. s.goods \subseteq putIn'[cartOwner]
        BY <1>0, <2>3, <3>2, <4>1 DEF CartsAreKeptApart
      <4>3. SetCart(s)
        BY <1>10, <3>2 DEF ReceiptArrives
      <4>4. \A a \in Shoppers : putIn[a] \subseteq putIn'[a]
        BY <2>3
      <4> HIDE DEF s
      <4> QED
        BY <3>2, <4>1, <4>2, <4>3, <4>4, CartKept
    <3> QED
      BY <3>1, <3>2
  <2>7. BasketShape'
    BY <1>0, <1>p, <2>1, <2>3, <2>4, <2>5, <2>6 DEF BasketShape
  <2>8. /\ KeysStandForChoices' /\ KeysInOrder' /\ PendingIsOwn'
        /\ \A d \in checkouts' : d.items.goods \subseteq putIn'[d.who]
    BY <2>1, <2>2, <2>3, PaymentsKept
  <2>9. CartsAreKeptApart' /\ PageHasOwner'
    BY <1>0, <2>3, <2>4, <2>6, <2>8 DEF CartsAreKeptApart, PageHasOwner
  <2> QED
    BY <2>7, <2>8, <2>9 DEF BasketInv, BasketHolds
<1>11. ASSUME UNCHANGED basketVars PROVE BasketInv'
  BY <1>11 DEF basketVars, BasketInv, BasketShape, BasketHolds, CartsAreKeptApart, KeysStandForChoices,
     KeysInOrder, PendingIsOwn, PageHasOwner, Paid
<1> QED
  BY <1>1, <1>2, <1>3, <1>4, <1>5, <1>6, <1>7, <1>8, <1>9, <1>10, <1>11 DEF BasketNext

(* No cart and no payment passes to another account, and a key stands for  *)
(* one choice, for any accounts, goods, losses and number of clicks        *)
(* (PlatformContext.jsx:315-319, 479-480, 726-730).                        *)
THEOREM BasketAlwaysHolds == BasketSpec => []BasketHolds
<1>1. BasketInv => BasketHolds
  BY DEF BasketInv
<1> QED
  BY <1>1, BasketStart, BasketStep, PTL DEF BasketSpec

-----------------------------------------------------------------------------
(* The tab.                                                                *)

Current(c) == c.moved = {}
Unmoved(r, number) == number \notin r.moved

(* Who is signed in is known, and until then nothing is asked for.  During *)
(* a restoration no sign-in or sign-out has come further than waiting for  *)
(* it, and only a rotation that is waited for is under way.                *)
Identified ==
  /\ authenticated <=> accountId # Nobody
  /\ restore.step # "idle" =>
       /\ ~authenticated /\ requests = {} /\ flow.step \in {"none", "await"}
       /\ flow.step = "await" => restore.moved
  /\ restore.step \in {"identity", "failed"} => \A c \in rotations : ~Current(c)
  /\ restore.step = "identity" => clToken # Nobody
  /\ restore.step = "failed" => ~restore.moved
  /\ flow.step = "none" <=> flow = Idle
  /\ flow.kind \in {"login", "verify"} => flow.acct \in Accounts

(* One rotation at a time, which whoever comes later joins.                *)
SharedIn(calls) ==
  /\ \A c \in calls : Current(c) => c.shared
  /\ \A c, d \in calls : Current(c) /\ Current(d) => c = d
  /\ \A c \in calls : c.step = "ok" => c.as # Nobody

RotationsShared == SharedIn(rotations)

(* For whom a request may have been sent that still changes what the page  *)
(* shows, and for whom an identity that is asked for in this session.      *)
PageOwners == IF authenticated /\ ~crossed THEN {accountId, Nobody} ELSE Owners
TokenOwners == IF crossed THEN Owners ELSE {clToken, Nobody}

Latest(r) == r.kind = "orders" /\ Unmoved(r, "orders")
Counts(r) == Latest(r) \/ (r.kind \in Datasets \cup {"checkout"} /\ Unmoved(r, "session"))

(* A request was sent for one of those, and brings what is of that account. *)
OwnedBy(r, own, token) ==
  /\ Counts(r) => r.sentAs \in own
  /\ r.kind \in IdentityReads /\ Unmoved(r, "generation") => r.sentAs \in token
  /\ r.step \in {"ok", "waiting"} => r.sentAs # Nobody
  /\ r.step # "ok" => r.data = {}
  /\ \A o \in r.data : o[1] = r.sentAs
  /\ r.kind = "checkout" => r.item \in Items

RequestsOwned == \A r \in requests : OwnedBy(r, PageOwners, TokenOwners)

(* There is one latest list of orders, and it holds what the page shows,   *)
(* or will: what is shown was recorded or is kept as confirmed.            *)
OneLatest == \A r, s \in requests : Latest(r) /\ Latest(s) => r = s

KnowsAll(r, shown, known) == Latest(r) /\ r.step = "ok" => shown \subseteq r.data \cup known

DataPlaced == \A r \in requests : r.data \subseteq placed

LatestKnowsAll ==
  authenticated /\ ~crossed =>
    /\ shownOrders \cup confirmedOrders \subseteq placed
    /\ \A r \in requests : KnowsAll(r, shownOrders, confirmedOrders)

TokenIsOwn == ~crossed => TokenOfAccount
PageIsOwn == ~crossed => OwnDataShown

SessionInv == Identified /\ RotationsShared /\ TokenIsOwn
PageInv == PageIsOwn /\ RequestsOwned /\ OneLatest /\ DataPlaced /\ LatestKnowsAll
ClientInv == ClientTypeOK /\ SessionInv /\ PageInv

(* A call that follows another is the same call, with what it knows the    *)
(* same or older.                                                          *)
Follows(q, r) ==
  /\ q.kind = r.kind /\ q.item = r.item /\ q.sentAs = r.sentAs /\ q.step = r.step /\ q.data = r.data
  /\ r.moved \subseteq q.moved

Aged(r, numbers) == [r EXCEPT !.moved = @ \cup (numbers \cap Compared(r.kind))]

(* Which numbers a request compares (PlatformContext.jsx:321-383).         *)
LEMMA ComparedNumbers ==
  /\ \A kind \in Kinds : Compared(kind) \subseteq Numbers /\ {"generation", "token"} \subseteq Compared(kind)
  /\ \A kind \in Datasets \cup {"checkout"} : "session" \in Compared(kind)
  /\ "orders" \in Compared("orders")
<1>1. ASSUME NEW kind
      PROVE  /\ Compared(kind) \subseteq Numbers /\ {"generation", "token"} \subseteq Compared(kind)
             /\ kind \in Datasets \cup {"checkout"} => "session" \in Compared(kind)
  <2>1. CASE kind = "wallet"
    BY <2>1 DEF Compared, Numbers
  <2>2. CASE kind = "orders"
    BY <2>2 DEF Compared, Numbers
  <2>3. CASE kind = "checkout"
    BY <2>3 DEF Compared, Numbers
  <2>4. CASE kind \notin {"wallet", "orders", "checkout"}
    BY <2>4 DEF Compared, Numbers, Datasets
  <2> QED
    BY <2>1, <2>2, <2>3, <2>4
<1>2. "orders" \in Compared("orders")
  BY DEF Compared
<1> QED
  BY <1>1, <1>2

(* A call grows older when numbers move.                                   *)
LEMMA AgedFollows ==
  ASSUME NEW r \in Request, NEW numbers
  PROVE  /\ Aged(r, numbers) \in Request /\ Follows(Aged(r, numbers), r)
         /\ numbers \cap Compared(r.kind) \subseteq Aged(r, numbers).moved
<1>1. r.moved \cup (numbers \cap Compared(r.kind)) \in SUBSET Numbers
  BY ComparedNumbers DEF Request
<1> QED
  BY <1>1 DEF Aged, Request, Follows

(* Move makes the calls older, one by one.                                 *)
LEMMA MoveAges ==
  ASSUME NEW calls, NEW numbers
  PROVE  Move(calls, numbers) = {Aged(r, numbers) : r \in calls}
BY DEF Move, Aged

(* What follows an owned call is owned, by whoever may own more.           *)
LEMMA FollowsOwned ==
  ASSUME NEW q, NEW r, NEW own, NEW token, NEW own2, NEW token2, Follows(q, r), OwnedBy(r, own, token),
         own \subseteq own2, token \subseteq token2
  PROVE  OwnedBy(q, own2, token2) /\ (Latest(q) => Latest(r))
BY DEF Follows, OwnedBy, Latest, Counts, Unmoved

(* A request that starts is of the account that asks, and brings nothing.  *)
LEMMA NewOwned ==
  ASSUME NEW kind \in Kinds, NEW item \in Items \cup {"none"}, NEW asker \in Owners, NEW own, NEW token,
         asker \in own, asker \in token, kind = "checkout" => item \in Items
  PROVE  /\ NewCall(kind, item, asker) \in Request /\ OwnedBy(NewCall(kind, item, asker), own, token)
         /\ NewCall(kind, item, asker).data = {} /\ NewCall(kind, item, asker).step = "sent"
         /\ NewCall(kind, item, asker).kind = kind
BY DEF NewCall, Request, OwnedBy

(* Requests that start supersede the others of their kinds.                *)
LEMMA StartSupersedes ==
  ASSUME NEW calls \in SUBSET Request, NEW kinds \in SUBSET Kinds, NEW item \in Items \cup {"none"}, NEW asker \in Owners
  PROVE  /\ Start(calls, kinds, item, asker) \subseteq Request
         /\ \A q \in Start(calls, kinds, item, asker) :
              \/ \E kind \in kinds : q = NewCall(kind, item, asker)
              \/ \E r \in calls : Follows(q, r) /\ (Latest(q) => q = r /\ "orders" \notin kinds)
<1> DEFINE old == {c \in calls : c.kind \in kinds}
           rest == {c \in calls : c.kind \notin kinds}
<1>1. Start(calls, kinds, item, asker)
        = {Aged(r, {"dataset", "orders"}) : r \in old} \cup rest \cup {NewCall(kind, item, asker) : kind \in kinds}
  BY MoveAges DEF Start
<1>2. \A kind \in kinds : NewCall(kind, item, asker) \in Request
  BY DEF NewCall, Request
<1>3. ASSUME NEW r \in old
      PROVE  /\ Aged(r, {"dataset", "orders"}) \in Request /\ Follows(Aged(r, {"dataset", "orders"}), r)
             /\ ~Latest(Aged(r, {"dataset", "orders"}))
  <2>1. r \in Request
    OBVIOUS
  <2>2. r.kind = "orders" => "orders" \in Aged(r, {"dataset", "orders"}).moved
    BY <2>1, AgedFollows, ComparedNumbers
  <2> QED
    BY <2>1, <2>2, AgedFollows DEF Latest, Unmoved, Follows
<1>4. \A r \in rest : r \in Request /\ r \in calls /\ Follows(r, r) /\ (Latest(r) => "orders" \notin kinds)
  BY DEF Follows, Latest
<1>5. old \subseteq calls
  OBVIOUS
<1> HIDE DEF old, rest
<1> QED
  BY <1>1, <1>2, <1>3, <1>4, <1>5

(* What waited for a rotation goes on, or fails with it.                   *)
Resumed(r, token) ==
  IF r.step = "waiting" /\ "generation" \notin r.moved
    THEN [r EXCEPT !.step = "sent", !.sentAs = token, !.moved = @ \ {"token"}]
    ELSE [r EXCEPT !.moved = @ \cup {"token"}]

GaveUp(r, c) ==
  IF r.step = "waiting" /\ (("generation" \in r.moved) <=> (c.moved # {})) THEN [r EXCEPT !.step = "failed"] ELSE r

(* The same request, but for its way to an answer, and for the token.      *)
SameRequest(q, r) ==
  /\ q.kind = r.kind /\ q.item = r.item /\ q.data = r.data
  /\ Latest(q) <=> Latest(r)
  /\ Unmoved(q, "session") <=> Unmoved(r, "session")
  /\ Unmoved(q, "generation") <=> Unmoved(r, "generation")

LEMMA WaitersGoOn ==
  ASSUME NEW r \in Request, NEW token \in Owners, NEW c
  PROVE  /\ Resumed(r, token) \in Request /\ SameRequest(Resumed(r, token), r)
         /\ \/ r.step = "waiting" /\ Unmoved(r, "generation") /\ Resumed(r, token).step = "sent" /\ Resumed(r, token).sentAs = token
            \/ Resumed(r, token).step = r.step /\ Resumed(r, token).sentAs = r.sentAs
         /\ GaveUp(r, c) \in Request /\ SameRequest(GaveUp(r, c), r) /\ GaveUp(r, c).sentAs = r.sentAs
         /\ (r.step = "waiting" /\ GaveUp(r, c).step = "failed") \/ GaveUp(r, c).step = r.step
<1>1. r.moved \ {"token"} \in SUBSET Numbers /\ r.moved \cup {"token"} \in SUBSET Numbers
  BY DEF Request, Numbers
<1>2. Resumed(r, token) \in Request
  BY <1>1 DEF Request, Resumed
<1>3. GaveUp(r, c) \in Request
  BY DEF Request, GaveUp
<1>4. SameRequest(Resumed(r, token), r)
  BY DEF SameRequest, Latest, Unmoved, Resumed, Request
<1>5. SameRequest(GaveUp(r, c), r) /\ GaveUp(r, c).sentAs = r.sentAs
  BY DEF SameRequest, Latest, Unmoved, GaveUp, Request
<1>6. \/ r.step = "waiting" /\ Unmoved(r, "generation") /\ Resumed(r, token).step = "sent" /\ Resumed(r, token).sentAs = token
      \/ Resumed(r, token).step = r.step /\ Resumed(r, token).sentAs = r.sentAs
  BY DEF Unmoved, Resumed, Request
<1>7. (r.step = "waiting" /\ GaveUp(r, c).step = "failed") \/ GaveUp(r, c).step = r.step
  BY DEF GaveUp, Request
<1> QED
  BY <1>2, <1>3, <1>4, <1>5, <1>6, <1>7

(* Sections stay shown while they are read again.                          *)
LEMMA RefreshingType ==
  ASSUME NEW states \in [Datasets -> {"loading", "ready", "refreshing", "error"}], NEW kinds
  PROVE  /\ Refreshing(states, kinds) \in [Datasets -> {"loading", "ready", "refreshing", "error"}]
         /\ \A d \in Datasets : Refreshing(states, kinds)[d] \in {"ready", "refreshing"} => states[d] \in {"ready", "refreshing"}
BY DEF Refreshing, Datasets

(* Rotations that have ended are of no generation that counts.             *)
LEMMA RotationsMoved ==
  ASSUME NEW calls \in SUBSET Rotation
  PROVE  /\ MoveRotations(calls) \subseteq Rotation
         /\ \A c \in MoveRotations(calls) : ~Current(c) /\ \E d \in calls : c.step = d.step /\ c.as = d.as
BY DEF MoveRotations, Rotation, Current

-----------------------------------------------------------------------------
(* The page is typed whoever is identified (PlatformContext.jsx:464-520).  *)
PageTyped ==
  /\ authenticated \in BOOLEAN /\ accountId \in Owners /\ walletOf \in Owners
  /\ shownOrders \subseteq Orders /\ confirmedOrders \subseteq Orders
  /\ dataState \in [Datasets -> {"loading", "ready", "refreshing", "error"}]
  /\ requests \subseteq Request

LEMMA IdentifyTyped ==
  ASSUME ClientTypeOK, NEW a \in Owners, NEW calls \in SUBSET Request, NEW kinds \in SUBSET Kinds, NEW token \in Owners,
         Identify(a, calls, kinds, token)
  PROVE  PageTyped'
<1>1. \A out \in SUBSET Request : Start(out, kinds, "none", token) \subseteq Request
  BY StartSupersedes
<1>2. Move(calls, {"session", "orders"}) \in SUBSET Request
  BY MoveAges, AgedFollows
<1>3. requests' \subseteq Request
  BY <1>1, <1>2 DEF Identify
<1>4. [d \in Datasets |-> "loading"] \in [Datasets -> {"loading", "ready", "refreshing", "error"}]
  OBVIOUS
<1>5. dataState' \in [Datasets -> {"loading", "ready", "refreshing", "error"}]
  BY <1>4, RefreshingType DEF Identify, ClientTypeOK
<1> QED
  BY <1>3, <1>5 DEF Identify, ClientTypeOK, PageTyped, Owners

LEMMA SomeKinds == Datasets \subseteq Kinds /\ IdentityReads \subseteq Kinds /\ {"checkout", "save"} \subseteq Kinds
BY DEF Kinds

LEMMA RestoredTyped ==
  ASSUME ClientTypeOK, NEW a \in Owners, NEW calls \in SUBSET Request, NEW token \in Owners, Restored(a, calls, token)
  PROVE  PageTyped' /\ restore' = [step |-> "idle", moved |-> FALSE]
<1>1. CASE restore.moved
  BY <1>1 DEF Restored, ClientTypeOK, PageTyped, pageVars, identityVars, orderVars
<1>2. CASE ~restore.moved
  BY <1>2, IdentifyTyped, SomeKinds DEF Restored
<1> QED
  BY <1>1, <1>2 DEF Restored

(* One rotation joins or starts.                                           *)
LEMMA JoinTyped ==
  ASSUME ClientTypeOK
  PROVE  JoinOrStart \subseteq Rotation
<1>1. [step |-> "csrf", as |-> Nobody, shared |-> TRUE, moved |-> {}] \in Rotation
  BY DEF Rotation, Owners
<1>2. \A c \in rotations : [c EXCEPT !.shared = FALSE] \in Rotation
  BY ZenonT(60) DEF ClientTypeOK, Rotation
<1> QED
  BY <1>1, <1>2 DEF JoinOrStart, ClientTypeOK

(* Every step keeps the types.                                             *)
LEMMA ClientTyped ==
  ASSUME ClientInv, [ClientNext]_clientVars
  PROVE  ClientTypeOK'
<1> USE ClientAssumption
<1>0. ClientTypeOK /\ RequestsOwned
  BY DEF ClientInv, PageInv
<1>n. Nobody \in Owners /\ Accounts \subseteq Owners
  BY DEF Owners
<1>i. \A s \in {"idle", "identity", "rotating", "failed"} :
        [step |-> s, moved |-> FALSE] \in [step : {"idle", "identity", "rotating", "failed"}, moved : BOOLEAN]
  OBVIOUS
<1>d. ASSUME NEW r, r.kind \in Datasets, NEW state \in {"ready", "error"}
      PROVE  Settled(r, state) \in [Datasets -> {"loading", "ready", "refreshing", "error"}]
  BY <1>0, <1>d DEF ClientTypeOK, Settled
<1>1. ASSUME NEW r \in requests, NEW answer \in {"ok", "rejected", "failed"}, ServeRequest(r, answer) PROVE ClientTypeOK'
  <2>1. r \in Request /\ OwnedBy(r, PageOwners, TokenOwners)
    BY <1>0 DEF ClientTypeOK, RequestsOwned
  <2>2. r.sentAs # Nobody /\ r.kind = "checkout" => {<<r.sentAs, r.item>>} \subseteq Orders
    BY <2>1 DEF Request, Owners, Orders, OwnedBy
  <2>3. placed' \subseteq Orders
    BY <1>0, <1>1, <2>2 DEF ServeRequest, ClientTypeOK
  <2> DEFINE data == IF answer # "ok" THEN {} ELSE IF r.kind = "checkout" THEN {<<r.sentAs, r.item>>}
                     ELSE IF r.kind = "orders" THEN {o \in placed : o[1] = r.sentAs} ELSE {}
             q == [r EXCEPT !.step = answer, !.data = data]
  <2>4. data \in SUBSET Orders
    BY <1>0, <1>1, <2>2 DEF ServeRequest, ClientTypeOK
  <2>5. requests' = (requests \ {r}) \cup {q}
    BY <1>1 DEF ServeRequest
  <2> HIDE DEF data
  <2>6. q \in Request
    BY <2>1, <2>4 DEF Request
  <2> HIDE DEF q
  <2>7. requests' \subseteq Request
    BY <1>0, <2>5, <2>6 DEF ClientTypeOK
  <2>8. faults' \in 0..MaxFaults
    <3>1. faults' = faults \/ Fault
      BY <1>1 DEF ServeRequest
    <3> QED
      BY <1>0, <3>1 DEF Fault, ClientTypeOK
  <2> QED
    BY <1>0, <1>1, <2>3, <2>7, <2>8 DEF ServeRequest, ClientTypeOK, pageVars, identityVars, orderVars
<1>2. ASSUME NEW r \in requests, LoseRequest(r) \/ RetryRejected(r) PROVE ClientTypeOK'
  <2>1. r \in Request
    BY <1>0 DEF ClientTypeOK
  <2>2. r.moved \ {"token"} \in SUBSET Numbers
    BY <2>1 DEF Request
  <2>3. \A s \in {"failed", "sent", "waiting"}, b \in BOOLEAN, t \in Owners, m \in SUBSET Numbers :
          /\ [r EXCEPT !.step = s] \in Request /\ [r EXCEPT !.step = s, !.retried = b] \in Request
          /\ [r EXCEPT !.step = s, !.retried = b, !.sentAs = t, !.moved = m] \in Request
    BY ZenonT(60), <2>1 DEF Request
  <2>4. clToken \in Owners
    BY <1>0 DEF ClientTypeOK
  <2>5. [r EXCEPT !.step = "sent", !.retried = TRUE, !.sentAs = clToken, !.moved = @ \ {"token"}] \in Request
    BY <2>2, <2>3, <2>4, <2>1
  <2>6. requests' \subseteq Request
    BY <1>0, <1>2, <2>3, <2>5 DEF LoseRequest, RetryRejected, ClientTypeOK
  <2>7. faults' \in 0..MaxFaults /\ rotations' \subseteq Rotation
    BY <1>0, <1>2, JoinTyped DEF LoseRequest, RetryRejected, Fault, ClientTypeOK
  <2> QED
    BY <1>0, <1>2, <2>6, <2>7 DEF LoseRequest, RetryRejected, ClientTypeOK, pageVars, identityVars, orderVars, serverVars
<1>3. ASSUME NEW r \in requests, ReceiveWallet(r) \/ ReceiveOrders(r) PROVE ClientTypeOK'
  <2>1. r \in Request /\ requests' \subseteq Request
    BY <1>0, <1>3 DEF ClientTypeOK, ReceiveWallet, ReceiveOrders
  <2>2. walletOf' \in Owners /\ shownOrders' \subseteq Orders /\ confirmedOrders' \subseteq Orders
    BY <1>0, <1>3, <2>1 DEF ClientTypeOK, ReceiveWallet, ReceiveOrders, Request, orderVars
  <2>3. dataState' \in [Datasets -> {"loading", "ready", "refreshing", "error"}]
    <3>1. r.kind \in Datasets
      BY <1>3 DEF ReceiveWallet, ReceiveOrders, Datasets
    <3>2. dataState' = Settled(r, "ready")
      BY <1>3 DEF ReceiveWallet, ReceiveOrders
    <3> QED
      BY <1>d, <3>1, <3>2
  <2> QED
    BY <1>0, <1>3, <2>1, <2>2, <2>3 DEF ClientTypeOK, ReceiveWallet, ReceiveOrders, identityVars, orderVars, serverVars
<1>20. ASSUME NEW r \in requests, RequestFails(r) PROVE ClientTypeOK'
  <2>1. requests \ {r} \in SUBSET Request /\ clToken \in Owners
    BY <1>0 DEF ClientTypeOK
  <2>2. requests' \subseteq Request
    BY <1>20, <2>1, StartSupersedes, SomeKinds DEF RequestFails
  <2>3. dataState' \in [Datasets -> {"loading", "ready", "refreshing", "error"}]
    <3>1. CASE r.kind \in Datasets
      <4> DEFINE state == IF dataState[r.kind] = "refreshing" THEN "ready" ELSE "error"
      <4>1. r.kind # "verified"
        BY <3>1 DEF Datasets
      <4>2. dataState' = Settled(r, state)
        BY <1>20, <3>1, <4>1 DEF RequestFails
      <4>3. state \in {"ready", "error"}
        OBVIOUS
      <4> HIDE DEF state
      <4> QED
        BY <1>d, <3>1, <4>2, <4>3
    <3>2. CASE r.kind \notin Datasets
      BY <1>0, <1>20, <3>2, RefreshingType DEF RequestFails, ClientTypeOK
    <3> QED
      BY <3>1, <3>2
  <2> QED
    BY <1>0, <1>20, <2>2, <2>3 DEF ClientTypeOK, RequestFails, identityVars, orderVars, serverVars
<1>21. ASSUME NEW r \in requests, ReceiveIdentity(r) PROVE ClientTypeOK'
  <2>1. r.sentAs \in Owners /\ requests \ {r} \in SUBSET Request /\ clToken \in Owners
    BY <1>0 DEF ClientTypeOK, Request
  <2>2. PICK kinds \in SUBSET Kinds : Identify(r.sentAs, requests \ {r}, kinds, clToken)
    BY <1>21, SomeKinds DEF ReceiveIdentity
  <2>3. PageTyped'
    BY <1>0, <2>1, <2>2, IdentifyTyped
  <2>4. crossed' \in BOOLEAN
    BY <1>21 DEF ReceiveIdentity
  <2> QED
    BY <1>0, <1>21, <2>3, <2>4 DEF ClientTypeOK, ReceiveIdentity, PageTyped, serverVars
<1>22. ASSUME NEW r \in requests, ReceiveSave(r) PROVE ClientTypeOK'
  <2>1. requests \ {r} \in SUBSET Request /\ clToken \in Owners
    BY <1>0 DEF ClientTypeOK
  <2>2. {"profile"} \in SUBSET Kinds
    BY SomeKinds DEF IdentityReads
  <2>3. requests' \subseteq Request
    BY <1>22, <2>1, <2>2, StartSupersedes DEF ReceiveSave
  <2> QED
    BY <1>0, <1>22, <2>3 DEF ClientTypeOK, ReceiveSave, pageVars, identityVars, orderVars, serverVars
<1>23. ASSUME NEW a \in Owners, OtherTab(a) PROVE ClientTypeOK'
  BY <1>0, <1>23 DEF ClientTypeOK, OtherTab, Fault, pageVars, identityVars, orderVars
<1>4. ASSUME NEW r \in requests, ReceiveCheckout(r) PROVE ClientTypeOK'
  <2>1. r \in Request /\ requests \ {r} \in SUBSET Request /\ clToken \in Owners
    BY <1>0 DEF ClientTypeOK
  <2>2. Move(requests \ {r}, {"orders"}) \in SUBSET Request
    BY <2>1, MoveAges, AgedFollows
  <2>3. requests' \subseteq Request
    <3>1. Start(Move(requests \ {r}, {"orders"}), Datasets, "none", clToken) \subseteq Request
      BY <2>1, <2>2, StartSupersedes, SomeKinds
    <3> QED
      BY <1>4, <2>1, <3>1 DEF ReceiveCheckout
  <2>4. shownOrders' \subseteq Orders /\ confirmedOrders' \subseteq Orders
    BY <1>0, <1>4, <2>1 DEF ClientTypeOK, ReceiveCheckout, Request, orderVars
  <2>5. dataState' \in [Datasets -> {"loading", "ready", "refreshing", "error"}]
    BY <1>0, <1>4, RefreshingType DEF ClientTypeOK, ReceiveCheckout
  <2> QED
    BY <1>0, <1>4, <2>3, <2>4, <2>5 DEF ClientTypeOK, ReceiveCheckout, identityVars, serverVars
<1>5. ASSUME NEW c \in rotations, PostRotation(c) PROVE ClientTypeOK'
  <2>1. c \in Rotation
    BY <1>0 DEF ClientTypeOK
  <2>2. \A s \in {"ok", "refused", "lost"}, a \in Owners :
          [c EXCEPT !.step = s] \in Rotation /\ [c EXCEPT !.step = s, !.as = a] \in Rotation
    BY <2>1 DEF Rotation
  <2>3. rotations' \subseteq Rotation
    <3>1. clCookie \in Owners
      BY <1>0 DEF ClientTypeOK
    <3>2. PICK s \in {"ok", "refused", "lost"}, a \in Owners :
            \/ rotations' = (rotations \ {c}) \cup {[c EXCEPT !.step = s, !.as = a]}
            \/ rotations' = (rotations \ {c}) \cup {[c EXCEPT !.step = s]}
      BY <1>5, <1>n, <3>1, Zenon DEF PostRotation
    <3>3. [c EXCEPT !.step = s, !.as = a] \in Rotation /\ [c EXCEPT !.step = s] \in Rotation
      BY <2>2
    <3>4. rotations \subseteq Rotation
      BY <1>0 DEF ClientTypeOK
    <3> QED
      BY <3>2, <3>3, <3>4, Zenon
  <2>4. faults' \in 0..MaxFaults
    <3>1. faults' = faults \/ Fault
      BY <1>5 DEF PostRotation
    <3> QED
      BY <1>0, <3>1 DEF Fault, ClientTypeOK
  <2> QED
    BY <1>0, <1>5, <2>3, <2>4 DEF PostRotation, ClientTypeOK, pageVars, identityVars, orderVars, serverVars
<1>6. ASSUME NEW c \in rotations, RotationReturns(c) PROVE ClientTypeOK'
  <2>1. c \in Rotation /\ c.as \in Owners /\ rotations \ {c} \in SUBSET Rotation /\ requests \in SUBSET Request
    BY <1>0 DEF ClientTypeOK, Rotation
  <2>2. UNCHANGED <<serverVars, flow, acts, faults>>
    BY <1>6 DEF RotationReturns
  <2>3. CASE SameGeneration(c) /\ c.step = "ok"
    <3>1. Resume(requests, c.as) \in SUBSET Request
      BY <2>1, WaitersGoOn DEF Resume, Resumed
    <3>2. PageTyped' /\ restore' \in [step : {"idle", "identity", "rotating", "failed"}, moved : BOOLEAN]
      <4>1. CASE restore.step = "rotating"
        BY <1>0, <1>6, <1>i, <2>1, <2>3, <3>1, <4>1, RestoredTyped DEF RotationReturns
      <4>2. CASE restore.step # "rotating"
        BY <1>0, <1>6, <2>3, <3>1, <4>2 DEF RotationReturns, ClientTypeOK, PageTyped, pageVars, identityVars, orderVars
      <4> QED
        BY <4>1, <4>2
    <3>3. clToken' \in Owners /\ rotations' \subseteq Rotation
      BY <1>6, <2>1, <2>3 DEF RotationReturns
    <3>4. crossed' \in BOOLEAN
      BY <1>6, <2>3 DEF RotationReturns
    <3> QED
      BY SMTT(40), <1>0, <2>2, <3>2, <3>3, <3>4 DEF ClientTypeOK, PageTyped, serverVars
  <2>4. CASE ~(SameGeneration(c) /\ c.step = "ok")
    <3>1. FailWaiting(requests, c) \in SUBSET Request
      BY <2>1, <1>n, WaitersGoOn DEF FailWaiting, GaveUp
    <3>2. requests' \subseteq Request
      <4>1. Move(FailWaiting(requests, c), {"generation", "token"}) \subseteq Request
        BY <3>1, MoveAges, AgedFollows
      <4>2. requests' \in {FailWaiting(requests, c), Move(FailWaiting(requests, c), {"generation", "token"})}
        BY <1>6, <2>4 DEF RotationReturns
      <4> QED
        BY <3>1, <4>1, <4>2
    <3>3. clToken' \in Owners /\ rotations' \subseteq Rotation
      <4>1. clToken' \in {clToken, Nobody}
        BY <1>6, <2>4 DEF RotationReturns
      <4>2. rotations' \in {rotations \ {c}, MoveRotations(rotations \ {c})}
        BY <1>6, <2>4 DEF RotationReturns
      <4> QED
        BY <1>0, <1>n, <2>1, <4>1, <4>2, RotationsMoved DEF ClientTypeOK
    <3>4. restore' \in [step : {"idle", "identity", "rotating", "failed"}, moved : BOOLEAN] /\ authenticated' \in BOOLEAN
      <4>1. restore' \in {restore, [step |-> "failed", moved |-> FALSE], [step |-> "idle", moved |-> FALSE]}
        BY <1>6, <2>4 DEF RotationReturns
      <4>2. authenticated' \in {authenticated, FALSE}
        BY <1>6, <2>4 DEF RotationReturns
      <4> QED
        BY <1>0, <1>i, <4>1, <4>2 DEF ClientTypeOK
    <3> QED
      BY <1>0, <1>6, <2>2, <2>4, <3>2, <3>3, <3>4 DEF RotationReturns, ClientTypeOK, serverVars, orderVars
  <2> QED
    BY <2>3, <2>4
<1>7. ASSUME RestoreIdentity PROVE ClientTypeOK'
  <2>1. clToken \in Owners /\ requests \in SUBSET Request
    BY <1>0 DEF ClientTypeOK
  <2>2. PageTyped'
    BY <1>0, <1>7, <2>1, RestoredTyped DEF RestoreIdentity, ClientTypeOK, PageTyped, pageVars, identityVars, orderVars
  <2>3. restore' \in [step : {"idle", "identity", "rotating", "failed"}, moved : BOOLEAN]
    <3>1. [restore EXCEPT !.step = "rotating"] \in [step : {"idle", "identity", "rotating", "failed"}, moved : BOOLEAN]
      BY <1>0 DEF ClientTypeOK
    <3>2. restore' \in {[restore EXCEPT !.step = "rotating"], [step |-> "failed", moved |-> FALSE], [step |-> "idle", moved |-> FALSE]}
      BY <1>0, <1>7, <2>1, RestoredTyped DEF RestoreIdentity
    <3> QED
      BY <1>i, <3>1, <3>2
  <2>4. rotations' \subseteq Rotation /\ faults' \in 0..MaxFaults
    BY <1>0, <1>7, JoinTyped DEF RestoreIdentity, ClientTypeOK, Fault
  <2>5. UNCHANGED <<clToken, serverVars, flow, acts, crossed>>
    BY <1>7 DEF RestoreIdentity
  <2> QED
    BY <1>0, <2>2, <2>3, <2>4, <2>5 DEF ClientTypeOK, PageTyped, serverVars
<1>8. ASSUME RetrySession PROVE ClientTypeOK'
  <2>1. rotations' \subseteq Rotation
    BY <1>0, <1>8, JoinTyped DEF RetrySession, ClientTypeOK
  <2>2. restore' \in [step : {"idle", "identity", "rotating", "failed"}, moved : BOOLEAN]
    BY <1>i, <1>8 DEF RetrySession
  <2> QED
    BY <1>0, <1>8, <2>1, <2>2 DEF RetrySession, ClientTypeOK, pageVars, identityVars, orderVars, serverVars
<1>9. ASSUME NEW kind \in Kinds, NEW item \in Items \cup {"none"}, Ask(kind, item) PROVE ClientTypeOK'
  <2>1. requests \in SUBSET Request /\ clToken \in Owners
    BY <1>0 DEF ClientTypeOK
  <2>2. requests' \subseteq Request
    BY <1>9, <2>1, StartSupersedes DEF Ask
  <2>3. dataState' \in [Datasets -> {"loading", "ready", "refreshing", "error"}] /\ acts' \in 0..MaxActs
    BY <1>0, <1>9, RefreshingType DEF Ask, ClientTypeOK
  <2> QED
    BY <1>0, <1>9, <2>2, <2>3 DEF Ask, ClientTypeOK, identityVars, orderVars, serverVars
<1>10. ASSUME NEW kind \in {"login", "verify", "logout"}, NEW a \in Owners, Begin(kind, a) PROVE ClientTypeOK'
  <2>1. flow' \in Flow /\ acts' \in 0..MaxActs
    BY <1>0, <1>10 DEF Begin, ClientTypeOK, Flow
  <2>2. restore' \in [step : {"idle", "identity", "rotating", "failed"}, moved : BOOLEAN]
    BY <1>0, <1>10 DEF Begin, ClientTypeOK
  <2> QED
    BY <1>0, <1>10, <2>1, <2>2 DEF Begin, ClientTypeOK, pageVars, identityVars, orderVars, serverVars
<1>11. ASSUME Submit PROVE ClientTypeOK'
  <2>1. requests' \subseteq Request
    BY <1>0, <1>11, MoveAges, AgedFollows DEF Submit, ClientTypeOK
  <2>2. flow' \in Flow
    BY <1>0, <1>11 DEF Submit, ClientTypeOK, Flow
  <2> QED
    BY <1>0, <1>11, <2>1, <2>2 DEF Submit, ClientTypeOK, pageVars, identityVars, orderVars, serverVars
<1>12. ASSUME ServeFlow PROVE ClientTypeOK'
  <2>1. Idle \in Flow
    BY <1>n DEF Idle, Flow
  <2>2. flow' \in Flow /\ faults' \in 0..MaxFaults /\ clCookie' \in Owners
    <3>1. [flow EXCEPT !.step = "served"] \in Flow
      BY <1>0 DEF ClientTypeOK, Flow
    <3> QED
      BY <1>0, <1>12, <1>n, <2>1, <3>1 DEF ServeFlow, Fault, ClientTypeOK
  <2> QED
    BY <1>0, <1>12, <2>2 DEF ServeFlow, ClientTypeOK, pageVars, identityVars, orderVars
<1>13. ASSUME EstablishSession PROVE ClientTypeOK'
  <2>1. rotations' \subseteq Rotation /\ flow.acct \in Owners /\ Idle \in Flow
    BY <1>0, <1>13, <1>n, RotationsMoved DEF EstablishSession, ClientTypeOK, Flow, Idle
  <2>2. Move(requests, {"orders", "generation", "token"}) \in SUBSET Request /\ {"sign-in"} \in SUBSET Kinds
    BY <1>0, MoveAges, AgedFollows, SomeKinds DEF ClientTypeOK, IdentityReads
  <2>3. requests' \subseteq Request
    BY <1>13, <2>1, <2>2, StartSupersedes DEF EstablishSession
  <2> QED
    BY <1>0, <1>13, <2>1, <2>3 DEF EstablishSession, ClientTypeOK, identityVars
<1>15. ASSUME EstablishVerified PROVE ClientTypeOK'
  <2>1. Idle \in Flow
    BY <1>n DEF Idle, Flow
  <2>2. flow.acct \in Owners /\ Move(requests, {"generation", "token"}) \in SUBSET Request
    BY <1>0, MoveAges, AgedFollows DEF ClientTypeOK, Flow
  <2>3. PageTyped' /\ rotations' \subseteq Rotation
    BY <1>0, <1>15, <2>2, IdentifyTyped, RotationsMoved, SomeKinds DEF EstablishVerified, ClientTypeOK, IdentityReads
  <2> QED
    BY <1>0, <1>15, <2>1, <2>2, <2>3 DEF EstablishVerified, ClientTypeOK, PageTyped
<1>16. ASSUME SignedOut PROVE ClientTypeOK'
  <2>1. Idle \in Flow
    BY <1>n DEF Idle, Flow
  <2>2. requests' \subseteq Request /\ rotations' \subseteq Rotation
    BY <1>0, <1>16, MoveAges, AgedFollows, RotationsMoved DEF SignedOut, ClientTypeOK
  <2> QED
    BY <1>0, <1>16, <1>n, <2>1, <2>2 DEF SignedOut, ClientTypeOK, serverVars
<1>17. ASSUME UNCHANGED clientVars PROVE ClientTypeOK'
  BY <1>0, <1>17 DEF clientVars, ClientTypeOK, pageVars, identityVars, orderVars, serverVars
<1>18. \A d \in Datasets \cup {"save"} : d \in Kinds /\ "none" \in Items \cup {"none"}
  BY DEF Datasets, Kinds
<1>19. "checkout" \in Kinds /\ Items \subseteq Items \cup {"none"}
  BY DEF Kinds
<1> QED
  BY <1>1, <1>2, <1>3, <1>4, <1>5, <1>6, <1>7, <1>8, <1>9, <1>10, <1>11, <1>12, <1>13, <1>15, <1>16, <1>17,
     <1>18, <1>19, <1>20, <1>21, <1>22, <1>23, <1>n DEF ClientNext

-----------------------------------------------------------------------------
(* A caller joins the one rotation under way, or starts the only one       *)
(* (client.js:42-67).                                                      *)
LEMMA JoinShares ==
  ASSUME ClientTypeOK, RotationsShared
  PROVE  SharedIn(JoinOrStart)
<1>1. CASE InFlight # {}
  BY <1>1 DEF JoinOrStart, RotationsShared
<1>2. CASE InFlight = {}
  <2> DEFINE new == [step |-> "csrf", as |-> Nobody, shared |-> TRUE, moved |-> {}]
             old == {[c EXCEPT !.shared = FALSE] : c \in rotations}
  <2>1. JoinOrStart = old \cup {new}
    BY <1>2 DEF JoinOrStart
  <2>2. \A c \in rotations : ~Current(c)
    BY <1>2 DEF InFlight, RotationsShared, SharedIn, Current
  <2>3. ASSUME NEW c \in old PROVE ~Current(c) /\ \E d \in rotations : c.step = d.step /\ c.as = d.as
    <3>1. PICK d \in rotations : c = [d EXCEPT !.shared = FALSE]
      OBVIOUS
    <3>2. d \in Rotation
      BY DEF ClientTypeOK
    <3>3. c.step = d.step /\ c.as = d.as /\ c.moved = d.moved
      BY <3>1, <3>2 DEF Rotation
    <3> QED
      BY <2>2, <3>3 DEF Current
  <2>4. new.step = "csrf" /\ new.shared /\ Current(new)
    BY DEF Current
  <2> HIDE DEF old, new
  <2>5. \A c \in old : c.step = "ok" => c.as # Nobody
    BY <2>3 DEF RotationsShared, SharedIn
  <2> QED
    BY <2>1, <2>3, <2>4, <2>5 DEF SharedIn
<1> QED
  BY <1>1, <1>2

(* A rotation that is replaced by its next stage, or gone, leaves one.     *)
LEMMA StageShares ==
  ASSUME RotationsShared, NEW c \in rotations, NEW d, Current(d) => Current(c), d.shared = c.shared, d.step = "ok" => d.as # Nobody
  PROVE  SharedIn((rotations \ {c}) \cup {d}) /\ SharedIn(rotations \ {c})
BY DEF RotationsShared, SharedIn

(* Every step keeps what holds of tokens, rotations and sign-ins.          *)
LEMMA SessionKept ==
  ASSUME ClientInv, [ClientNext]_clientVars
  PROVE  SessionInv'
<1> USE ClientAssumption
<1>0. /\ ClientTypeOK /\ Identified /\ RotationsShared /\ TokenIsOwn /\ RequestsOwned
  BY DEF ClientInv, SessionInv, PageInv
<1>n. Nobody \notin Accounts
  OBVIOUS
<1>1. ASSUME UNCHANGED <<clToken, rotations, restore, flow, identityVars, crossed>>, restore.step = "idle" \/ requests' = requests
      PROVE  SessionInv'
  BY <1>0, <1>1 DEF identityVars, SessionInv, Identified, RotationsShared, TokenIsOwn, TokenOfAccount
<1>2. ASSUME NEW r \in requests PROVE restore.step = "idle" /\ OwnedBy(r, PageOwners, TokenOwners) /\ r.sentAs \in Owners
  BY <1>0, <1>2 DEF Identified, RequestsOwned, ClientTypeOK, Request
<1>3. ASSUME NEW r \in requests, NEW answer, ServeRequest(r, answer) PROVE SessionInv'
  BY <1>1, <1>2, <1>3 DEF ServeRequest, pageVars
<1>4. ASSUME NEW r \in requests, \/ LoseRequest(r) \/ ReceiveWallet(r) \/ ReceiveOrders(r) \/ RequestFails(r)
                                \/ ReceiveCheckout(r) \/ ReceiveSave(r)
      PROVE  SessionInv'
  BY <1>1, <1>2, <1>4 DEF LoseRequest, ReceiveWallet, ReceiveOrders, RequestFails, ReceiveCheckout, ReceiveSave, pageVars, serverVars
<1>5. ASSUME NEW kind, NEW item, Ask(kind, item) PROVE SessionInv'
  BY <1>0, <1>1, <1>5 DEF Ask, Identified, serverVars
<1>6. ASSUME NEW r \in requests, RetryRejected(r) PROVE SessionInv'
  <2>1. UNCHANGED <<clToken, restore, flow, identityVars, crossed>> /\ restore.step = "idle"
    BY <1>2, <1>6 DEF RetryRejected, pageVars, serverVars
  <2>2. rotations' = rotations \/ rotations' = JoinOrStart
    BY <1>6 DEF RetryRejected
  <2>3. RotationsShared'
    BY <1>0, <2>2, JoinShares DEF RotationsShared
  <2> QED
    BY <1>0, <2>1, <2>3 DEF identityVars, SessionInv, Identified, TokenIsOwn, TokenOfAccount
<1>7. ASSUME NEW c \in rotations, PostRotation(c) PROVE SessionInv'
  <2>1. c \in Rotation /\ UNCHANGED <<clToken, restore, flow, identityVars, requests, crossed>>
    BY <1>0, <1>7 DEF PostRotation, pageVars, serverVars, ClientTypeOK
  <2>2. PICK d : /\ rotations' = (rotations \ {c}) \cup {d}
                 /\ d.shared = c.shared /\ d.moved = c.moved
                 /\ d.step = "ok" => d.as # Nobody
    <3> DEFINE step == IF c.moved # {} THEN "lost" ELSE IF clCookie = Nobody THEN "refused" ELSE "ok"
               d == [c EXCEPT !.step = step, !.as = IF step = "ok" THEN clCookie ELSE Nobody]
               e == [c EXCEPT !.step = "lost"]
               f == [c EXCEPT !.step = "refused"]
    <3>1. rotations' = (rotations \ {c}) \cup {d} \/ rotations' = (rotations \ {c}) \cup {e} \/ rotations' = (rotations \ {c}) \cup {f}
      BY <1>7 DEF PostRotation
    <3>2. d.shared = c.shared /\ d.moved = c.moved /\ (d.step = "ok" => d.as # Nobody)
      BY <2>1 DEF Rotation
    <3>3. e.shared = c.shared /\ e.moved = c.moved /\ e.step = "lost" /\ f.shared = c.shared /\ f.moved = c.moved /\ f.step = "refused"
      BY <2>1 DEF Rotation
    <3> HIDE DEF d, e, f
    <3> QED
      BY <3>1, <3>2, <3>3
  <2>3. RotationsShared'
    BY <1>0, <2>2, StageShares DEF RotationsShared, Current
  <2>4. (\A x \in rotations : ~Current(x)) => \A x \in rotations' : ~Current(x)
    BY <2>2 DEF Current
  <2> QED
    BY <1>0, <2>1, <2>3, <2>4 DEF identityVars, SessionInv, Identified, TokenIsOwn, TokenOfAccount
<1>8. ASSUME NEW c \in rotations, RotationReturns(c) PROVE SessionInv'
  <2>1. UNCHANGED flow
    BY <1>8 DEF RotationReturns
  <2>2. RotationsShared' /\ \A d \in rotations' : Current(d) => d \in rotations /\ d # c
    <3>1. SharedIn(rotations \ {c})
      BY <1>0 DEF RotationsShared, SharedIn
    <3>2. rotations \ {c} \in SUBSET Rotation
      BY <1>0 DEF ClientTypeOK
    <3>3. CASE rotations' = rotations \ {c}
      BY <3>1, <3>3 DEF RotationsShared
    <3>4. CASE rotations' = MoveRotations(rotations \ {c})
      BY <1>0, <3>2, <3>4, RotationsMoved DEF RotationsShared, SharedIn
    <3> QED
      BY <1>8, <3>3, <3>4 DEF RotationReturns
  <2>3. Current(c) => \A d \in rotations' : ~Current(d)
    BY <1>0, <2>2 DEF RotationsShared, SharedIn
  <2>4. (\A d \in rotations : ~Current(d)) => \A d \in rotations' : ~Current(d)
    BY <2>2
  <2>5. CASE Current(c) /\ c.step = "ok"
    <3>1. c.as # Nobody /\ clToken' = c.as
      BY <1>0, <1>8, <2>5 DEF RotationReturns, SameGeneration, Current, RotationsShared, SharedIn
    <3>2. CASE restore.step = "rotating" /\ ~restore.moved
      <4>1. authenticated' /\ accountId' = c.as /\ restore'.step = "idle"
        BY <1>0, <1>8, <2>5, <3>2 DEF RotationReturns, SameGeneration, Current, Restored, Identify
      <4> QED
        BY <1>0, <2>1, <2>2, <3>1, <4>1 DEF SessionInv, Identified, TokenIsOwn, TokenOfAccount, Idle
    <3>3. CASE restore.step = "rotating" /\ restore.moved
      <4>1. UNCHANGED identityVars /\ restore'.step = "idle" /\ ~authenticated
        BY <1>0, <1>8, <2>5, <3>3 DEF RotationReturns, SameGeneration, Current, Restored, Identified, pageVars
      <4> QED
        BY <1>0, <2>1, <2>2, <3>1, <4>1 DEF SessionInv, Identified, TokenIsOwn, TokenOfAccount, identityVars
    <3>4. CASE restore.step # "rotating"
      <4>1. UNCHANGED <<identityVars, restore>> /\ crossed' = (crossed \/ c.as # clToken)
        BY <1>8, <2>5, <3>4 DEF RotationReturns, SameGeneration, Current, pageVars
      <4>2. restore.step = "idle"
        BY <1>0, <2>5, <3>4 DEF Identified, ClientTypeOK
      <4> QED
        BY <1>0, <2>1, <2>2, <3>1, <4>1, <4>2 DEF SessionInv, Identified, TokenIsOwn, TokenOfAccount, identityVars
    <3> QED
      BY <3>2, <3>3, <3>4
  <2>6. CASE ~(Current(c) /\ c.step = "ok")
    <3> DEFINE clears == Current(c) /\ c.step = "refused"
    <3>1. UNCHANGED <<accountId, crossed>> /\ authenticated' = authenticated
      BY <1>0, <1>8, <2>6 DEF RotationReturns, SameGeneration, Current, Identified, ClientTypeOK
    <3>2. clToken' = IF clears THEN Nobody ELSE clToken
      BY <1>8, <2>6 DEF RotationReturns, SameGeneration, Current
    <3>3. requests = {} => requests' = {}
      BY <1>8, <2>6 DEF RotationReturns, SameGeneration, Current, Move, FailWaiting
    <3>4. \/ restore' = restore
          \/ restore'.step = "failed" /\ ~restore'.moved /\ restore.step = "rotating" /\ ~restore.moved /\ Current(c)
          \/ restore'.step = "idle"
      <4>1. CASE Current(c) /\ restore.step = "rotating"
        <5>1. restore' = [step |-> IF c.step = "lost" /\ ~restore.moved THEN "failed" ELSE "idle", moved |-> FALSE]
          BY <1>8, <2>6, <4>1 DEF RotationReturns, SameGeneration, Current
        <5> QED
          BY <4>1, <5>1
      <4>2. CASE ~(Current(c) /\ restore.step = "rotating")
        BY <1>8, <2>6, <4>2 DEF RotationReturns, SameGeneration, Current
      <4> QED
        BY <4>1, <4>2
    <3>5. clears => restore.step # "identity"
      BY <1>0 DEF Identified
    <3> HIDE DEF clears
    <3>6. Identified'
      BY <1>0, <2>1, <2>3, <2>4, <3>1, <3>2, <3>3, <3>4, <3>5 DEF Identified
    <3>7. TokenIsOwn'
      BY <1>0, <3>1, <3>2 DEF TokenIsOwn, TokenOfAccount
    <3> QED
      BY <2>2, <3>6, <3>7 DEF SessionInv
  <2> QED
    BY <2>5, <2>6
<1>9. ASSUME RestoreIdentity PROVE SessionInv'
  <2>1. UNCHANGED <<clToken, flow, crossed>> /\ ~authenticated /\ clToken # Nobody /\ requests = {}
    BY <1>0, <1>9 DEF RestoreIdentity, Identified, serverVars
  <2>2. CASE rotations' = rotations /\ Restored(clToken, requests, clToken) /\ ~restore.moved
    <3>1. authenticated' /\ accountId' = clToken /\ restore'.step = "idle"
      BY <1>0, <1>9, <2>2 DEF RestoreIdentity, Restored, Identify, Identified
    <3> QED
      BY <1>0, <2>1, <2>2, <3>1 DEF SessionInv, Identified, RotationsShared, TokenIsOwn, TokenOfAccount, Idle
  <2>3. CASE rotations' = rotations /\ UNCHANGED pageVars /\ restore'.step \in {"idle", "failed"} /\ requests' = requests
             /\ (restore'.step = "failed" => ~restore.moved /\ ~restore'.moved)
    BY <1>0, <1>9, <2>1, <2>3 DEF SessionInv, Identified, RotationsShared, TokenIsOwn, TokenOfAccount,
       pageVars, identityVars, RestoreIdentity
  <2>4. CASE rotations' = JoinOrStart /\ restore' = [restore EXCEPT !.step = "rotating"] /\ UNCHANGED <<requests, pageVars>> /\ ~restore.moved
    <3>1. restore'.step = "rotating" /\ restore'.moved = restore.moved
      BY <1>0, <2>4 DEF ClientTypeOK
    <3>2. RotationsShared'
      BY <1>0, <2>4, JoinShares DEF RotationsShared
    <3> QED
      BY <1>0, <1>9, <2>1, <2>4, <3>1, <3>2 DEF SessionInv, Identified, TokenIsOwn, TokenOfAccount,
         pageVars, identityVars, RestoreIdentity
  <2> QED
    BY <1>9, <2>2, <2>3, <2>4 DEF RestoreIdentity, Restored
<1>10. ASSUME RetrySession PROVE SessionInv'
  <2>1. UNCHANGED <<clToken, flow, requests, identityVars, crossed>>
    BY <1>10 DEF RetrySession, serverVars, pageVars
  <2>2. RotationsShared' /\ (restore'.step = "identity" => rotations' = rotations)
    BY <1>0, <1>10, JoinShares DEF RetrySession, RotationsShared
  <2>3. restore.step = "failed" /\ restore'.step \in {"rotating", "identity"} /\ ~restore'.moved /\ (restore'.step = "identity" => clToken # Nobody)
    BY <1>10 DEF RetrySession
  <2> QED
    BY <1>0, <2>1, <2>2, <2>3 DEF SessionInv, Identified, TokenIsOwn, TokenOfAccount, identityVars
<1>11. ASSUME NEW kind \in {"login", "verify", "logout"}, NEW a \in Owners, Begin(kind, a) PROVE SessionInv'
  <2>1. UNCHANGED <<clToken, rotations, requests, identityVars, crossed>>
    BY <1>11 DEF Begin, serverVars, pageVars
  <2>2. flow = Idle /\ flow'.kind = kind /\ flow'.step = "await" /\ flow'.acct = a /\ flow' # Idle
    BY <1>11 DEF Begin, Idle
  <2>3. kind # "logout" => a \in Accounts
    BY <1>11 DEF Begin, Owners
  <2>4. restore'.step = "idle" \/ (restore'.step = restore.step /\ restore'.moved /\ restore.step \notin {"idle", "failed"})
    BY <1>0, <1>11 DEF Begin, ClientTypeOK
  <2> QED
    BY <1>0, <2>1, <2>2, <2>3, <2>4 DEF SessionInv, Identified, RotationsShared, TokenIsOwn, TokenOfAccount, identityVars
<1>12. ASSUME Submit \/ ServeFlow PROVE SessionInv'
  <2>1. UNCHANGED <<clToken, rotations, restore, identityVars, crossed>> /\ restore.step = "idle"
    BY <1>0, <1>12 DEF Submit, ServeFlow, pageVars, Identified
  <2>2. \/ flow' = Idle
        \/ flow'.kind = flow.kind /\ flow'.acct = flow.acct /\ flow'.step \in {"posting", "served"} /\ flow' # Idle
    BY <1>0, <1>12 DEF Submit, ServeFlow, Idle, ClientTypeOK, Flow
  <2> QED
    BY <1>0, <2>1, <2>2 DEF SessionInv, Identified, RotationsShared, TokenIsOwn, TokenOfAccount, identityVars, Idle
<1>13. ASSUME rotations' = MoveRotations(rotations)
       PROVE  RotationsShared' /\ \A c \in rotations' : ~Current(c)
  BY <1>0, <1>13, RotationsMoved DEF RotationsShared, SharedIn, ClientTypeOK
<1>14. ASSUME EstablishSession PROVE SessionInv'
  <2>1. /\ UNCHANGED <<restore, identityVars>> /\ restore.step = "idle" /\ rotations' = MoveRotations(rotations)
        /\ flow' = Idle /\ crossed' = (crossed \/ authenticated)
    BY <1>0, <1>14 DEF EstablishSession, Identified
  <2> QED
    BY <1>0, <1>13, <2>1 DEF SessionInv, Identified, TokenIsOwn, TokenOfAccount, identityVars, Idle
<1>15. ASSUME NEW r \in requests, ReceiveIdentity(r) PROVE SessionInv'
  <2>1. /\ UNCHANGED <<clToken, rotations, restore, flow>> /\ restore.step = "idle" /\ authenticated' /\ accountId' = r.sentAs
        /\ crossed' = (crossed \/ "generation" \in r.moved)
    BY <1>2, <1>15 DEF ReceiveIdentity, Identify, serverVars
  <2>2. r.sentAs # Nobody /\ (~crossed' => r.sentAs \in {clToken, Nobody})
    BY <1>2, <1>15, <2>1 DEF ReceiveIdentity, OwnedBy, Unmoved, TokenOwners
  <2> QED
    BY <1>0, <2>1, <2>2 DEF SessionInv, Identified, RotationsShared, TokenIsOwn, TokenOfAccount
<1>16. ASSUME EstablishVerified PROVE SessionInv'
  <2>1. /\ clToken' = flow.acct /\ UNCHANGED restore /\ flow' = Idle /\ restore.step = "idle"
        /\ authenticated' /\ accountId' = flow.acct /\ flow.acct \in Accounts /\ rotations' = MoveRotations(rotations)
    BY <1>0, <1>16 DEF EstablishVerified, Identify, Identified
  <2> QED
    BY <1>13, <2>1 DEF SessionInv, Identified, TokenIsOwn, TokenOfAccount, Idle
<1>17. ASSUME SignedOut PROVE SessionInv'
  <2>1. /\ UNCHANGED restore /\ flow' = Idle /\ restore.step = "idle"
        /\ ~authenticated' /\ accountId' = Nobody /\ rotations' = MoveRotations(rotations)
    BY <1>0, <1>17 DEF SignedOut, Identified
  <2> QED
    BY <1>13, <2>1 DEF SessionInv, Identified, TokenIsOwn, TokenOfAccount, Idle
<1>18. ASSUME NEW a, OtherTab(a) PROVE SessionInv'
  BY <1>1, <1>18 DEF OtherTab, pageVars
<1>19. ASSUME UNCHANGED clientVars PROVE SessionInv'
  BY <1>1, <1>19 DEF clientVars, pageVars
<1>20. Nobody \in Owners /\ Accounts \subseteq Owners
  BY DEF Owners
<1> QED
  BY <1>3, <1>4, <1>5, <1>6, <1>7, <1>8, <1>9, <1>10, <1>11, <1>12, <1>14, <1>15, <1>16, <1>17, <1>18, <1>19, <1>20 DEF ClientNext

-----------------------------------------------------------------------------
(* Whoever may own a request: the token of the tab always does.            *)
LEMMA WhoOwns ==
  ASSUME ClientTypeOK, TokenIsOwn
  PROVE  /\ clToken \in PageOwners /\ clToken \in TokenOwners /\ clToken \in Owners
         /\ PageOwners \subseteq Owners /\ TokenOwners \subseteq Owners
         /\ Nobody \in PageOwners /\ Nobody \in TokenOwners
BY DEF ClientTypeOK, TokenIsOwn, TokenOfAccount, PageOwners, TokenOwners, Owners

(* Calls that only grow older leave one latest list of orders.             *)
LEMMA MappedLatest ==
  ASSUME OneLatest, NEW F, requests' = {F[r] : r \in requests}, \A r \in requests : Latest(F[r]) => Latest(r)
  PROVE  OneLatest'
BY DEF OneLatest

(* What a page shows is not touched by what leaves it alone.               *)
LEMMA SamePage ==
  ASSUME UNCHANGED pageVars, crossed => crossed'
  PROVE  (PageIsOwn => PageIsOwn') /\ ConfirmedStays
BY DEF pageVars, identityVars, orderVars, PageIsOwn, OwnDataShown, ConfirmedStays

(* A page that is unchanged stays right while requests go on their way.    *)
LEMMA MappedKeepsPage ==
  ASSUME PageInv, UNCHANGED <<pageVars, placed>>, crossed => crossed', NEW F, requests' = {F[r] : r \in requests},
         \A r \in requests : /\ OwnedBy(F[r], PageOwners', TokenOwners') /\ F[r].data = r.data
                             /\ Latest(F[r]) => Latest(r)
                             /\ F[r].step = "ok" => r.step = "ok"
  PROVE  PageInv' /\ ConfirmedStays
<1>1. OneLatest'
  BY MappedLatest DEF PageInv
<1>2. RequestsOwned' /\ DataPlaced'
  BY DEF RequestsOwned, PageInv, DataPlaced
<1>3. LatestKnowsAll'
  <2> SUFFICES ASSUME authenticated, ~crossed
               PROVE  /\ shownOrders \cup confirmedOrders \subseteq placed
                      /\ \A q \in requests' : KnowsAll(q, shownOrders, confirmedOrders)
    BY DEF LatestKnowsAll, pageVars, identityVars, orderVars
  <2>1. ASSUME NEW r \in requests PROVE KnowsAll(F[r], shownOrders, confirmedOrders)
    BY DEF PageInv, LatestKnowsAll, KnowsAll
  <2> QED
    BY <2>1 DEF PageInv, LatestKnowsAll
<1>4. PageIsOwn' /\ ConfirmedStays
  BY SamePage DEF PageInv
<1> QED
  BY <1>1, <1>2, <1>3, <1>4 DEF PageInv

(* So it does when one request is answered, lost or sent again.            *)
LEMMA ReplacedKeepsPage ==
  ASSUME PageInv, UNCHANGED <<pageVars, clToken, crossed>>, placed \subseteq placed', NEW r \in requests, NEW q,
         requests' = (requests \ {r}) \cup {q},
         OwnedBy(q, PageOwners, TokenOwners), Latest(q) => Latest(r), q.data \subseteq placed',
         authenticated /\ ~crossed => KnowsAll(q, shownOrders, confirmedOrders)
  PROVE  PageInv' /\ ConfirmedStays
<1>1. OneLatest' /\ DataPlaced'
  BY DEF PageInv, OneLatest, DataPlaced
<1>2. RequestsOwned'
  BY DEF PageInv, RequestsOwned, pageVars, identityVars, PageOwners, TokenOwners
<1>3. LatestKnowsAll'
  <2> SUFFICES ASSUME authenticated, ~crossed
               PROVE  /\ shownOrders \cup confirmedOrders \subseteq placed'
                      /\ \A p \in requests' : KnowsAll(p, shownOrders, confirmedOrders)
    BY DEF LatestKnowsAll, pageVars, identityVars, orderVars
  <2> QED
    BY DEF PageInv, LatestKnowsAll
<1>4. PageIsOwn' /\ ConfirmedStays
  BY SamePage DEF PageInv
<1> QED
  BY <1>1, <1>2, <1>3, <1>4 DEF PageInv

(* Requests that are owned and bring only what was recorded, and after     *)
(* which others are sent, are owned and bring only that.                   *)
AllOwned(calls, own, token, records) == \A r \in calls : OwnedBy(r, own, token) /\ r.data \subseteq records

LEMMA StartOwned ==
  ASSUME NEW calls \in SUBSET Request, NEW kinds \in SUBSET Kinds, NEW item \in Items \cup {"none"}, NEW asker \in Owners,
         NEW own, NEW token, NEW records, asker \in own, asker \in token, "checkout" \in kinds => item \in Items,
         AllOwned(calls, own, token, records)
  PROVE  /\ AllOwned(Start(calls, kinds, item, asker), own, token, records)
         /\ \A q \in Start(calls, kinds, item, asker) :
              Latest(q) => \/ q = NewCall("orders", item, asker) /\ q.step = "sent" /\ "orders" \in kinds
                           \/ q \in calls /\ "orders" \notin kinds
<1>1. ASSUME NEW q \in Start(calls, kinds, item, asker)
      PROVE  /\ OwnedBy(q, own, token) /\ q.data \subseteq records
             /\ Latest(q) => \/ q = NewCall("orders", item, asker) /\ q.step = "sent" /\ "orders" \in kinds
                             \/ q \in calls /\ "orders" \notin kinds
  <2>1. ASSUME NEW kind \in kinds, q = NewCall(kind, item, asker)
        PROVE  /\ OwnedBy(q, own, token) /\ q.data \subseteq records
               /\ Latest(q) => q = NewCall("orders", item, asker) /\ q.step = "sent" /\ "orders" \in kinds
    <3>1. OwnedBy(q, own, token) /\ q.data = {} /\ q.step = "sent" /\ q.kind = kind
      BY <2>1, NewOwned
    <3> QED
      BY <2>1, <3>1 DEF Latest
  <2>2. ASSUME NEW r \in calls, Follows(q, r), Latest(q) => q = r /\ "orders" \notin kinds
        PROVE  /\ OwnedBy(q, own, token) /\ q.data \subseteq records
               /\ Latest(q) => q \in calls /\ "orders" \notin kinds
    <3>1. OwnedBy(r, own, token) /\ r.data \subseteq records
      BY DEF AllOwned
    <3> QED
      BY <2>2, <3>1, FollowsOwned DEF Follows
  <2> QED
    BY <2>1, <2>2, StartSupersedes
<1> QED
  BY <1>1 DEF AllOwned

(* So there is one latest list among them, and it holds what is shown.     *)
LEMMA StartKnows ==
  ASSUME NEW calls \in SUBSET Request, NEW kinds \in SUBSET Kinds, NEW item \in Items \cup {"none"}, NEW asker \in Owners,
         NEW own, NEW token, NEW records, asker \in own, asker \in token, "checkout" \in kinds => item \in Items,
         AllOwned(calls, own, token, records),
         \A p, q \in calls : Latest(p) /\ Latest(q) => p = q
  PROVE  LET out == Start(calls, kinds, item, asker)
         IN /\ AllOwned(out, own, token, records)
            /\ \A p, q \in out : Latest(p) /\ Latest(q) => p = q
            /\ \A shown, known : (\A q \in calls : KnowsAll(q, shown, known)) => (\A q \in out : KnowsAll(q, shown, known))
<1> DEFINE out == Start(calls, kinds, item, asker)
<1>1. /\ AllOwned(out, own, token, records)
      /\ \A q \in out : Latest(q) => \/ q = NewCall("orders", item, asker) /\ q.step = "sent" /\ "orders" \in kinds
                                     \/ q \in calls /\ "orders" \notin kinds
  BY StartOwned
<1> HIDE DEF out
<1>2. \A p, q \in out : Latest(p) /\ Latest(q) => p = q
  BY <1>1
<1>3. ASSUME NEW shown, NEW known, \A q \in calls : KnowsAll(q, shown, known), NEW q \in out PROVE KnowsAll(q, shown, known)
  BY <1>1, <1>3 DEF KnowsAll
<1> QED
  BY <1>1, <1>2, <1>3 DEF out

(* An identity that is applied in its session leaves the page to its       *)
(* account, and keeps what was shown if it is the account of the page      *)
(* (PlatformContext.jsx:464-481); what is asked for is of the token.       *)
LEMMA IdentifyKeepsPage ==
  ASSUME ClientInv, NEW a \in Accounts, NEW calls \in SUBSET Request, NEW kinds \in SUBSET (Datasets \cup IdentityReads), NEW token \in Owners,
         \A q \in calls : \E r \in requests : Follows(q, r),
         \A p, q \in calls : Latest(p) /\ Latest(q) => p = q,
         \A q \in calls : q.kind \in IdentityReads /\ Unmoved(q, "generation") => q.sentAs \in TokenOwners',
         Identify(a, calls, kinds, token), placed' = placed, clToken' = token,
         crossed => crossed', ~crossed' => token \in {a, Nobody}
  PROVE  PageInv' /\ ConfirmedStays
<1> DEFINE out == IF accountId # a THEN Move(calls, {"session", "orders"}) ELSE calls
<1>0. ClientTypeOK /\ Identified /\ PageInv /\ a # Nobody /\ a \in Owners
  BY ClientAssumption DEF ClientInv, SessionInv, Owners
<1>1. out \in SUBSET Request
  BY MoveAges, AgedFollows
<1>2. requests' = Start(out, kinds, "none", token) /\ accountId' = a /\ authenticated' = TRUE
  BY DEF Identify
<1>3. PageOwners' = IF crossed' THEN Owners ELSE {a, Nobody}
  BY <1>2 DEF PageOwners
<1>4. token \in PageOwners' /\ token \in TokenOwners'
  BY <1>3 DEF TokenOwners
<1>5. ASSUME NEW q \in out
      PROVE  /\ OwnedBy(q, PageOwners', TokenOwners') /\ q.data \subseteq placed
             /\ Latest(q) => accountId = a /\ q \in calls
  <2>1. ASSUME NEW p \in calls
        PROVE  \E r \in requests : /\ Follows(p, r) /\ p.data \subseteq placed
                                   /\ r \in Request /\ OwnedBy(r, PageOwners, TokenOwners)
    BY <1>0 DEF ClientTypeOK, PageInv, RequestsOwned, DataPlaced, Follows
  <2>2. CASE accountId = a
    <3>1. PICK r \in requests : /\ Follows(q, r) /\ q.data \subseteq placed
                                /\ r \in Request /\ OwnedBy(r, PageOwners, TokenOwners)
      BY <2>1, <2>2
    <3>2. authenticated /\ (~crossed' => ~crossed)
      BY <1>0, <2>2 DEF Identified
    <3>3. r.sentAs \in Owners
      BY <3>1 DEF Request
    <3>4. r.sentAs \in PageOwners => r.sentAs \in PageOwners'
      BY <1>3, <2>2, <3>2, <3>3 DEF PageOwners
    <3>5. q.kind \in IdentityReads /\ Unmoved(q, "generation") => q.sentAs \in TokenOwners'
      BY <2>2
    <3> QED
      BY <2>2, <3>1, <3>4, <3>5 DEF Follows, OwnedBy, Latest, Counts, Unmoved
  <2>3. CASE accountId # a
    <3>1. PICK p \in calls : q = Aged(p, {"session", "orders"})
      BY <2>3, MoveAges
    <3>2. PICK r \in requests : /\ Follows(p, r) /\ p.data \subseteq placed
                                /\ r \in Request /\ OwnedBy(r, PageOwners, TokenOwners)
      BY <2>1
    <3>3. p \in Request /\ Follows(q, p) /\ {"session", "orders"} \cap Compared(p.kind) \subseteq q.moved
      BY <3>1, AgedFollows
    <3>4. ~Counts(q)
      <4>1. q.kind = p.kind
        BY <3>3 DEF Follows
      <4>2. (q.kind \in Datasets \cup {"checkout"} => "session" \in q.moved) /\ (q.kind = "orders" => "orders" \in q.moved)
        BY <3>3, <4>1, ComparedNumbers
      <4> QED
        BY <4>2 DEF Counts, Latest, Unmoved
    <3>5. q.kind \in IdentityReads /\ Unmoved(q, "generation") => q.sentAs \in TokenOwners'
      BY <3>3 DEF Follows, Unmoved
    <3>6. ~Latest(q)
      BY <3>4 DEF Counts
    <3> QED
      BY <3>2, <3>3, <3>4, <3>5, <3>6 DEF OwnedBy, Follows
  <2> QED
    BY <2>2, <2>3
<1>6. \A p, q \in out : Latest(p) /\ Latest(q) => p = q
  BY <1>5
<1> HIDE DEF out
<1>7. /\ AllOwned(requests', PageOwners', TokenOwners', placed)
      /\ \A p, q \in requests' : Latest(p) /\ Latest(q) => p = q
      /\ \A shown, known : (\A q \in out : KnowsAll(q, shown, known)) => (\A q \in requests' : KnowsAll(q, shown, known))
  <2>1. AllOwned(out, PageOwners', TokenOwners', placed)
    BY <1>5 DEF AllOwned
  <2>2. kinds \in SUBSET Kinds /\ "checkout" \notin kinds
    BY SomeKinds DEF Datasets, IdentityReads
  <2>3. "none" \in Items \cup {"none"}
    OBVIOUS
  <2> DEFINE own == PageOwners'
             tokens == TokenOwners'
  <2>4. token \in own /\ token \in tokens /\ AllOwned(out, own, tokens, placed)
    BY <1>4, <2>1
  <2> HIDE DEF own, tokens
  <2>5. LET next == Start(out, kinds, "none", token)
        IN /\ AllOwned(next, own, tokens, placed)
           /\ \A p, q \in next : Latest(p) /\ Latest(q) => p = q
           /\ \A shown, known : (\A q \in out : KnowsAll(q, shown, known)) => (\A q \in next : KnowsAll(q, shown, known))
    BY <1>1, <1>6, <2>2, <2>3, <2>4, StartKnows
  <2> QED
    BY <1>2, <2>5 DEF own, tokens
<1>8. RequestsOwned' /\ OneLatest' /\ DataPlaced'
  BY <1>7 DEF RequestsOwned, OneLatest, AllOwned, DataPlaced
<1>9. CASE accountId = a
  <2>1. authenticated /\ UNCHANGED <<shownOrders, confirmedOrders, walletOf>> /\ dataState' = Refreshing(dataState, kinds)
    BY <1>0, <1>9 DEF Identify, Identified
  <2>2. dataState'["wallet"] \in {"ready", "refreshing"} => dataState["wallet"] \in {"ready", "refreshing"}
    BY <1>0, <2>1, RefreshingType DEF ClientTypeOK, Datasets
  <2>3. PageIsOwn'
    BY <1>0, <1>2, <1>9, <2>1, <2>2 DEF PageInv, PageIsOwn, OwnDataShown
  <2>4. LatestKnowsAll'
    <3> SUFFICES ASSUME ~crossed' PROVE /\ shownOrders \cup confirmedOrders \subseteq placed
                                        /\ \A q \in requests' : KnowsAll(q, shownOrders, confirmedOrders)
      BY <2>1 DEF LatestKnowsAll
    <3>1. /\ shownOrders \cup confirmedOrders \subseteq placed
          /\ \A q \in requests : KnowsAll(q, shownOrders, confirmedOrders)
      BY <1>0, <2>1 DEF PageInv, LatestKnowsAll
    <3>2. \A q \in out : KnowsAll(q, shownOrders, confirmedOrders)
      <4>1. ASSUME NEW q \in calls PROVE KnowsAll(q, shownOrders, confirmedOrders)
        BY <3>1 DEF KnowsAll, Follows, Latest, Unmoved
      <4> QED
        BY <1>5, <4>1 DEF KnowsAll
    <3> QED
      BY <1>7, <3>1, <3>2
  <2> QED
    BY <1>8, <2>1, <2>3, <2>4 DEF PageInv, ConfirmedStays
<1>10. CASE accountId # a
  <2> DEFINE states == [d \in Datasets |-> "loading"]
  <2>1. shownOrders' = {} /\ confirmedOrders' = {} /\ dataState' = Refreshing(states, kinds)
    BY <1>10 DEF Identify
  <2>2. dataState'["wallet"] \notin {"ready", "refreshing"}
    <3>1. states \in [Datasets -> {"loading", "ready", "refreshing", "error"}] /\ "wallet" \in Datasets /\ states["wallet"] = "loading"
      BY DEF Datasets
    <3> HIDE DEF states
    <3> QED
      BY <2>1, <3>1, RefreshingType
  <2>3. PageIsOwn' /\ LatestKnowsAll'
    BY <1>2, <2>1, <2>2 DEF PageIsOwn, OwnDataShown, LatestKnowsAll, KnowsAll
  <2> QED
    BY <1>2, <1>8, <1>10, <2>3 DEF PageInv, ConfirmedStays
<1> QED
  BY <1>9, <1>10

(* An old call is of no session that counts, whoever asks in the next.     *)
LEMMA AgedOwned ==
  ASSUME NEW r \in Request, NEW own, NEW token, NEW own2, NEW token2, NEW numbers, "generation" \in numbers,
         OwnedBy(r, own, token), own \subseteq own2 \/ own2 = Owners
  PROVE  /\ OwnedBy(Aged(r, numbers), own2, token2) /\ Aged(r, numbers).data = r.data
         /\ Latest(Aged(r, numbers)) => Latest(r)
<1>1. Follows(Aged(r, numbers), r) /\ numbers \cap Compared(r.kind) \subseteq Aged(r, numbers).moved /\ r.kind \in Kinds /\ r.sentAs \in Owners
  BY AgedFollows DEF Request
<1>2. "generation" \in Aged(r, numbers).moved
  BY <1>1, ComparedNumbers
<1> QED
  BY <1>1, <1>2 DEF Follows, OwnedBy, Latest, Counts, Unmoved

(* What is asked for beside what the page shows already.                   *)
LEMMA StartKeeps ==
  ASSUME ClientInv, NEW calls \in SUBSET Request, NEW kinds \in SUBSET Kinds, NEW item \in Items \cup {"none"},
         "checkout" \in kinds => item \in Items,
         \A q \in calls : \E r \in requests : Follows(q, r),
         \A p, q \in calls : Latest(p) /\ Latest(q) => p = q,
         requests' = Start(calls, kinds, item, clToken), UNCHANGED <<placed, clToken, identityVars, crossed>>
  PROVE  /\ RequestsOwned' /\ OneLatest' /\ DataPlaced'
         /\ \A shown, known : (\A q \in calls : KnowsAll(q, shown, known)) => (\A q \in requests' : KnowsAll(q, shown, known))
<1>1. /\ clToken \in PageOwners /\ clToken \in TokenOwners /\ clToken \in Owners
      /\ PageOwners' = PageOwners /\ TokenOwners' = TokenOwners
  BY WhoOwns DEF ClientInv, SessionInv, PageOwners, TokenOwners, identityVars
<1>2. AllOwned(calls, PageOwners, TokenOwners, placed)
  <2> SUFFICES ASSUME NEW q \in calls PROVE OwnedBy(q, PageOwners, TokenOwners) /\ q.data \subseteq placed
    BY DEF AllOwned
  <2>1. PICK r \in requests : Follows(q, r)
    OBVIOUS
  <2>2. OwnedBy(r, PageOwners, TokenOwners) /\ r.data \subseteq placed
    BY DEF ClientInv, PageInv, RequestsOwned, DataPlaced
  <2> QED
    BY <2>1, <2>2, FollowsOwned DEF Follows
<1> DEFINE own == PageOwners
           tokens == TokenOwners
<1>3. clToken \in own /\ clToken \in tokens /\ AllOwned(calls, own, tokens, placed)
  BY <1>1, <1>2
<1> HIDE DEF own, tokens
<1>4. LET out == Start(calls, kinds, item, clToken)
      IN /\ AllOwned(out, own, tokens, placed)
         /\ \A p, q \in out : Latest(p) /\ Latest(q) => p = q
         /\ \A shown, known : (\A q \in calls : KnowsAll(q, shown, known)) => (\A q \in out : KnowsAll(q, shown, known))
  BY <1>1, <1>3, StartKnows
<1> QED
  BY <1>1, <1>4 DEF AllOwned, RequestsOwned, OneLatest, DataPlaced, own, tokens

LEMMA FollowsItself == \A r : Follows(r, r)
BY DEF Follows

(* Every step keeps the page of one account, and what was confirmed on it. *)
LEMMA PageKept ==
  ASSUME ClientInv, [ClientNext]_clientVars
  PROVE  PageInv' /\ ConfirmedStays
<1> USE ClientAssumption
<1>0. ClientTypeOK /\ Identified /\ TokenIsOwn /\ PageInv /\ authenticated \in BOOLEAN
  BY DEF ClientInv, SessionInv, ClientTypeOK
<1>r. ASSUME NEW r \in requests
      PROVE  /\ r \in Request /\ OwnedBy(r, PageOwners, TokenOwners) /\ r.data \subseteq placed
             /\ authenticated /\ ~crossed => KnowsAll(r, shownOrders, confirmedOrders)
  BY <1>0 DEF ClientTypeOK, PageInv, RequestsOwned, DataPlaced, LatestKnowsAll
<1>w. /\ clToken \in PageOwners /\ clToken \in TokenOwners /\ clToken \in Owners
      /\ PageOwners \subseteq Owners /\ TokenOwners \subseteq Owners
  BY <1>0, WhoOwns
<1>s. UNCHANGED shownOrders => ConfirmedStays
  BY DEF ConfirmedStays
<1>1. ASSUME NEW r \in requests, NEW answer \in {"ok", "rejected", "failed"}, ServeRequest(r, answer) PROVE PageInv' /\ ConfirmedStays
  <2> DEFINE data == IF answer # "ok" THEN {} ELSE IF r.kind = "checkout" THEN {<<r.sentAs, r.item>>}
                     ELSE IF r.kind = "orders" THEN {o \in placed : o[1] = r.sentAs} ELSE {}
             q == [r EXCEPT !.step = answer, !.data = data]
  <2>1. requests' = (requests \ {r}) \cup {q} /\ UNCHANGED <<pageVars, clToken, crossed>> /\ (answer = "ok" => r.sentAs # Nobody)
    BY <1>1 DEF ServeRequest
  <2>2. placed \subseteq placed' /\ data \subseteq placed'
    BY <1>1 DEF ServeRequest
  <2>3. \A o \in data : o[1] = r.sentAs
    OBVIOUS
  <2>4. answer # "ok" => data = {}
    OBVIOUS
  <2>5. r.kind = "orders" /\ answer = "ok" => data = {o \in placed : o[1] = r.sentAs}
    OBVIOUS
  <2> HIDE DEF data
  <2>6. /\ q.kind = r.kind /\ q.item = r.item /\ q.moved = r.moved /\ q.sentAs = r.sentAs /\ q.step = answer /\ q.data = data
    BY <1>r DEF Request
  <2> HIDE DEF q
  <2>7. OwnedBy(q, PageOwners, TokenOwners) /\ (Latest(q) => Latest(r))
    BY <1>r, <2>1, <2>3, <2>4, <2>6 DEF OwnedBy, Latest, Counts, Unmoved
  <2>8. authenticated /\ ~crossed => KnowsAll(q, shownOrders, confirmedOrders)
    <3> SUFFICES ASSUME authenticated, ~crossed, Latest(q), answer = "ok" PROVE shownOrders \subseteq data
      BY <2>6 DEF KnowsAll
    <3>1. r.sentAs = accountId /\ r.kind = "orders"
      BY <1>r, <2>1, <2>7 DEF OwnedBy, Latest, Counts, PageOwners
    <3>2. \A o \in shownOrders : o[1] = accountId /\ o \in placed
      BY <1>0 DEF PageInv, PageIsOwn, OwnDataShown, LatestKnowsAll
    <3> QED
      BY <2>5, <3>1, <3>2
  <2> QED
    BY <1>0, <2>1, <2>2, <2>6, <2>7, <2>8, ReplacedKeepsPage
<1>2. ASSUME NEW r \in requests, LoseRequest(r) \/ RetryRejected(r) PROVE PageInv' /\ ConfirmedStays
  <2>1. r.step # "ok" /\ UNCHANGED <<pageVars, placed, clToken, crossed>>
    BY <1>2 DEF LoseRequest, RetryRejected, serverVars
  <2>2. r.moved \ {"token"} \subseteq Numbers
    BY <1>r DEF Request
  <2>3. PICK q : /\ requests' = (requests \ {r}) \cup {q}
                 /\ q.kind = r.kind /\ q.item = r.item /\ q.data = r.data
                 /\ Unmoved(q, "session") <=> Unmoved(r, "session")
                 /\ Unmoved(q, "orders") <=> Unmoved(r, "orders")
                 /\ Unmoved(q, "generation") <=> Unmoved(r, "generation")
                 /\ q.step # "ok"
                 /\ q.step = "waiting" => q.sentAs # Nobody
                 /\ q.sentAs = r.sentAs \/ q.sentAs = clToken
    <3> DEFINE failed == [r EXCEPT !.step = "failed"]
               again == [r EXCEPT !.step = "sent", !.retried = TRUE, !.sentAs = clToken, !.moved = @ \ {"token"}]
               waiting == [r EXCEPT !.step = "waiting", !.retried = TRUE]
    <3>1. \/ requests' = (requests \ {r}) \cup {failed}
          \/ requests' = (requests \ {r}) \cup {again}
          \/ requests' = (requests \ {r}) \cup {waiting} /\ r.sentAs # Nobody
      BY <1>2 DEF LoseRequest, RetryRejected
    <3>2. /\ failed.kind = r.kind /\ failed.item = r.item /\ failed.data = r.data /\ failed.moved = r.moved
          /\ failed.step = "failed" /\ failed.sentAs = r.sentAs
      BY <1>r DEF Request
    <3>3. /\ again.kind = r.kind /\ again.item = r.item /\ again.data = r.data /\ again.moved = r.moved \ {"token"}
          /\ again.step = "sent" /\ again.sentAs = clToken
      BY <1>r DEF Request
    <3>4. /\ waiting.kind = r.kind /\ waiting.item = r.item /\ waiting.data = r.data /\ waiting.moved = r.moved
          /\ waiting.step = "waiting" /\ waiting.sentAs = r.sentAs
      BY <1>r DEF Request
    <3> HIDE DEF failed, again, waiting
    <3>5. CASE requests' = (requests \ {r}) \cup {failed}
      BY <3>2, <3>5 DEF Unmoved
    <3>6. CASE requests' = (requests \ {r}) \cup {again}
      BY <3>3, <3>6 DEF Unmoved
    <3>7. CASE requests' = (requests \ {r}) \cup {waiting} /\ r.sentAs # Nobody
      BY <3>4, <3>7 DEF Unmoved
    <3> QED
      BY <3>1, <3>5, <3>6, <3>7
  <2>4. /\ OwnedBy(q, PageOwners, TokenOwners) /\ (Latest(q) => Latest(r))
        /\ authenticated /\ ~crossed => KnowsAll(q, shownOrders, confirmedOrders)
    BY <1>r, <1>w, <2>1, <2>3 DEF OwnedBy, Latest, Counts, KnowsAll
  <2> QED
    BY <1>0, <1>r, <2>1, <2>3, <2>4, ReplacedKeepsPage
<1>3. ASSUME NEW r \in requests, requests' = requests \ {r}, UNCHANGED <<placed, identityVars, clToken, crossed>>
      PROVE  RequestsOwned' /\ OneLatest' /\ DataPlaced'
  BY <1>0, <1>3 DEF PageInv, RequestsOwned, OneLatest, DataPlaced, identityVars, PageOwners, TokenOwners
<1>4. ASSUME NEW r \in requests, ReceiveWallet(r) PROVE PageInv' /\ ConfirmedStays
  <2>1. requests' = requests \ {r} /\ UNCHANGED <<placed, identityVars, orderVars, clToken, crossed>> /\ r.kind = "wallet"
    BY <1>4 DEF ReceiveWallet, serverVars
  <2>2. LatestKnowsAll'
    BY <1>0, <2>1 DEF PageInv, LatestKnowsAll, identityVars, orderVars
  <2>3. ASSUME ~crossed, authenticated, dataState'["wallet"] \in {"ready", "refreshing"} PROVE walletOf' = accountId
    <3>1. dataState["wallet"] \in {"ready", "refreshing"} => walletOf = accountId
      BY <1>0, <2>3 DEF PageInv, PageIsOwn, OwnDataShown
    <3>2. SameSession(r) => r.sentAs = accountId
      BY <1>4, <1>r, <2>1, <2>3 DEF ReceiveWallet, SameSession, OwnedBy, Counts, Unmoved, PageOwners, Datasets
    <3>3. ~SameSession(r) => dataState' = dataState /\ walletOf' = walletOf
      BY <1>4 DEF ReceiveWallet, SameSession, Settled
    <3>4. SameSession(r) => walletOf' = r.sentAs
      BY <1>4 DEF ReceiveWallet
    <3> QED
      BY <2>3, <3>1, <3>2, <3>3, <3>4
  <2>4. PageIsOwn'
    BY <1>0, <2>1, <2>3 DEF PageInv, PageIsOwn, OwnDataShown, identityVars, orderVars
  <2> QED
    BY <1>3, <1>s, <2>1, <2>2, <2>4 DEF PageInv, orderVars
<1>23. ASSUME NEW r \in requests
       PROVE  /\ requests \ {r} \in SUBSET Request
              /\ \A q \in requests \ {r} : \E p \in requests : Follows(q, p)
              /\ \A p, q \in requests \ {r} : Latest(p) /\ Latest(q) => p = q
              /\ authenticated /\ ~crossed => \A q \in requests \ {r} : KnowsAll(q, shownOrders, confirmedOrders)
  <2>1. \A q \in requests : Follows(q, q)
    BY FollowsItself
  <2> QED
    BY <1>0, <2>1 DEF ClientTypeOK, PageInv, OneLatest, LatestKnowsAll
<1>24. ASSUME NEW r \in requests, RequestFails(r) PROVE PageInv' /\ ConfirmedStays
  <2>1. UNCHANGED <<placed, identityVars, orderVars, walletOf, clToken, crossed>>
    BY <1>24 DEF RequestFails, serverVars
  <2>2. /\ RequestsOwned' /\ OneLatest' /\ DataPlaced'
        /\ authenticated /\ ~crossed => \A q \in requests' : KnowsAll(q, shownOrders, confirmedOrders)
    <3>1. CASE r.kind # "verified"
      <4>1. requests' = requests \ {r}
        BY <1>24, <3>1 DEF RequestFails
      <4> QED
        BY <1>3, <1>23, <2>1, <4>1
    <3>2. CASE r.kind = "verified"
      <4>1. requests' = Start(requests \ {r}, Datasets, "none", clToken)
        BY <1>24, <3>2 DEF RequestFails
      <4>2. Datasets \in SUBSET Kinds /\ "none" \in Items \cup {"none"} /\ "checkout" \notin Datasets
        BY SomeKinds DEF Datasets
      <4>3. /\ RequestsOwned' /\ OneLatest' /\ DataPlaced'
            /\ \A shown, known : (\A q \in requests \ {r} : KnowsAll(q, shown, known)) => (\A q \in requests' : KnowsAll(q, shown, known))
        BY <1>23, <2>1, <4>1, <4>2, StartKeeps
      <4> QED
        BY <1>23, <4>3
    <3> QED
      BY <3>1, <3>2
  <2>3. LatestKnowsAll'
    BY <1>0, <2>1, <2>2 DEF PageInv, LatestKnowsAll, identityVars, orderVars
  <2>4. dataState'["wallet"] \in {"ready", "refreshing"} => dataState["wallet"] \in {"ready", "refreshing"}
    <3>1. dataState \in [Datasets -> {"loading", "ready", "refreshing", "error"}] /\ "wallet" \in Datasets
      BY <1>0 DEF ClientTypeOK, Datasets
    <3>2. CASE r.kind \in Datasets
      <4>1. r.kind # "verified"
        BY <3>2 DEF Datasets
      <4>2. \/ dataState' = dataState
            \/ dataState' = [dataState EXCEPT ![r.kind] = IF dataState[r.kind] = "refreshing" THEN "ready" ELSE "error"]
        BY <1>24, <3>2, <4>1 DEF RequestFails, Settled
      <4> QED
        BY <3>1, <3>2, <4>2
    <3>3. CASE r.kind = "verified"
      <4>1. dataState' = Refreshing(dataState, Datasets)
        BY <1>24, <3>3 DEF RequestFails, Datasets
      <4> QED
        BY <3>1, <4>1, RefreshingType
    <3>4. CASE r.kind \notin Datasets \cup {"verified"}
      BY <1>24, <3>4 DEF RequestFails
    <3> QED
      BY <3>2, <3>3, <3>4
  <2>5. PageIsOwn'
    BY <1>0, <2>1, <2>4 DEF PageInv, PageIsOwn, OwnDataShown, identityVars, orderVars
  <2> QED
    BY <1>s, <2>1, <2>2, <2>3, <2>5 DEF PageInv, orderVars
<1>5. ASSUME NEW r \in requests, ReceiveOrders(r) PROVE PageInv' /\ ConfirmedStays
  <2>1. requests' = requests \ {r} /\ UNCHANGED <<placed, identityVars, walletOf, clToken, crossed>> /\ r.step = "ok" /\ r.kind = "orders"
    BY <1>5 DEF ReceiveOrders, serverVars
  <2>2. dataState'["wallet"] = dataState["wallet"]
    BY <1>0, <1>5, <2>1 DEF ReceiveOrders, Settled, ClientTypeOK, Datasets
  <2>3. CASE ~LatestList(r)
    <3>1. UNCHANGED orderVars
      BY <1>5, <2>3 DEF ReceiveOrders
    <3>2. PageIsOwn'
      BY <1>0, <2>1, <2>2, <3>1 DEF PageInv, PageIsOwn, OwnDataShown, identityVars, orderVars
    <3>3. LatestKnowsAll'
      BY <1>0, <2>1, <3>1 DEF PageInv, LatestKnowsAll, identityVars, orderVars
    <3> QED
      BY <1>3, <1>s, <2>1, <3>1, <3>2, <3>3 DEF PageInv, orderVars
  <2>4. CASE LatestList(r)
    <3>1. shownOrders' = r.data \cup confirmedOrders /\ confirmedOrders' = confirmedOrders \ r.data
      BY <1>5, <2>4 DEF ReceiveOrders
    <3>2. Latest(r)
      BY <2>1, <2>4 DEF Latest, LatestList, Unmoved
    <3>3. \A q \in requests' : ~Latest(q)
      BY <1>0, <2>1, <3>2 DEF PageInv, OneLatest
    <3>4. authenticated /\ ~crossed => \A o \in r.data : o[1] = accountId
      BY <1>r, <2>1, <3>2 DEF OwnedBy, Counts, PageOwners
    <3>5. PageIsOwn'
      BY <1>0, <2>1, <2>2, <3>1, <3>4 DEF PageInv, PageIsOwn, OwnDataShown, identityVars
    <3>6. LatestKnowsAll'
      <4> SUFFICES ASSUME authenticated, ~crossed PROVE shownOrders' \cup confirmedOrders' \subseteq placed
        BY <2>1, <3>3 DEF LatestKnowsAll, KnowsAll, identityVars
      <4>1. shownOrders \cup confirmedOrders \subseteq placed
        BY <1>0 DEF PageInv, LatestKnowsAll
      <4> QED
        BY <1>r, <3>1, <4>1
    <3>7. authenticated /\ ~crossed => shownOrders \subseteq shownOrders'
      BY <1>r, <2>1, <3>1, <3>2 DEF KnowsAll
    <3>8. ConfirmedStays
      BY <1>0, <2>1, <3>7 DEF ConfirmedStays, Identified
    <3> QED
      BY <1>3, <2>1, <3>5, <3>6, <3>8 DEF PageInv
  <2> QED
    BY <2>3, <2>4
<1>6. ASSUME NEW r \in requests, ReceiveCheckout(r) PROVE PageInv' /\ ConfirmedStays
  <2>1. UNCHANGED <<placed, identityVars, walletOf, clToken, crossed>> /\ r.step = "ok" /\ r.kind = "checkout"
    BY <1>6 DEF ReceiveCheckout, serverVars
  <2>2. CASE ~SameSession(r)
    <3>1. requests' = requests \ {r} /\ UNCHANGED <<orderVars, dataState>>
      BY <1>6, <2>2 DEF ReceiveCheckout
    <3>2. UNCHANGED pageVars
      BY <2>1, <3>1 DEF pageVars
    <3>3. LatestKnowsAll'
      BY <1>0, <2>1, <3>1 DEF PageInv, LatestKnowsAll, identityVars, orderVars
    <3> QED
      BY <1>0, <1>3, <2>1, <3>1, <3>2, <3>3, SamePage DEF PageInv
  <2>3. CASE SameSession(r)
    <3> DEFINE out == Move(requests \ {r}, {"orders"})
    <3>1. /\ confirmedOrders' = confirmedOrders \cup r.data /\ shownOrders' = shownOrders \cup r.data
          /\ dataState' = Refreshing(dataState, Datasets) /\ requests' = Start(out, Datasets, "none", clToken)
      BY <1>6, <2>3 DEF ReceiveCheckout
    <3>2. /\ out \in SUBSET Request /\ \A q \in out : \E p \in requests : Follows(q, p)
          /\ \A q \in out : ~Latest(q)
      <4> SUFFICES ASSUME NEW q \in out PROVE q \in Request /\ ~Latest(q) /\ \E p \in requests : Follows(q, p)
        OBVIOUS
      <4>1. PICK p \in requests : q = Aged(p, {"orders"})
        BY MoveAges
      <4>2. q \in Request /\ Follows(q, p) /\ (p.kind = "orders" => "orders" \in q.moved)
        BY <1>r, <4>1, AgedFollows, ComparedNumbers
      <4> QED
        BY <4>2 DEF Latest, Unmoved, Follows
    <3> HIDE DEF out
    <3>3. Datasets \in SUBSET Kinds /\ "none" \in Items \cup {"none"} /\ "checkout" \notin Datasets
      BY SomeKinds DEF Datasets
    <3>4. /\ RequestsOwned' /\ OneLatest' /\ DataPlaced'
          /\ \A shown, known : (\A q \in out : KnowsAll(q, shown, known)) => (\A q \in requests' : KnowsAll(q, shown, known))
      BY <2>1, <3>1, <3>2, <3>3, StartKeeps
    <3>5. \A q \in requests' : KnowsAll(q, shownOrders', confirmedOrders')
      BY <3>2, <3>4 DEF KnowsAll
    <3>6. authenticated /\ ~crossed => \A o \in r.data : o[1] = accountId
      BY <1>r, <2>1, <2>3 DEF OwnedBy, Counts, SameSession, Unmoved, PageOwners
    <3>7. dataState'["wallet"] \in {"ready", "refreshing"} => dataState["wallet"] \in {"ready", "refreshing"}
      BY <1>0, <3>1, RefreshingType DEF ClientTypeOK, Datasets
    <3>8. PageIsOwn'
      BY <1>0, <2>1, <3>1, <3>6, <3>7 DEF PageInv, PageIsOwn, OwnDataShown, identityVars
    <3>9. LatestKnowsAll'
      BY <1>0, <1>r, <2>1, <3>1, <3>5 DEF PageInv, LatestKnowsAll, identityVars
    <3> QED
      BY <3>1, <3>4, <3>8, <3>9 DEF PageInv, ConfirmedStays
  <2> QED
    BY <2>2, <2>3
<1>25. ASSUME NEW r \in requests, ReceiveIdentity(r) PROVE PageInv' /\ ConfirmedStays
  <2>1. /\ UNCHANGED <<placed, clToken>> /\ crossed' = (crossed \/ "generation" \in r.moved) /\ r.kind \in IdentityReads /\ r.step = "ok"
    BY <1>25 DEF ReceiveIdentity, serverVars
  <2>2. PICK kinds \in SUBSET (Datasets \cup IdentityReads) : Identify(r.sentAs, requests \ {r}, kinds, clToken)
    BY <1>25 DEF ReceiveIdentity
  <2>3. r.sentAs \in Accounts /\ (~crossed' => clToken \in {r.sentAs, Nobody})
    BY <1>r, <2>1 DEF OwnedBy, Unmoved, TokenOwners, Request, Owners
  <2>4. TokenOwners \subseteq TokenOwners'
    BY <1>w, <2>1 DEF TokenOwners
  <2>5. \A q \in requests \ {r} : q.kind \in IdentityReads /\ Unmoved(q, "generation") => q.sentAs \in TokenOwners'
    BY <1>r, <2>4 DEF OwnedBy
  <2> QED
    BY <1>w, <1>23, <2>1, <2>2, <2>3, <2>5, IdentifyKeepsPage
<1>26. ASSUME NEW r \in requests, ReceiveSave(r) PROVE PageInv' /\ ConfirmedStays
  <2>1. /\ UNCHANGED <<placed, pageVars, clToken, crossed>> /\ requests' = Start(requests \ {r}, {"profile"}, "none", clToken)
    BY <1>26 DEF ReceiveSave, serverVars
  <2>2. {"profile"} \in SUBSET Kinds /\ "none" \in Items \cup {"none"} /\ "checkout" \notin {"profile"}
    BY SomeKinds DEF IdentityReads
  <2>3. UNCHANGED identityVars
    BY <2>1 DEF pageVars
  <2>4. /\ RequestsOwned' /\ OneLatest' /\ DataPlaced'
        /\ \A shown, known : (\A q \in requests \ {r} : KnowsAll(q, shown, known)) => (\A q \in requests' : KnowsAll(q, shown, known))
    BY <1>23, <2>1, <2>2, <2>3, StartKeeps
  <2>5. LatestKnowsAll'
    BY <1>0, <1>23, <2>1, <2>4 DEF PageInv, LatestKnowsAll, pageVars, identityVars, orderVars
  <2> QED
    BY <1>0, <2>1, <2>4, <2>5, SamePage DEF PageInv
<1>7. ASSUME NEW kind \in Kinds, NEW item \in Items \cup {"none"}, kind = "checkout" => item \in Items, Ask(kind, item)
      PROVE  PageInv' /\ ConfirmedStays
  <2>1. /\ UNCHANGED <<placed, identityVars, walletOf, orderVars, clToken, crossed>>
        /\ requests' = Start(requests, {kind}, item, clToken) /\ dataState' = Refreshing(dataState, {kind})
    BY <1>7 DEF Ask, serverVars
  <2>2. /\ requests \in SUBSET Request /\ {kind} \in SUBSET Kinds
        /\ \A q \in requests : \E p \in requests : Follows(q, p)
        /\ \A p, q \in requests : Latest(p) /\ Latest(q) => p = q
    <3>1. \A q \in requests : Follows(q, q)
      BY FollowsItself
    <3> QED
      BY <1>0, <3>1 DEF ClientTypeOK, PageInv, OneLatest
  <2>3. /\ RequestsOwned' /\ OneLatest' /\ DataPlaced'
        /\ \A shown, known : (\A q \in requests : KnowsAll(q, shown, known)) => (\A q \in requests' : KnowsAll(q, shown, known))
    BY <1>7, <2>1, <2>2, StartKeeps
  <2>4. LatestKnowsAll'
    BY <1>0, <2>1, <2>3 DEF PageInv, LatestKnowsAll, identityVars, orderVars
  <2>5. dataState'["wallet"] \in {"ready", "refreshing"} => dataState["wallet"] \in {"ready", "refreshing"}
    BY <1>0, <2>1, RefreshingType DEF ClientTypeOK, Datasets
  <2>6. PageIsOwn'
    BY <1>0, <2>1, <2>5 DEF PageInv, PageIsOwn, OwnDataShown, identityVars, orderVars
  <2> QED
    BY <1>s, <2>1, <2>3, <2>4, <2>6 DEF PageInv, orderVars
<1>8. ASSUME UNCHANGED <<pageVars, placed, requests, clToken, crossed>> PROVE PageInv' /\ ConfirmedStays
  BY <1>0, <1>8, SamePage DEF PageInv, RequestsOwned, OneLatest, DataPlaced, LatestKnowsAll, PageOwners, TokenOwners, pageVars, identityVars, orderVars
<1>9. ASSUME NEW c \in rotations, PostRotation(c) PROVE PageInv' /\ ConfirmedStays
  BY <1>8, <1>9 DEF PostRotation, serverVars
<1>10. ASSUME NEW c \in rotations, RotationReturns(c) PROVE PageInv' /\ ConfirmedStays
  <2>1. c \in Rotation /\ c.as \in Owners /\ placed' = placed
    BY <1>0, <1>10 DEF RotationReturns, serverVars, ClientTypeOK, Rotation
  <2>2. CASE Current(c) /\ c.step = "ok" /\ restore.step = "rotating" /\ ~restore.moved
    <3>1. requests = {} /\ c.as \in Accounts
      BY <1>0, <2>1, <2>2 DEF Identified, ClientInv, SessionInv, RotationsShared, SharedIn, Owners
    <3>2. Resume(requests, c.as) = {}
      BY <3>1 DEF Resume
    <3>3. Identify(c.as, {}, Datasets, c.as) /\ clToken' = c.as /\ (crossed => crossed')
      BY <1>10, <2>2, <3>2 DEF RotationReturns, SameGeneration, Current, Restored
    <3>4. {} \in SUBSET Request /\ c.as \in {c.as, Nobody} /\ Datasets \in SUBSET (Datasets \cup IdentityReads)
      OBVIOUS
    <3> QED
      BY <2>1, <3>1, <3>3, <3>4, IdentifyKeepsPage
  <2>3. CASE Current(c) /\ c.step = "ok" /\ ~(restore.step = "rotating" /\ ~restore.moved)
    <3> DEFINE F == [r \in requests |-> Resumed(r, c.as)]
    <3>1. requests' = {F[r] : r \in requests} /\ UNCHANGED pageVars /\ clToken' = c.as
      BY <1>10, <2>3 DEF RotationReturns, SameGeneration, Current, Restored, Resume, Resumed
    <3>2. crossed' = (crossed \/ (restore.step # "rotating" /\ c.as # clToken))
      BY <1>10, <2>3 DEF RotationReturns, SameGeneration, Current
    <3>3. ASSUME NEW r \in requests
          PROVE  OwnedBy(F[r], PageOwners', TokenOwners') /\ F[r].data = r.data /\ (Latest(F[r]) => Latest(r)) /\ (F[r].step = "ok" => r.step = "ok")
      <4>1. F[r] = Resumed(r, c.as)
        OBVIOUS
      <4> HIDE DEF F
      <4>2. ~crossed' => ~crossed /\ c.as = clToken
        BY <1>0, <3>2 DEF Identified
      <4>3. PageOwners \subseteq PageOwners' /\ TokenOwners \subseteq TokenOwners' /\ c.as \in PageOwners' /\ c.as \in TokenOwners'
        BY <1>w, <2>1, <3>1, <4>2 DEF PageOwners, TokenOwners, pageVars, identityVars
      <4>4. c.as # Nobody
        BY <2>3 DEF ClientInv, SessionInv, RotationsShared, SharedIn
      <4> HIDE DEF F
      <4>5. SameRequest(F[r], r) /\ (F[r].step \in {"sent", r.step})
            /\ (F[r].step = r.step \/ F[r].sentAs = c.as) /\ F[r].sentAs \in {r.sentAs, c.as}
            /\ (F[r].step = "ok" => r.step = "ok") /\ (F[r].step = "waiting" => F[r].sentAs = r.sentAs \/ F[r].sentAs = c.as)
        BY <1>r, <2>1, <4>1, WaitersGoOn
      <4>6. r.step # "ok" => F[r].step # "ok"
        BY <4>5
      <4>7. \/ r.step = "waiting" /\ F[r].step = "sent" /\ F[r].sentAs = c.as
            \/ F[r].step = r.step /\ F[r].sentAs = r.sentAs
        BY <1>r, <2>1, <4>1, WaitersGoOn
      <4> QED
        BY <1>r, <4>3, <4>4, <4>5, <4>7 DEF OwnedBy, SameRequest, Counts, Latest
    <3> HIDE DEF F
    <3>4. crossed => crossed'
      BY <3>2
    <3> QED
      BY <1>0, <2>1, <3>1, <3>3, <3>4, MappedKeepsPage
  <2>4. CASE ~(Current(c) /\ c.step = "ok")
    <3> DEFINE clears == Current(c) /\ c.step = "refused"
    <3>1. UNCHANGED <<pageVars, crossed>> /\ clToken' = IF clears THEN Nobody ELSE clToken
      BY <1>0, <1>10, <2>4 DEF RotationReturns, SameGeneration, Current, Identified, ClientTypeOK, pageVars, identityVars
    <3> DEFINE F == [r \in requests |-> GaveUp(r, c)]
               G == [r \in requests |-> Aged(GaveUp(r, c), {"generation", "token"})]
    <3>2. FailWaiting(requests, c) = {F[r] : r \in requests}
      BY DEF FailWaiting, GaveUp
    <3>3. Move(FailWaiting(requests, c), {"generation", "token"}) = {G[r] : r \in requests}
      BY <3>2, MoveAges
    <3>4. requests' = IF clears THEN {G[r] : r \in requests} ELSE {F[r] : r \in requests}
      BY <1>10, <2>4, <3>2, <3>3 DEF RotationReturns, SameGeneration, Current
    <3>5. PageOwners' = PageOwners
      BY <3>1 DEF PageOwners, pageVars, identityVars
    <3>6. ASSUME NEW r \in requests
          PROVE  /\ F[r] \in Request /\ OwnedBy(F[r], PageOwners, TokenOwners) /\ F[r].data = r.data
                 /\ (Latest(F[r]) => Latest(r)) /\ (F[r].step = "ok" => r.step = "ok")
                 /\ OwnedBy(G[r], PageOwners, TokenOwners') /\ G[r].data = r.data
                 /\ (Latest(G[r]) => Latest(r)) /\ (G[r].step = "ok" => r.step = "ok")
      <4>1. F[r] = GaveUp(r, c) /\ G[r] = Aged(F[r], {"generation", "token"})
        OBVIOUS
      <4> HIDE DEF F, G
      <4>2. /\ F[r] \in Request /\ OwnedBy(F[r], PageOwners, TokenOwners) /\ F[r].data = r.data
            /\ (Latest(F[r]) => Latest(r)) /\ (F[r].step = "ok" => r.step = "ok")
        BY <1>r, <2>1, <4>1, WaitersGoOn DEF OwnedBy, SameRequest, Counts, Latest
      <4>3. OwnedBy(G[r], PageOwners, TokenOwners') /\ G[r].data = F[r].data /\ (Latest(G[r]) => Latest(F[r]))
        BY <4>1, <4>2, AgedOwned
      <4>4. G[r].step = F[r].step
        BY <4>1, <4>2, AgedFollows DEF Follows
      <4> QED
        BY <4>2, <4>3, <4>4
    <3> HIDE DEF F, G
    <3>7. CASE clears
      BY <1>0, <2>1, <3>1, <3>4, <3>5, <3>6, <3>7, MappedKeepsPage
    <3>8. CASE ~clears
      <4>1. TokenOwners' = TokenOwners
        BY <3>1, <3>8 DEF TokenOwners
      <4> QED
        BY <1>0, <2>1, <3>1, <3>4, <3>5, <3>6, <3>8, <4>1, MappedKeepsPage
    <3> QED
      BY <3>7, <3>8
  <2> QED
    BY <2>2, <2>3, <2>4
<1>11. ASSUME RestoreIdentity PROVE PageInv' /\ ConfirmedStays
  <2>1. UNCHANGED <<placed, clToken, crossed>> /\ clToken \in Accounts /\ requests = {}
    BY <1>0, <1>11 DEF RestoreIdentity, serverVars, Identified, ClientTypeOK, Owners
  <2>2. CASE Identify(clToken, requests, Datasets, clToken)
    <3>1. {} \in SUBSET Request /\ clToken \in {clToken, Nobody} /\ Datasets \in SUBSET (Datasets \cup IdentityReads)
      OBVIOUS
    <3>2. Identify(clToken, {}, Datasets, clToken)
      BY <2>1, <2>2
    <3> QED
      BY <1>w, <2>1, <3>1, <3>2, IdentifyKeepsPage
  <2>3. CASE UNCHANGED <<requests, pageVars>>
    BY <1>8, <2>1, <2>3
  <2> QED
    BY <1>11, <2>2, <2>3 DEF RestoreIdentity, Restored
<1>12. ASSUME RetrySession \/ ServeFlow \/ (\E kind \in {"login", "verify", "logout"}, a \in Owners : Begin(kind, a)) \/ \E a \in Owners : OtherTab(a)
       PROVE  PageInv' /\ ConfirmedStays
  BY <1>8, <1>12 DEF RetrySession, ServeFlow, Begin, OtherTab, serverVars
<1>13. ASSUME Submit PROVE PageInv' /\ ConfirmedStays
  <2>1. UNCHANGED <<placed, pageVars, clToken, crossed>> /\ (requests' = requests \/ requests' = Move(requests, {"session"}))
    BY <1>13 DEF Submit, serverVars
  <2>2. CASE requests' = requests
    BY <1>8, <2>1, <2>2
  <2>3. CASE requests' = Move(requests, {"session"})
    <3> DEFINE F == [r \in requests |-> Aged(r, {"session"})]
    <3>1. requests' = {F[r] : r \in requests}
      BY <2>3, MoveAges
    <3>2. PageOwners' = PageOwners /\ TokenOwners' = TokenOwners
      BY <2>1 DEF PageOwners, TokenOwners, pageVars, identityVars
    <3>3. ASSUME NEW r \in requests
          PROVE  /\ OwnedBy(F[r], PageOwners', TokenOwners') /\ F[r].data = r.data
                 /\ Latest(F[r]) => Latest(r)
                 /\ F[r].step = "ok" => r.step = "ok"
      <4>1. Follows(F[r], r)
        BY <1>r, AgedFollows
      <4> HIDE DEF F
      <4> QED
        BY <1>r, <3>2, <4>1, FollowsOwned DEF Follows
    <3> HIDE DEF F
    <3> QED
      BY <1>0, <2>1, <3>1, <3>3, MappedKeepsPage
  <2> QED
    BY <2>1, <2>2, <2>3
<1>14. ASSUME NEW numbers, "generation" \in numbers, NEW q \in Move(requests, numbers), NEW own, NEW token,
              PageOwners \subseteq own \/ own = Owners
       PROVE  /\ q \in Request /\ OwnedBy(q, own, token) /\ q.data \subseteq placed
              /\ \E r \in requests : Follows(q, r) /\ (Latest(q) => Latest(r)) /\ q = Aged(r, numbers)
              /\ ~(q.kind \in IdentityReads /\ Unmoved(q, "generation"))
  <2>1. PICK r \in requests : q = Aged(r, numbers)
    BY MoveAges
  <2>2. q \in Request /\ Follows(q, r) /\ "generation" \in q.moved
    <3>1. r \in Request /\ r.kind \in Kinds
      BY <1>r DEF Request
    <3> QED
      BY <1>14, <2>1, <3>1, AgedFollows, ComparedNumbers
  <2>3. OwnedBy(q, own, token) /\ q.data = r.data /\ (Latest(q) => Latest(r))
    BY <1>14, <1>r, <2>1, AgedOwned
  <2> QED
    BY <1>r, <2>1, <2>2, <2>3 DEF Unmoved
<1>15. ASSUME NEW numbers, "generation" \in numbers
       PROVE  \A p, q \in Move(requests, numbers) : Latest(p) /\ Latest(q) => p = q
  <2> SUFFICES ASSUME NEW p \in Move(requests, numbers), NEW q \in Move(requests, numbers), Latest(p), Latest(q) PROVE p = q
    OBVIOUS
  <2>1. PICK r \in requests : Latest(r) /\ p = Aged(r, numbers)
    BY <1>14, <1>15
  <2>2. PICK s \in requests : Latest(s) /\ q = Aged(s, numbers)
    BY <1>14, <1>15
  <2> QED
    BY <1>0, <2>1, <2>2 DEF PageInv, OneLatest
<1>16. ASSUME EstablishSession PROVE PageInv' /\ ConfirmedStays
  <2> DEFINE out == Move(requests, {"orders", "generation", "token"})
             own == Owners
             tokens == TokenOwners'
  <2>1. /\ clToken' = flow.acct /\ requests' = Start(out, {"sign-in"}, "none", flow.acct) /\ UNCHANGED <<placed, identityVars>>
        /\ crossed' = (crossed \/ authenticated) /\ flow.acct \in Owners
    BY <1>0, <1>16 DEF EstablishSession, ClientTypeOK, Flow
  <2>2. PageOwners' = own /\ flow.acct \in tokens
    BY <2>1 DEF PageOwners, TokenOwners, identityVars
  <2>3. out \in SUBSET Request /\ \A p, q \in out : Latest(p) /\ Latest(q) => p = q
    BY <1>14, <1>15
  <2> HIDE DEF tokens
  <2>4. AllOwned(out, own, tokens, placed)
    BY <1>14 DEF AllOwned
  <2>5. {"sign-in"} \in SUBSET Kinds /\ "none" \in Items \cup {"none"} /\ "checkout" \notin {"sign-in"}
    BY SomeKinds DEF IdentityReads
  <2> HIDE DEF out, own
  <2>6. flow.acct \in own
    BY <2>1 DEF own
  <2>7. LET next == Start(out, {"sign-in"}, "none", flow.acct)
        IN /\ AllOwned(next, own, tokens, placed)
           /\ \A p, q \in next : Latest(p) /\ Latest(q) => p = q
    BY <2>1, <2>2, <2>3, <2>4, <2>5, <2>6, StartKnows
  <2>8. RequestsOwned' /\ OneLatest' /\ DataPlaced'
    BY <2>1, <2>2, <2>7 DEF AllOwned, RequestsOwned, OneLatest, DataPlaced, tokens
  <2>9. ~(authenticated' /\ ~crossed')
    BY <2>1 DEF identityVars
  <2>10. ConfirmedStays
    BY <1>0, <2>1 DEF ConfirmedStays, Identified
  <2> QED
    BY <2>8, <2>9, <2>10 DEF PageInv, PageIsOwn, OwnDataShown, LatestKnowsAll
<1>17. ASSUME SignedOut PROVE PageInv' /\ ConfirmedStays
  <2>1. requests' = Move(requests, {"generation", "token", "orders"}) /\ placed' = placed /\ ~authenticated' /\ accountId' = Nobody
    BY <1>17 DEF SignedOut, serverVars
  <2>2. PageOwners' = Owners
    BY <2>1 DEF PageOwners
  <2>3. RequestsOwned' /\ OneLatest' /\ DataPlaced'
    BY <1>14, <1>15, <2>1, <2>2 DEF RequestsOwned, OneLatest, DataPlaced
  <2> QED
    BY <2>1, <2>3 DEF PageInv, PageIsOwn, OwnDataShown, LatestKnowsAll, ConfirmedStays
<1>18. ASSUME EstablishVerified PROVE PageInv' /\ ConfirmedStays
  <2> DEFINE calls == Move(requests, {"generation", "token"})
  <2>1. /\ UNCHANGED <<placed, crossed>> /\ clToken' = flow.acct /\ flow.acct \in Accounts /\ flow.acct \in Owners
        /\ Identify(flow.acct, calls, {"verified"}, flow.acct)
    BY <1>0, <1>18 DEF EstablishVerified, Identified, Owners
  <2>2. /\ calls \in SUBSET Request /\ \A q \in calls : \E r \in requests : Follows(q, r)
        /\ \A q \in calls : ~(q.kind \in IdentityReads /\ Unmoved(q, "generation"))
        /\ \A p, q \in calls : Latest(p) /\ Latest(q) => p = q
    BY <1>14, <1>15
  <2>3. flow.acct \in {flow.acct, Nobody} /\ {"verified"} \in SUBSET (Datasets \cup IdentityReads)
    BY DEF IdentityReads
  <2> HIDE DEF calls
  <2> QED
    BY <2>1, <2>2, <2>3, IdentifyKeepsPage
<1>19. ASSUME UNCHANGED clientVars PROVE PageInv' /\ ConfirmedStays
  BY <1>8, <1>19 DEF clientVars, serverVars
<1>20. \A d \in Datasets \cup {"save"} : d \in Kinds /\ d # "checkout" /\ "none" \in Items \cup {"none"}
  BY DEF Datasets, Kinds
<1>21. "checkout" \in Kinds /\ Items \subseteq Items \cup {"none"} /\ Nobody \in Owners /\ Accounts \subseteq Owners
  BY DEF Kinds, Owners
<1> QED
  BY <1>1, <1>2, <1>4, <1>5, <1>6, <1>7, <1>9, <1>10, <1>11, <1>12, <1>13, <1>16, <1>17, <1>18, <1>19, <1>20, <1>21,
     <1>24, <1>25, <1>26 DEF ClientNext

(* A tab that opens knows nobody, and restores the session of its cookie.  *)
LEMMA ClientStart == ClientInit => ClientInv
<1> SUFFICES ASSUME ClientInit PROVE ClientInv
  OBVIOUS
<1> USE ClientAssumption
<1> DEFINE new == [step |-> "csrf", as |-> Nobody, shared |-> TRUE, moved |-> {}]
<1>1. new \in Rotation /\ Nobody \in Owners /\ Idle \in Flow
  BY DEF Rotation, Owners, Idle, Flow
<1>2. rotations \in {{new}, {}} /\ new.step = "csrf" /\ new.shared
  BY DEF ClientInit
<1> HIDE DEF new
<1>3. restore.step \in {"rotating", "identity"} /\ ~restore.moved /\ (restore.step = "identity" => clToken # Nobody)
  BY DEF ClientInit
<1>4. restore \in [step : {"idle", "identity", "rotating", "failed"}, moved : BOOLEAN]
  BY DEF ClientInit
<1>5. ClientTypeOK
  <2>1. rotations \subseteq Rotation /\ requests \subseteq Request /\ flow \in Flow /\ acts \in 0..MaxActs /\ faults \in 0..MaxFaults
    BY <1>1, <1>2 DEF ClientInit
  <2>2. clCookie \in Owners /\ clToken \in Owners /\ placed \subseteq Orders
    BY <1>1 DEF ClientInit
  <2>3. dataState \in [Datasets -> {"loading", "ready", "refreshing", "error"}]
    BY DEF ClientInit
  <2> QED
    BY <1>1, <1>4, <2>1, <2>2, <2>3 DEF ClientInit, ClientTypeOK
<1>6. SessionInv
  BY <1>2, <1>3 DEF ClientInit, SessionInv, Identified, RotationsShared, SharedIn, TokenIsOwn, TokenOfAccount, Idle
<1>7. PageInv
  BY DEF ClientInit, PageInv, PageIsOwn, OwnDataShown, RequestsOwned, OneLatest, DataPlaced, LatestKnowsAll
<1> QED
  BY <1>5, <1>6, <1>7 DEF ClientInv

(* Rotations that are shared are one at a time.                            *)
LEMMA SharedIsOne == RotationsShared => OneRotation
<1> SUFFICES ASSUME RotationsShared PROVE OneRotation
  OBVIOUS
<1> DEFINE current == {c \in rotations : c.moved = {}}
<1>1. CASE current = {}
  BY <1>1, FS_EmptySet DEF OneRotation
<1>2. ASSUME NEW c \in current PROVE OneRotation
  <2>1. current = {c}
    BY <1>2 DEF RotationsShared, SharedIn, Current
  <2> QED
    BY <2>1, FS_Singleton DEF OneRotation
<1> QED
  BY <1>1, <1>2

(* A page is of one account, in what it shows and in what it sends, unless *)
(* an identity, a token or a sign-in came to it across a change of session *)
(* since the last sign-out; its cookie is rotated once at a time, and an   *)
(* order that was confirmed stays on it: for any accounts, listings,       *)
(* losses, refusals, sign-ins of other tabs and number of acts             *)
(* (client.js:47-67, PlatformContext.jsx:321-383, 464-481, 733).           *)
THEOREM PageOfOneAccount == ClientSpec => OneAccountAtATime
<1>1. ClientInv => OneAccountShown
  BY SharedIsOne DEF ClientInv, SessionInv, PageInv, TokenIsOwn, PageIsOwn, OneAccountShown
<1>2. ClientInv /\ [ClientNext]_clientVars => ClientInv' /\ [ConfirmedStays]_clientVars
  BY ClientTyped, SessionKept, PageKept DEF ClientInv
<1> QED
  BY <1>1, <1>2, ClientStart, PTL DEF ClientSpec, OneAccountAtATime

-----------------------------------------------------------------------------
(* The video of a course, sent in parts.                                   *)

SenderSteps == {"none", "create", "create for abort", "list", "part", "finish", "verify", "abort"}
PartFiles == [Part -> Sources \cup {Nothing}]

SenderShape ==
  /\ kept \in Upload \cup {Nothing} /\ saved \in Upload \cup {Nothing}
  /\ sender = [step |-> sender.step, answer |-> sender.answer, of |-> sender.of, file |-> sender.file,
               etags |-> sender.etags, part |-> sender.part, tries |-> sender.tries]
  /\ sender.step \in SenderSteps /\ sender.etags \in PartFiles
  /\ version \in [Keys -> {"none", "upload_pending", "queued", "processed", "delete_pending", "deleted"}]
  /\ asset \in [Keys -> {"pending", "uploaded"}] /\ declared \in [Keys -> Sources \cup {Nothing}]
  /\ remote \in [Keys -> {"none", "open", "assembled", "gone"}]
  /\ parts \in [Keys -> PartFiles]

(* An upload that is kept, or shown, is of the file it was begun with.     *)
OfItsFile(upload) == upload # Nothing => declared[upload.key] = upload.file
KeptOfOneFile == OfItsFile(kept) /\ OfItsFile(saved)

(* The page awaits a call only about its upload and with its file, a part  *)
(* it takes for sent is one of that file, and it finishes what is whole.   *)
SendsItsFile ==
  /\ sender.answer # "no" => sender.step # "none"
  /\ sender.step # "none" =>
       /\ saved # Nothing
       /\ sender.of \in Keys /\ sender.file \in Sources /\ declared[sender.of] = sender.file
  /\ \A n \in Part : sender.etags[n] \in {Nothing, sender.file}
  /\ sender.step = "finish" => Missing(sender.etags) = {}

(* R2 holds parts of that file, and all of them once it has assembled them. *)
PartsOfOneFile ==
  \A k \in Keys :
    /\ \A n \in Part : parts[k][n] \in {Nothing, declared[k]}
    /\ remote[k] = "assembled" => parts[k] = [n \in Part |-> declared[k]]
    /\ asset[k] = "uploaded" => remote[k] = "assembled"
    /\ version[k] = "none" => remote[k] = "none"
    /\ version[k] \in {"queued", "processed"} => asset[k] = "uploaded"

SenderInv == SenderShape /\ KeptOfOneFile /\ SendsItsFile /\ PartsOfOneFile

LEMMA SenderStarts == ASSUME SenderInit PROVE SenderInv
BY SenderAssumption DEF SenderInit, SenderInv, SenderShape, KeptOfOneFile, OfItsFile, SendsItsFile, PartsOfOneFile,
   Resting, SenderSteps, PartFiles, Missing

(* A record of an upload is not the lack of one.                           *)
LEMMA UploadsAreSomething == Nothing \notin Upload
BY SenderAssumption

(* The steps of the page.                                                  *)
LEMMA PageKeepsSender ==
  ASSUME SenderInv, UNCHANGED apiVars,
         Refresh \/ Forget \/ Reload \/ Cancel \/ Stopped \/ (\E f \in Sources : StartResume(f))
  PROVE  SenderInv'
<1> USE SenderAssumption DEF SenderInv
<1>p. PartsOfOneFile'
  BY DEF PartsOfOneFile, apiVars
<1>1. CASE Refresh
  BY <1>1, <1>p DEF Refresh, SenderShape, KeptOfOneFile, OfItsFile, SendsItsFile, Missing, apiVars
<1>2. CASE Forget
  BY <1>2, <1>p DEF Forget, Persist, SenderShape, KeptOfOneFile, OfItsFile, SendsItsFile, Missing, apiVars
<1>3. CASE Reload
  BY <1>3, <1>p DEF Reload, Resting, PartFiles, SenderSteps, SenderShape, KeptOfOneFile, OfItsFile, SendsItsFile, Missing, apiVars
<1>4. CASE Cancel
  BY ZenonT(60), <1>4, <1>p DEF Cancel, Resting, PartFiles, SenderSteps, SenderShape, KeptOfOneFile, OfItsFile, SendsItsFile, Missing, Upload, apiVars
<1>5. CASE Stopped
  BY <1>5, <1>p DEF Stopped, Resting, PartFiles, SenderSteps, SenderShape, KeptOfOneFile, OfItsFile, SendsItsFile, Missing, apiVars
<1>6. ASSUME NEW f \in Sources, StartResume(f) PROVE SenderInv'
  <2>1. saved \in Upload /\ saved.file = f /\ saved' = saved /\ kept' \in {saved, kept}
        /\ sender' = [Resting EXCEPT !.step = IF saved.known THEN "list" ELSE "create", !.of = saved.key, !.file = f]
    BY <1>6 DEF StartResume, SameVideoFile, BeginSending, Persist, SenderShape, Upload
  <2>2. KeptOfOneFile'
    BY <2>1 DEF KeptOfOneFile, OfItsFile, apiVars
  <2>3. SendsItsFile'
    <3>1. sender'.answer = "no" /\ sender'.step \in {"list", "create"} /\ sender'.of = saved.key /\ sender'.file = f
          /\ sender'.etags = [n \in Part |-> Nothing]
      BY <2>1 DEF Resting
    <3>2. saved # Nothing /\ saved.key \in Keys /\ declared[saved.key] = f
      BY <1>6, <2>1 DEF StartResume, KeptOfOneFile, OfItsFile, Upload
    <3>3. saved' # Nothing /\ declared' = declared
      BY <2>1, <3>2 DEF apiVars
    <3> QED BY <3>1, <3>2, <3>3 DEF SendsItsFile
  <2>4. SenderShape'
    BY <2>1 DEF SenderShape, Resting, PartFiles, SenderSteps, apiVars
  <2> QED BY <1>p, <2>2, <2>3, <2>4
<1> QED BY <1>1, <1>2, <1>3, <1>4, <1>5, <1>6

LEMMA AnswerKeepsSender ==
  ASSUME SenderInv, UNCHANGED apiVars,
         ReceiveIntent \/ ReceiveParts \/ PartSent \/ PartFails \/ Finished \/ Done
  PROVE  SenderInv'
<1> USE SenderAssumption DEF SenderInv
<1>p. PartsOfOneFile'
  BY DEF PartsOfOneFile, apiVars
<1>r. ASSUME NEW etags \in PartFiles, SendRest(etags), \A n \in Part : etags[n] \in {Nothing, sender.file},
             kept' = kept, saved' = saved, sender.step # "none"
      PROVE  SenderInv'
  <2>1. /\ sender'.answer = "no" /\ sender'.etags = etags /\ sender'.of = sender.of /\ sender'.file = sender.file
        /\ sender'.step \in {"finish", "part"} /\ (sender'.step = "finish" => Missing(etags) = {})
        /\ sender' = [step |-> sender'.step, answer |-> sender'.answer, of |-> sender'.of, file |-> sender'.file,
                      etags |-> sender'.etags, part |-> sender'.part, tries |-> sender'.tries]
    <3>1. CASE Missing(etags) = {}
      BY ZenonT(60), <1>r, <3>1 DEF SendRest, SenderShape
    <3>2. CASE Missing(etags) # {}
      <4> DEFINE first == CHOOSE n \in Missing(etags) : \A m \in Missing(etags) : n <= m
      <4>1. sender' = [sender EXCEPT !.step = "part", !.answer = "no", !.etags = etags, !.tries = 0, !.part = first]
        BY <1>r, <3>2 DEF SendRest
      <4> HIDE DEF first
      <4> QED BY <4>1 DEF SenderShape
    <3> QED BY <3>1, <3>2
  <2>2. KeptOfOneFile'
    BY <1>r DEF KeptOfOneFile, OfItsFile, apiVars
  <2>3. SendsItsFile'
    BY <1>r, <2>1 DEF apiVars, SendsItsFile, Missing
  <2>4. SenderShape'
    BY <1>r, <2>1 DEF SenderShape, SenderSteps, apiVars
  <2> QED BY <1>p, <2>2, <2>3, <2>4
<1>1. CASE ReceiveIntent
  <2>1. saved \in Upload /\ sender.step # "none"
    BY <1>1 DEF ReceiveIntent, SendsItsFile, SenderShape
  <2>2. /\ saved' \in Upload /\ saved'.key = saved.key /\ saved'.file = saved.file
        /\ kept' \in {saved', kept} \/ kept' = kept
    BY <1>1, <2>1 DEF ReceiveIntent, Persist, Upload
  <2>3. \E step \in {"abort", "list"} : Await(step)
    BY <1>1 DEF ReceiveIntent
  <2>4. KeptOfOneFile'
    <3>1. saved # Nothing /\ declared' = declared
      BY <1>1, <2>1 DEF SendsItsFile, apiVars
    <3> QED BY <2>1, <2>2, <3>1 DEF KeptOfOneFile, OfItsFile
  <2>5. SendsItsFile'
    <3>1. sender'.answer = "no" /\ sender'.step \in {"list", "abort"} /\ sender'.of = sender.of /\ sender'.file = sender.file
          /\ sender'.etags = sender.etags
      BY <2>3 DEF Await, SenderShape
    <3>2. saved' # Nothing /\ declared' = declared
      BY <2>2, UploadsAreSomething DEF apiVars
    <3> QED BY <2>1, <3>1, <3>2 DEF SendsItsFile
  <2>6. SenderShape'
    BY <2>2, <2>3 DEF SenderShape, SenderSteps, apiVars, Await
  <2> QED BY <1>p, <2>4, <2>5, <2>6
<1>2. CASE ReceiveParts
  <2>1. CASE sender.answer = "parts" /\ SendRest(parts[sender.of])
    BY <1>2, <2>1, <1>r DEF ReceiveParts, SenderShape, SendsItsFile, PartsOfOneFile
  <2>2. CASE sender.answer = "completed" /\ Await("verify")
    BY <1>2, <2>2, <1>p DEF ReceiveParts, Await, SenderSteps, SenderShape, KeptOfOneFile, OfItsFile, SendsItsFile, Missing, apiVars
  <2> QED BY <1>2, <2>1, <2>2 DEF ReceiveParts
<1>3. CASE PartSent
  <2> DEFINE etags == [sender.etags EXCEPT ![sender.part] = sender.file]
  <2>1. etags \in PartFiles /\ \A n \in Part : etags[n] \in {Nothing, sender.file}
    BY <1>3 DEF PartSent, SenderShape, SendsItsFile, PartFiles
  <2> QED BY <1>3, <2>1, <1>r DEF PartSent, SendsItsFile
<1>4. CASE PartFails
  BY <1>4, <1>p DEF PartFails, SenderSteps, SenderShape, KeptOfOneFile, OfItsFile, SendsItsFile, Missing, apiVars
<1>5. CASE Finished
  BY <1>5, <1>p DEF Finished, Await, SenderSteps, SenderShape, KeptOfOneFile, OfItsFile, SendsItsFile, Missing, apiVars
<1>6. CASE Done
  BY <1>6, <1>p DEF Done, Persist, Resting, PartFiles, SenderSteps, SenderShape, KeptOfOneFile, OfItsFile, SendsItsFile, Missing, apiVars
<1> QED BY <1>1, <1>2, <1>3, <1>4, <1>5, <1>6

LEMMA StartKeepsSender ==
  ASSUME SenderInv, NEW f \in Sources, NEW k \in Keys, StartNew(f, k)
  PROVE  SenderInv'
<1> USE SenderAssumption DEF SenderInv
<1>1. declared' = [declared EXCEPT ![k] = f] /\ declared[k] = Nothing /\ version[k] = "none"
      /\ version' = version /\ asset' = asset /\ remote' = remote /\ parts' = parts
      /\ sender.step = "none" /\ f # Nothing
  BY DEF StartNew
<1>2. PartsOfOneFile'
  BY <1>1 DEF PartsOfOneFile, SenderShape
<1>3. KeptOfOneFile' /\ kept' \in Upload \cup {Nothing} /\ saved' = [key |-> k, known |-> FALSE, file |-> f]
  <2>1. saved' = [key |-> k, known |-> FALSE, file |-> f] /\ kept' \in {saved', kept}
    BY DEF StartNew, Persist
  <2>2. ASSUME NEW u \in Upload, OfItsFile(u) PROVE OfItsFile(u)'
    BY <1>1, <2>2 DEF OfItsFile, SenderShape, Upload
  <2>3. saved' \in Upload /\ OfItsFile(saved)'
    <3>1. declared'[k] = f
      BY <1>1 DEF SenderShape
    <3> QED BY <2>1, <3>1 DEF OfItsFile, Upload
  <2>4. OfItsFile(kept)'
    <3>1. CASE kept' = saved'
      BY <2>3, <3>1 DEF OfItsFile
    <3>2. CASE kept' = kept /\ kept = Nothing
      BY <3>2 DEF OfItsFile
    <3>3. CASE kept' = kept /\ kept \in Upload
      BY <2>2, <3>3 DEF KeptOfOneFile, OfItsFile
    <3> QED BY <2>1, <3>1, <3>2, <3>3 DEF SenderShape
  <2> QED BY <2>1, <2>3, <2>4 DEF KeptOfOneFile, OfItsFile, SenderShape
<1>4. SendsItsFile' /\ SenderShape'
  <2>1. sender' = [Resting EXCEPT !.step = "create", !.of = k, !.file = f]
    BY DEF StartNew, BeginSending
  <2>2. SendsItsFile'
    <3>1. sender'.answer = "no" /\ sender'.step = "create" /\ sender'.of = k /\ sender'.file = f
          /\ sender'.etags = [n \in Part |-> Nothing]
      BY <2>1 DEF Resting
    <3>2. declared'[k] = f
      BY <1>1 DEF SenderShape
    <3>3. saved' # Nothing
      <4>1. [key |-> k, known |-> FALSE, file |-> f] \in Upload
        BY DEF Upload
      <4> QED BY <1>3, <4>1, UploadsAreSomething
    <3> QED BY <3>1, <3>2, <3>3 DEF SendsItsFile
  <2>3. SenderShape'
    BY <1>1, <1>3, <2>1 DEF Resting, SenderShape, SenderSteps, PartFiles, Upload
  <2> QED BY <2>2, <2>3
<1> QED BY <1>2, <1>3, <1>4

(* The calls that the API answers, and what else changes there.            *)
LEMMA OnlyAnswered ==
  ASSUME SenderInv, NEW a, a # "no" => sender.step # "none", sender.step # "none", Answers(a), kept' = kept, saved' = saved, declared' = declared
  PROVE  SendsItsFile' /\ KeptOfOneFile' /\ kept' \in Upload \cup {Nothing} /\ saved' \in Upload \cup {Nothing}
         /\ sender'.step \in SenderSteps /\ sender'.etags \in PartFiles
         /\ sender' = [step |-> sender'.step, answer |-> sender'.answer, of |-> sender'.of, file |-> sender'.file,
               etags |-> sender'.etags, part |-> sender'.part, tries |-> sender'.tries]
BY DEF SenderInv, Answers, SenderShape, SendsItsFile, KeptOfOneFile, OfItsFile, Missing

(* A version that is withdrawn keeps what R2 has assembled.                *)
LEMMA WithdrawKeeps ==
  ASSUME SenderInv, NEW k \in Keys, Withdraw(k)
  PROVE  /\ PartsOfOneFile'
         /\ version' \in [Keys -> {"none", "upload_pending", "queued", "processed", "delete_pending", "deleted"}]
         /\ remote' \in [Keys -> {"none", "open", "assembled", "gone"}]
         /\ asset' = asset /\ declared' = declared /\ parts' = parts
BY DEF SenderInv, Withdraw, SenderShape, PartsOfOneFile

LEMMA ServeKeepsSender ==
  ASSUME SenderInv, Serve
  PROVE  SenderInv'
<1> DEFINE k == sender.of
<1> USE SenderAssumption DEF SenderInv
<1>k. k \in Keys /\ sender.step # "none" /\ sender.answer = "no" /\ kept' = kept /\ saved' = saved
      /\ declared[k] = sender.file /\ sender.file \in Sources
  BY DEF Serve, SendsItsFile
<1>a. ASSUME NEW a, Answers(a), UNCHANGED apiVars PROVE SenderInv'
  BY <1>a, <1>k, OnlyAnswered DEF SenderShape, PartsOfOneFile, apiVars
<1>1. CASE CreateVideoUploadIntent(k)
  <2>1. CASE version[k] = "none" /\ Answers("intent") /\ version' = [version EXCEPT ![k] = "upload_pending"]
             /\ remote' = [remote EXCEPT ![k] = "open"] /\ UNCHANGED <<asset, declared, parts>>
    <3>1. PartsOfOneFile'
      BY <1>k, <2>1 DEF SenderShape, PartsOfOneFile
    <3>2. SendsItsFile' /\ KeptOfOneFile'
      BY <1>k, <2>1, OnlyAnswered
    <3>3. SenderShape'
      BY <1>k, <2>1, OnlyAnswered DEF SenderShape
    <3> QED BY <3>1, <3>2, <3>3
  <2> QED BY <1>1, <1>a, <2>1 DEF CreateVideoUploadIntent
<1>2. CASE ListVideoMultipartParts(k)
  BY <1>2, <1>a DEF ListVideoMultipartParts
<1>3. CASE sender.step = "part" /\ PutVideoPart(k, sender.part)
  <2>1. CASE version[k] = "upload_pending" /\ remote[k] = "open"
    <3>1. Answers("stored") /\ parts' = [parts EXCEPT ![k][sender.part] = sender.file]
          /\ version' = version /\ asset' = asset /\ declared' = declared /\ remote' = remote
      BY <1>3, <2>1 DEF PutVideoPart
    <3>2. parts' \in [Keys -> PartFiles]
      BY <3>1, <1>k DEF SenderShape, PartFiles
    <3>3. PartsOfOneFile'
      BY <3>1, <1>k, <2>1 DEF SenderShape, PartFiles, PartsOfOneFile
    <3> QED BY <3>1, <3>2, <3>3, <1>k, OnlyAnswered DEF SenderShape
  <2> QED BY <1>3, <2>1, <1>a DEF PutVideoPart
<1>4. CASE sender.step = "finish" /\ CompleteVideoMultipart(k)
  <2>1. CASE UNCHANGED apiVars
    BY <1>4, <2>1, <1>a DEF CompleteVideoMultipart, Recorded
  <2>2. CASE asset[k] = "pending" /\ version[k] = "upload_pending" /\ remote[k] = "assembled"
             /\ Recorded(k) /\ UNCHANGED <<version, declared, remote, parts>>
    BY <2>2, <1>k, OnlyAnswered DEF Recorded, SenderShape, PartsOfOneFile
  <2>3. CASE asset[k] = "pending" /\ version[k] = "upload_pending" /\ remote[k] = "open"
             /\ parts[k] = sender.etags /\ remote' = [remote EXCEPT ![k] = "assembled"]
             /\ (Recorded(k) \/ (Answers("error") /\ UNCHANGED asset))
             /\ UNCHANGED <<version, declared, parts>>
    <3>1. parts[k] = [n \in Part |-> declared[k]]
      BY <2>3, <1>4, <1>k DEF SendsItsFile, Missing, SenderShape, PartFiles
    <3>2. PartsOfOneFile' /\ asset' \in [Keys -> {"pending", "uploaded"}] /\ remote' \in [Keys -> {"none", "open", "assembled", "gone"}]
      BY <2>3, <1>k, <3>1 DEF Recorded, SenderShape, PartsOfOneFile
    <3> QED BY <2>3, <3>2, <1>k, OnlyAnswered DEF Recorded, SenderShape
  <2> QED BY <1>4, <2>1, <2>2, <2>3 DEF CompleteVideoMultipart
<1>5. CASE QueueVerifiedVideo(k)
  <2>1. CASE version[k] = "upload_pending" /\ asset[k] = "uploaded" /\ Answers("queued")
             /\ version' = [version EXCEPT ![k] = "queued"] /\ UNCHANGED <<asset, declared, remote, parts>>
    <3>1. PartsOfOneFile'
      BY <1>k, <2>1 DEF SenderShape, PartsOfOneFile
    <3>2. SendsItsFile' /\ KeptOfOneFile'
      BY <1>k, <2>1, OnlyAnswered
    <3>3. SenderShape'
      BY <1>k, <2>1, OnlyAnswered DEF SenderShape
    <3> QED BY <3>1, <3>2, <3>3
  <2> QED BY <1>5, <1>a, <2>1 DEF QueueVerifiedVideo
<1>6. CASE AbortVideoMultipart(k)
  <2>1. CASE version[k] = "upload_pending" /\ Answers("aborted") /\ Withdraw(k)
    <3>1. PartsOfOneFile'
      BY <1>k, <2>1, WithdrawKeeps
    <3>2. SendsItsFile' /\ KeptOfOneFile'
      BY <1>k, <2>1, OnlyAnswered DEF Withdraw
    <3>3. SenderShape'
      BY <1>k, <2>1, OnlyAnswered DEF SenderShape, Withdraw
    <3> QED BY <3>1, <3>2, <3>3
  <2> QED BY <1>6, <1>a, <2>1 DEF AbortVideoMultipart
<1> QED BY <1>1, <1>2, <1>3, <1>4, <1>5, <1>6 DEF Serve

LEMMA RestKeepsSender ==
  ASSUME SenderInv, NEW k \in Keys, DeleteVideoVersion(k) \/ WorkerMoves(k)
  PROVE  SenderInv'
<1>1. UNCHANGED trainerVars /\ declared' = declared /\ asset' = asset /\ parts' = parts
  BY DEF DeleteVideoVersion, WorkerMoves, Withdraw
<1>2. SendsItsFile' /\ KeptOfOneFile'
  BY <1>1 DEF trainerVars, SenderInv, SendsItsFile, KeptOfOneFile, OfItsFile, Missing
<1>3. PartsOfOneFile' /\ version' \in [Keys -> {"none", "upload_pending", "queued", "processed", "delete_pending", "deleted"}]
      /\ remote' \in [Keys -> {"none", "open", "assembled", "gone"}]
  <2>1. CASE DeleteVideoVersion(k)
    BY <2>1, WithdrawKeeps DEF DeleteVideoVersion
  <2>2. CASE WorkerMoves(k)
    BY <2>2, <1>1 DEF WorkerMoves, SenderInv, SenderShape, PartsOfOneFile
  <2> QED BY <2>1, <2>2
<1> QED BY <1>1, <1>2, <1>3 DEF SenderInv, SenderShape, trainerVars

LEMMA SenderStep ==
  ASSUME SenderInv, [SenderNext]_senderVars
  PROVE  SenderInv'
<1>1. CASE UNCHANGED senderVars
  BY <1>1 DEF senderVars, trainerVars, apiVars, SenderInv, SenderShape, KeptOfOneFile, OfItsFile, SendsItsFile, PartsOfOneFile, Missing
<1>2. CASE SenderNext
  <2>1. CASE Refresh \/ Forget \/ Reload \/ Cancel \/ Stopped \/ (\E f \in Sources : StartResume(f))
    BY <2>1, PageKeepsSender DEF Refresh, Forget, Reload, Cancel, Stopped, StartResume
  <2>2. CASE ReceiveIntent \/ ReceiveParts \/ PartSent \/ PartFails \/ Finished \/ Done
    BY <2>2, AnswerKeepsSender DEF ReceiveIntent, ReceiveParts, PartSent, PartFails, Finished, Done
  <2> QED BY <1>2, <2>1, <2>2, StartKeepsSender, ServeKeepsSender, RestKeepsSender DEF SenderNext
<1> QED BY <1>1, <1>2

(* A version that is queued is the whole of the one file it was begun with, *)
(* for any files, keys and number of parts (CourseVideoUploader.jsx:50-55, *)
(* videoUpload.js:69-98).                                                  *)
THEOREM QueuedIsAlwaysOneFile == SenderSpec => []QueuedIsOneFile
<1>1. SenderInv => QueuedIsOneFile
  BY DEF SenderInv, PartsOfOneFile, QueuedIsOneFile
<1>2. SenderSpec => []SenderInv
  BY SenderStarts, SenderStep, PTL DEF SenderSpec
<1> QED BY <1>1, <1>2, PTL

-----------------------------------------------------------------------------
(* The private files of a draft.                                           *)

FileRow == [status : {"absent", "queued", "ready", "error"} \cup ActiveStatuses,
            known : BOOLEAN, file : BOOLEAN, attempted : BOOLEAN]
FileCall == [step : {"none", "request", "recheck", "put", "complete", "cleanup"},
             answer : {"no", "pending", "ready", "absent", "stored", "failed", "removed"},
             again : BOOLEAN, intent : BOOLEAN]

RowShape ==
  /\ local \in [Chosen -> FileRow] /\ transfer \in [Chosen -> FileCall] /\ stored \subseteq Chosen
  /\ reserved \in [Chosen -> {"none", "pending", "ready", "quarantined", "delete_pending", "deleted"}]
  /\ active \in Chosen \cup {NoFile}

(* Bytes are stored under a reservation; a row that was never tried has none; *)
(* and what the page knows of the bytes of a file while it asks is so.     *)
BytesOf(f) ==
  /\ f \in stored => reserved[f] # "none"
  /\ transfer[f].step \in {"put", "recheck", "complete"} => reserved[f] # "none"
  /\ transfer[f].step = "request" /\ transfer[f].answer # "no" => reserved[f] # "none"
  /\ local[f].status # "absent" /\ ~local[f].attempted => reserved[f] = "none" /\ transfer[f].step = "none"
  /\ local[f].known => local[f].attempted
  /\ transfer[f].step = "request" /\ ~transfer[f].again => f \notin stored
  /\ transfer[f].step = "recheck" /\ transfer[f].answer = "absent" => f \notin stored

UploaderInv == RowShape /\ \A f \in Chosen : BytesOf(f)

LEMMA UploaderStarts == ASSUME UploaderInit PROVE UploaderInv
BY DEF UploaderInit, UploaderInv, RowShape, BytesOf, FileRow, FileCall, NoRow, NoCall, ActiveStatuses

(* A row that was not tried was there before and was not tried then.       *)
NoFresher(row, old) ==
  /\ row.status # "absent" /\ ~row.attempted => old.status # "absent" /\ ~old.attempted
  /\ row.known => row.attempted

LEMMA NoFresherCases ==
  ASSUME NEW old \in FileRow, NEW row \in FileRow, old.known => old.attempted,
         row = old \/ row = NoRow \/ (old.status # "absent" /\ row.attempted = old.attempted /\ row.known = old.known)
                   \/ row.attempted
  PROVE  NoFresher(row, old)
BY DEF NoFresher, NoRow

(* What is known of a file stays so if its call and its bytes stay.        *)
LEMMA BytesKept ==
  ASSUME NEW g \in Chosen, BytesOf(g), transfer'[g] = transfer[g], g \in stored' <=> g \in stored,
         reserved[g] = "none" <=> reserved'[g] = "none", NoFresher(local'[g], local[g])
  PROVE  BytesOf(g)'
BY DEF BytesOf, NoFresher

(* Steps that only change rows.                                            *)
LEMMA RowsChange ==
  ASSUME UploaderInv, UNCHANGED <<transfer, stored>>, RowShape',
         \A g \in Chosen : reserved[g] = "none" <=> reserved'[g] = "none",
         \A g \in Chosen : NoFresher(local'[g], local[g])
  PROVE  UploaderInv'
BY BytesKept DEF UploaderInv

LEMMA PatchKeeps ==
  ASSUME UploaderInv, UNCHANGED <<transfer, stored, active>>, NEW f \in Chosen, NEW row \in FileRow, Patch(f, row),
         row = NoRow \/ (row.attempted = local[f].attempted /\ row.known = local[f].known),
         \A g \in Chosen : reserved[g] = "none" <=> reserved'[g] = "none",
         reserved' \in [Chosen -> {"none", "pending", "ready", "quarantined", "delete_pending", "deleted"}]
  PROVE  UploaderInv'
<1>1. /\ local' \in [Chosen -> FileRow] /\ \A g \in Chosen \ {f} : local'[g] = local[g]
      /\ local'[f] = local[f] \/ (local'[f] = row /\ local[f].status # "absent")
  BY DEF Patch, RowShape, UploaderInv
<1>2. \A g \in Chosen : NoFresher(local'[g], local[g])
  BY <1>1, NoFresherCases DEF UploaderInv, RowShape, BytesOf
<1> QED BY <1>1, <1>2, RowsChange DEF UploaderInv, RowShape

LEMMA Patched ==
  ASSUME RowShape, NEW f \in Chosen, NEW row \in FileRow, Patch(f, row)
  PROVE  /\ local' \in [Chosen -> FileRow]
         /\ \A g \in Chosen \ {f} : local'[g] = local[g]
         /\ local'[f] = local[f] \/ (local'[f] = row /\ local[f].status # "absent")
BY DEF Patch, RowShape

LEMMA CallAwaited ==
  ASSUME RowShape, NEW f \in Chosen, NEW step \in {"recheck", "put", "complete", "cleanup"}, AwaitCall(f, step)
  PROVE  /\ transfer' \in [Chosen -> FileCall]
         /\ \A g \in Chosen \ {f} : transfer'[g] = transfer[g]
         /\ transfer'[f].step = step /\ transfer'[f].answer = "no"
BY ZenonT(60) DEF AwaitCall, RowShape, FileCall

LEMMA CallFinished ==
  ASSUME RowShape, NEW f \in Chosen, NEW intent \in BOOLEAN, Finish(f, intent)
  PROVE  /\ transfer' \in [Chosen -> FileCall] /\ active' \in Chosen \cup {NoFile}
         /\ \A g \in Chosen \ {f} : transfer'[g] = transfer[g]
         /\ transfer'[f].step \in {"none", "cleanup"}
<1>1. CASE AwaitCall(f, "cleanup") /\ active' = active
  BY <1>1, CallAwaited DEF RowShape
<1>2. CASE transfer' = [transfer EXCEPT ![f] = NoCall] /\ active' = (IF active = f THEN NoFile ELSE active)
  BY <1>2 DEF RowShape, FileCall, NoCall
<1> QED BY <1>1, <1>2 DEF Finish

(* An answer under a reservation: the row is patched, the call goes on or ends. *)
LEMMA AnsweredKeeps ==
  ASSUME UploaderInv, NEW f \in Chosen, reserved[f] # "none", UNCHANGED fileServerVars,
         local' \in [Chosen -> FileRow], transfer' \in [Chosen -> FileCall], active' \in Chosen \cup {NoFile},
         \A g \in Chosen \ {f} : local'[g] = local[g] /\ transfer'[g] = transfer[g],
         local'[f] = local[f] \/ (local[f].status # "absent" /\ local'[f].attempted = local[f].attempted),
         transfer[f].step # "none",
         transfer'[f].step \in {"none", "cleanup", "put", "complete"} \/ (transfer'[f].step = "recheck" /\ transfer'[f].answer = "no")
  PROVE  UploaderInv'
<1>1. RowShape'
  BY DEF UploaderInv, RowShape, fileServerVars
<1>2. ASSUME NEW g \in Chosen \ {f} PROVE BytesOf(g)'
  BY <1>2, BytesKept DEF UploaderInv, fileServerVars, NoFresher, BytesOf
<1>3. BytesOf(f)'
  BY DEF UploaderInv, BytesOf, fileServerVars
<1> QED BY <1>1, <1>2, <1>3 DEF UploaderInv

LEMMA PageKeepsUploads ==
  ASSUME UploaderInv, UNCHANGED fileServerVars,
         \/ CreateDraft \/ ServeList \/ ReceiveList \/ ListFails \/ RetryList \/ Leave
         \/ \E f \in Chosen : AddFiles(f) \/ RetryItem(f) \/ StartUpload(f) \/ RemoveItem(f) \/ RemoveRestored(f) \/ CleanedUp(f)
  PROVE  UploaderInv'
<1> USE DEF UploaderInv
<1>1. CASE CreateDraft \/ ServeList \/ ListFails \/ RetryList \/ (\E f \in Chosen : RemoveRestored(f))
  <2>1. UNCHANGED <<local, transfer, stored, reserved, active>>
    BY <1>1 DEF CreateDraft, ServeList, ListFails, RetryList, RemoveRestored, rowVars, fileServerVars
  <2> QED BY <2>1 DEF RowShape, BytesOf
<1>2. CASE ReceiveList
  <2>1. UNCHANGED <<transfer, stored, reserved, active>> /\ local' \in [Chosen -> FileRow]
    BY <1>2 DEF ReceiveList, fileServerVars, NoRow, RowShape, FileRow
  <2>2. \A g \in Chosen : NoFresher(local'[g], local[g])
    BY <1>2 DEF ReceiveList, NoRow, NoFresher, BytesOf
  <2> QED BY <2>1, <2>2, RowsChange DEF RowShape
<1>3. ASSUME NEW f \in Chosen, transfer' = [transfer EXCEPT ![f].answer = "failed"] \/ transfer' = transfer,
             transfer' # transfer => transfer[f].step = "put", local' \in [Chosen -> FileRow], active' = active,
             \A g \in Chosen : NoFresher(local'[g], local[g])
      PROVE  UploaderInv'
  <2>1. RowShape'
    BY <1>3 DEF RowShape, FileCall, fileServerVars
  <2>2. ASSUME NEW g \in Chosen PROVE BytesOf(g)'
    <3>1. CASE transfer'[g] = transfer[g]
      BY <1>3, <3>1, BytesKept DEF fileServerVars
    <3>2. CASE transfer'[g] # transfer[g]
      <4>1. g = f /\ transfer[f].step = "put" /\ transfer'[f].step = "put"
        BY <1>3, <3>2 DEF RowShape, FileCall
      <4> QED BY <1>3, <4>1 DEF BytesOf, NoFresher, fileServerVars
    <3> QED BY <3>1, <3>2
  <2> QED BY <2>1, <2>2
<1>4. CASE Leave
  <2>1. local' \in [Chosen -> FileRow] /\ active' = active
        /\ \A g \in Chosen : NoFresher(local'[g], local[g])
    BY <1>4 DEF Leave, NoRow, FileRow, NoFresher
  <2>2. CASE active = NoFile
    <3>1. transfer' = transfer
      BY <1>4, <2>2 DEF Leave
    <3> QED BY <2>1, <3>1, RowsChange DEF RowShape, fileServerVars
  <2>3. CASE active \in Chosen
    BY <1>4, <2>1, <2>3, <1>3, UploaderAssumption DEF Leave, Abort
  <2> QED BY <2>2, <2>3 DEF RowShape
<1>q. ASSUME NEW f \in Chosen, UNCHANGED <<transfer, active>>, Patch(f, [local[f] EXCEPT !.status = "queued"])
      PROVE  UploaderInv'
  <2>1. [local[f] EXCEPT !.status = "queued"] \in FileRow
    BY DEF RowShape, FileRow
  <2> QED BY <1>q, <2>1, PatchKeeps DEF RowShape, FileRow, fileServerVars
<1>5. ASSUME NEW f \in Chosen, AddFiles(f) PROVE UploaderInv'
  <2>1. CASE Fresh(f) /\ local' = [local EXCEPT ![f] = LocalItem]
    <3>1. UNCHANGED <<transfer, stored, reserved, active>> /\ RowShape'
      BY <1>5, <2>1 DEF AddFiles, fileServerVars, RowShape, FileRow, LocalItem, NoRow
    <3>2. BytesOf(f)'
      BY <2>1, <3>1 DEF BytesOf, LocalItem, NoRow, Fresh, RowShape
    <3>3. ASSUME NEW g \in Chosen \ {f} PROVE BytesOf(g)'
      BY <2>1, <3>1, <3>3, BytesKept DEF RowShape, NoFresher, BytesOf
    <3> QED BY <3>1, <3>2, <3>3
  <2>2. CASE local[f].status = "error" /\ Patch(f, [local[f] EXCEPT !.status = "queued"])
    BY <1>5, <2>2, <1>q DEF AddFiles
  <2>3. (Fresh(f) /\ local' = [local EXCEPT ![f] = LocalItem])
        \/ (local[f].status = "error" /\ Patch(f, [local[f] EXCEPT !.status = "queued"]))
    BY <1>5 DEF AddFiles
  <2> QED BY <2>1, <2>2, <2>3
<1>6. ASSUME NEW f \in Chosen, RetryItem(f) PROVE UploaderInv'
  BY <1>6, <1>q DEF RetryItem
<1>7. ASSUME NEW f \in Chosen, StartUpload(f) PROVE UploaderInv'
  <2>1. UNCHANGED <<stored, reserved>> /\ RowShape'
    <3>1. [NoCall EXCEPT !.step = "request", !.again = local[f].attempted] \in FileCall
      BY DEF RowShape, FileRow, FileCall, NoCall
    <3>2. [local[f] EXCEPT !.status = "preparing", !.attempted = TRUE] \in FileRow
      BY ZenonT(60) DEF RowShape, FileRow, ActiveStatuses
    <3>3. local' = [local EXCEPT ![f] = [local[f] EXCEPT !.status = "preparing", !.attempted = TRUE]]
      BY <1>7 DEF StartUpload, RowShape, FileRow
    <3> QED BY ZenonT(60), <1>7, <3>1, <3>2, <3>3 DEF StartUpload, fileServerVars, RowShape
  <2>2. BytesOf(f)'
    <3>1. local'[f].attempted /\ transfer'[f].step = "request" /\ transfer'[f].again = local[f].attempted /\ transfer'[f].answer = "no"
      BY <1>7 DEF StartUpload, RowShape, NoCall, FileRow
    <3>2. ~local[f].attempted => reserved[f] = "none"
      BY <1>7 DEF StartUpload, BytesOf
    <3> QED BY <2>1, <3>1, <3>2 DEF BytesOf
  <2>3. ASSUME NEW g \in Chosen \ {f} PROVE BytesOf(g)'
    BY <1>7, <2>1, <2>3, BytesKept DEF StartUpload, RowShape, NoFresher, BytesOf
  <2> QED BY <2>1, <2>2, <2>3
<1>8. ASSUME NEW f \in Chosen, RemoveItem(f) PROVE UploaderInv'
  <2>1. local' \in [Chosen -> FileRow] /\ active' = active
        /\ \A g \in Chosen : NoFresher(local'[g], local[g])
    <3>1. active' = active
      BY <1>8 DEF RemoveItem
    <3>2. CASE local' = [local EXCEPT ![f] = NoRow]
      BY <3>1, <3>2 DEF RowShape, FileRow, NoRow, BytesOf, NoFresher
    <3>3. CASE local[f].known /\ local' = [local EXCEPT ![f].status = "deleting"]
      BY <3>1, <3>3 DEF RowShape, FileRow, ActiveStatuses, BytesOf, NoFresher
    <3> QED BY <1>8, <3>2, <3>3 DEF RemoveItem
  <2> QED BY <1>8, <2>1, <1>3 DEF RemoveItem, Abort
<1>9. ASSUME NEW f \in Chosen, CleanedUp(f) PROVE UploaderInv'
  <2>1. UNCHANGED <<local, stored, reserved>> /\ RowShape'
    BY <1>9 DEF CleanedUp, rowVars, fileServerVars, RowShape, FileCall, NoCall
  <2>2. BytesOf(f)'
    BY <1>9, <2>1 DEF CleanedUp, BytesOf, RowShape, NoCall
  <2>3. ASSUME NEW g \in Chosen \ {f} PROVE BytesOf(g)'
    BY <1>9, <2>1, <2>3, BytesKept DEF CleanedUp, RowShape, NoFresher, BytesOf
  <2> QED BY <2>1, <2>2, <2>3
<1> QED BY <1>1, <1>2, <1>4, <1>5, <1>6, <1>7, <1>8, <1>9

LEMMA AnswersKeepUploads ==
  ASSUME UploaderInv, NEW f \in Chosen, UNCHANGED fileServerVars,
         ReceiveReservation(f) \/ ReceiveAbsent(f) \/ ReceiveStored(f) \/ ReceiveReady(f) \/ ReceiveFailure(f)
  PROVE  UploaderInv'
<1> USE DEF UploaderInv
<1>put. ASSUME StartPut(f), reserved[f] # "none", transfer[f].step # "none" PROVE UploaderInv'
  <2>1. [local[f] EXCEPT !.status = "uploading", !.known = TRUE] \in FileRow
    BY ZenonT(60) DEF RowShape, FileRow, ActiveStatuses
  <2>2. /\ local' \in [Chosen -> FileRow] /\ \A g \in Chosen \ {f} : local'[g] = local[g]
        /\ local'[f] = local[f] \/ (local[f].status # "absent" /\ local'[f].attempted = local[f].attempted)
    BY ZenonT(60), <1>put, <2>1, Patched DEF StartPut, RowShape, FileRow
  <2> QED BY <1>put, <2>2, CallAwaited, AnsweredKeeps DEF StartPut, RowShape
<1>end. ASSUME NEW intent \in BOOLEAN, Finish(f, intent), reserved[f] # "none", transfer[f].step # "none", UNCHANGED local PROVE UploaderInv'
  BY <1>end, CallFinished, AnsweredKeeps DEF RowShape
<1>1. CASE ReceiveReservation(f)
  <2>1. reserved[f] # "none" /\ transfer[f].step # "none"
    BY <1>1 DEF ReceiveReservation, Receives, BytesOf
  <2>2. CASE AwaitCall(f, "recheck") /\ Patch(f, [local[f] EXCEPT !.known = TRUE]) /\ UNCHANGED active
    <3>1. [local[f] EXCEPT !.known = TRUE] \in FileRow
      BY DEF RowShape, FileRow
    <3> QED BY SMTT(40), <2>1, <2>2, <3>1, Patched, CallAwaited, AnsweredKeeps DEF RowShape, FileRow
  <2> QED BY <1>1, <2>1, <2>2, <1>put, <1>end DEF ReceiveReservation
<1>2. CASE ReceiveAbsent(f)
  <2>1. reserved[f] # "none" /\ transfer[f].step # "none"
    BY <1>2 DEF ReceiveAbsent, Receives, BytesOf
  <2> QED BY <1>2, <2>1, <1>put, <1>end DEF ReceiveAbsent
<1>3. CASE ReceiveStored(f)
  <2>1. reserved[f] # "none" /\ transfer[f].step # "none"
    BY <1>3 DEF ReceiveStored, Receives, BytesOf
  <2>2. CASE AwaitCall(f, "complete") /\ Patch(f, [local[f] EXCEPT !.status = "verifying"]) /\ UNCHANGED active
    <3>1. [local[f] EXCEPT !.status = "verifying"] \in FileRow
      BY DEF RowShape, FileRow, ActiveStatuses
    <3> QED BY <2>1, <2>2, <3>1, Patched, CallAwaited, AnsweredKeeps DEF RowShape, FileRow
  <2> QED BY <1>3, <2>1, <2>2, <1>end DEF ReceiveStored
<1>4. CASE ReceiveReady(f)
  <2>1. reserved[f] # "none" /\ transfer[f].step # "none"
    BY <1>4 DEF ReceiveReady, Receives, BytesOf
  <2>2. CASE Patch(f, [local[f] EXCEPT !.status = "ready", !.known = TRUE, !.file = FALSE])
    <3>1. [local[f] EXCEPT !.status = "ready", !.known = TRUE, !.file = FALSE] \in FileRow
      BY DEF RowShape, FileRow
    <3>2. /\ local' \in [Chosen -> FileRow] /\ \A g \in Chosen \ {f} : local'[g] = local[g]
          /\ local'[f] = local[f] \/ (local[f].status # "absent" /\ local'[f].attempted = local[f].attempted)
      BY ZenonT(60), <2>2, <3>1, Patched DEF RowShape, FileRow
    <3> QED BY <1>4, <2>1, <3>2, CallFinished, AnsweredKeeps DEF ReceiveReady
  <2> QED BY <1>4, <2>1, <2>2, <1>end DEF ReceiveReady, MarkReady
<1>5. CASE ReceiveFailure(f)
  <2>1. transfer[f].intent \in BOOLEAN /\ [local[f] EXCEPT !.status = "error"] \in FileRow
    BY DEF RowShape, FileRow, FileCall
  <2>2. /\ local' \in [Chosen -> FileRow] /\ \A g \in Chosen \ {f} : local'[g] = local[g]
        /\ local'[f] = local[f] \/ (local[f].status # "absent" /\ local'[f] = [local[f] EXCEPT !.status = "error"])
    BY <1>5, <2>1, Patched DEF ReceiveFailure, FailItem, RowShape
  <2>3. RowShape'
    BY <1>5, <2>1, <2>2, CallFinished DEF ReceiveFailure, RowShape, fileServerVars
  <2>4. ASSUME NEW g \in Chosen \ {f} PROVE BytesOf(g)'
    BY <1>5, <2>1, <2>2, <2>4, CallFinished, BytesKept DEF ReceiveFailure, fileServerVars, NoFresher, BytesOf
  <2>5. BytesOf(f)'
    <3>1. transfer'[f].step \in {"none", "cleanup"}
      BY <1>5, <2>1, CallFinished DEF ReceiveFailure
    <3>2. NoFresher(local'[f], local[f])
      BY <2>2 DEF NoFresher, BytesOf, RowShape, FileRow
    <3>3. local[f].status # "absent" => local[f].attempted
      BY <1>5 DEF ReceiveFailure, BytesOf
    <3> QED BY <3>1, <3>2, <3>3 DEF BytesOf, NoFresher, fileServerVars
  <2> QED BY <2>3, <2>4, <2>5
<1> QED BY <1>1, <1>2, <1>3, <1>4, <1>5

(* What the API and the store do.                                          *)
LEMMA ServersKeepUploads ==
  ASSUME UploaderInv, (\E f \in Chosen : ServeTransfer(f)) \/ (\E r \in Rows : EndRemoval(r))
  PROVE  UploaderInv'
<1> USE DEF UploaderInv
<1>1. ASSUME NEW f \in Chosen, ServeTransfer(f) PROVE UploaderInv'
  <2>1. local' = local /\ active' = active /\ transfer[f].answer = "no" /\ transfer[f].step # "none"
    BY <1>1 DEF ServeTransfer, rowVars
  <2>2. PICK a \in {"pending", "ready", "absent", "stored", "failed", "removed"} :
          transfer' = [transfer EXCEPT ![f].answer = a] /\ (a = "absent" => f \notin stored)
    BY <1>1 DEF ServeTransfer, RequestAnswer
  <2>3. /\ \A g \in Chosen \ {f} : g \in stored' <=> g \in stored
        /\ stored' \subseteq Chosen
        /\ stored' = stored \/ transfer[f].step = "put"
    BY <1>1 DEF ServeTransfer, RowShape
  <2>4. /\ reserved' \in [Chosen -> {"none", "pending", "ready", "quarantined", "delete_pending", "deleted"}]
        /\ \A g \in Chosen \ {f} : reserved[g] = "none" <=> reserved'[g] = "none"
        /\ reserved[f] # "none" => reserved'[f] # "none"
        /\ transfer[f].step = "request" => reserved'[f] # "none"
    <3>1. CASE transfer[f].step = "request" /\ ReserveFor(f)
      BY <3>1 DEF ReserveFor, Incomplete, RowShape
    <3>2. CASE transfer[f].step # "request" /\ reserved' = reserved
      BY <3>2 DEF RowShape
    <3>3. CASE transfer[f].step # "request" /\ \E verdict \in {"ready", "quarantined"} : ServeComplete(f, verdict)
      BY <3>3 DEF ServeComplete, RowShape
    <3>4. CASE transfer[f].step # "request" /\ ServeRemoval(f)
      BY <3>4 DEF ServeRemoval, RowShape
    <3> QED BY <1>1, <3>1, <3>2, <3>3, <3>4 DEF ServeTransfer
  <2>5. RowShape' /\ transfer'[f].step = transfer[f].step /\ transfer'[f].again = transfer[f].again /\ transfer'[f].answer = a
    BY ZenonT(60), <2>1, <2>2, <2>3, <2>4 DEF RowShape, FileCall
  <2>6. ASSUME NEW g \in Chosen \ {f} PROVE BytesOf(g)'
    BY <2>1, <2>2, <2>3, <2>4, <2>6, BytesKept DEF RowShape, NoFresher, BytesOf
  <2>7. BytesOf(f)'
    BY <2>1, <2>2, <2>3, <2>4, <2>5 DEF BytesOf
  <2> QED BY <2>5, <2>6, <2>7
<1>2. ASSUME NEW r \in Rows, EndRemoval(r) PROVE UploaderInv'
  <2> DEFINE f == r[2]
  <2>1. f \in Chosen /\ UNCHANGED <<transfer, stored, active>>
    BY <1>2 DEF Rows, EndRemoval
  <2>2. /\ reserved' \in [Chosen -> {"none", "pending", "ready", "quarantined", "delete_pending", "deleted"}]
        /\ \A g \in Chosen : reserved[g] = "none" <=> reserved'[g] = "none"
    <3>1. CASE ServeRemoval(f)
      BY <2>1, <3>1 DEF ServeRemoval, RowShape
    <3> QED BY <1>2, <3>1 DEF EndRemoval, RowShape
  <2>3. PICK gone \in BOOLEAN : PatchRemoved(r, gone)
    BY <1>2 DEF EndRemoval
  <2>4. CASE local' = local
    BY <2>1, <2>2, <2>4, RowsChange DEF RowShape, NoFresher, BytesOf
  <2>5. CASE Patch(f, NoRow)
    <3>1. NoRow \in FileRow
      BY DEF NoRow, FileRow
    <3> QED BY <2>1, <2>2, <2>5, <3>1, PatchKeeps
  <2>6. CASE Patch(f, [local[f] EXCEPT !.status = "error"])
    <3>1. [local[f] EXCEPT !.status = "error"] \in FileRow
      BY <2>1 DEF RowShape, FileRow
    <3> QED BY <2>1, <2>2, <2>6, <3>1, PatchKeeps DEF RowShape, FileRow
  <2> QED BY <2>3, <2>4, <2>5, <2>6 DEF PatchRemoved
<1> QED BY <1>1, <1>2

LEMMA UploaderStep ==
  ASSUME UploaderInv, [UploaderNext]_uploaderVars
  PROVE  UploaderInv'
<1>1. CASE UNCHANGED uploaderVars
  BY <1>1 DEF uploaderVars, rowVars, fileServerVars, UploaderInv, RowShape, BytesOf
<1>2. CASE \/ CreateDraft \/ ServeList \/ ReceiveList \/ ListFails \/ RetryList \/ Leave
           \/ \E f \in Chosen : AddFiles(f) \/ RetryItem(f) \/ StartUpload(f) \/ RemoveItem(f) \/ RemoveRestored(f) \/ CleanedUp(f)
  <2>1. UNCHANGED fileServerVars
    BY <1>2 DEF CreateDraft, ServeList, ReceiveList, ListFails, RetryList, Leave, AddFiles, RetryItem, StartUpload,
       RemoveItem, RemoveRestored, CleanedUp
  <2> QED BY SMTT(40), <1>2, <2>1, PageKeepsUploads
<1>3. ASSUME NEW f \in Chosen,
             ReceiveReservation(f) \/ ReceiveAbsent(f) \/ ReceiveStored(f) \/ ReceiveReady(f) \/ ReceiveFailure(f)
      PROVE  UploaderInv'
  <2>1. UNCHANGED fileServerVars
    BY <1>3 DEF ReceiveReservation, ReceiveAbsent, ReceiveStored, ReceiveReady, ReceiveFailure
  <2> QED BY <1>3, <2>1, AnswersKeepUploads
<1> QED BY <1>1, <1>2, <1>3, ServersKeepUploads DEF UploaderNext

(* Only an answer that the server has none begins to send bytes.           *)
LEMMA PutStep ==
  ASSUME UploaderInv, UploaderNext, NEW f \in Chosen, transfer[f].step # "put", transfer'[f].step = "put"
  PROVE  f \notin stored
<1> USE DEF UploaderInv
<1>1. ASSUME NEW g \in Chosen, NEW intent \in BOOLEAN, Finish(g, intent) PROVE FALSE
  BY <1>1, CallFinished DEF RowShape
<1>2. ASSUME NEW g \in Chosen, StartPut(g) PROVE g = f
  BY <1>2, CallAwaited DEF StartPut
<1>3. ASSUME NEW g \in Chosen, NEW step \in {"recheck", "complete"}, AwaitCall(g, step) PROVE FALSE
  BY <1>3, CallAwaited
<1>4. transfer' # transfer
  OBVIOUS
<1>5. CASE \/ CreateDraft \/ ServeList \/ ReceiveList \/ ListFails \/ RetryList
           \/ \E g \in Chosen : AddFiles(g) \/ RetryItem(g) \/ RemoveRestored(g)
           \/ \E r \in Rows : EndRemoval(r)
  BY <1>4, <1>5 DEF CreateDraft, ServeList, ReceiveList, ListFails, RetryList, AddFiles, RetryItem, RemoveRestored, EndRemoval
<1>6. CASE Leave \/ \E g \in Chosen : RemoveItem(g)
  <2>1. \E g : transfer[g].step = "put" /\ transfer' = [transfer EXCEPT ![g].answer = "failed"]
    BY <1>4, <1>6 DEF Leave, RemoveItem, Abort
  <2> QED BY <2>1 DEF RowShape, FileCall
<1>7. ASSUME NEW g \in Chosen, StartUpload(g) \/ CleanedUp(g) \/ ServeTransfer(g) PROVE FALSE
  <2>1. CASE StartUpload(g)
    BY <2>1 DEF StartUpload, RowShape, NoCall
  <2>2. CASE CleanedUp(g)
    BY <2>2 DEF CleanedUp, RowShape, NoCall
  <2>3. CASE ServeTransfer(g)
    <3>1. PICK a : transfer' = [transfer EXCEPT ![g].answer = a]
      BY <2>3 DEF ServeTransfer
    <3> QED BY <3>1 DEF RowShape, FileCall
  <2> QED BY <1>7, <2>1, <2>2, <2>3
<1>8. ASSUME NEW g \in Chosen, ReceiveReservation(g) PROVE f \notin stored
  <2>1. StartPut(g) /\ ~transfer[g].again
    BY <1>8, <1>1, <1>3 DEF ReceiveReservation
  <2> QED BY <1>8, <2>1, <1>2 DEF ReceiveReservation, Receives, BytesOf
<1>9. ASSUME NEW g \in Chosen, ReceiveAbsent(g) PROVE f \notin stored
  <2>1. StartPut(g)
    BY <1>9, <1>1 DEF ReceiveAbsent
  <2> QED BY <1>9, <2>1, <1>2 DEF ReceiveAbsent, Receives, BytesOf
<1>10. ASSUME NEW g \in Chosen, ReceiveStored(g) PROVE FALSE
  BY <1>10, <1>1, <1>3 DEF ReceiveStored
<1>11. ASSUME NEW g \in Chosen, ReceiveReady(g) \/ ReceiveFailure(g) PROVE FALSE
  <2>1. transfer[g].intent \in BOOLEAN
    BY DEF RowShape, FileCall
  <2> QED BY <1>11, <1>1, <2>1 DEF ReceiveReady, ReceiveFailure
<1> QED BY <1>5, <1>6, <1>7, <1>8, <1>9, <1>10, <1>11 DEF UploaderNext

(* For any files: bytes are sent again only when the server has none       *)
(* (PrivateAssetUploader.jsx:174-183).                                     *)
THEOREM BytesResentOnlyIfAbsent == UploaderSpec => ResentOnlyIfAbsent
<1>1. ASSUME UploaderInv, [UploaderNext]_uploaderVars
      PROVE  [\A f \in Chosen : transfer[f].step # "put" /\ transfer'[f].step = "put" => f \notin stored]_uploaderVars
  BY <1>1, PutStep DEF uploaderVars
<1> QED BY <1>1, UploaderStarts, UploaderStep, PTL DEF UploaderSpec, ResentOnlyIfAbsent

-----------------------------------------------------------------------------
(* The release.  Nothing holds the two platforms still, so what a check saw is    *)
(* carried on: the ledger only grows, so if it fits when it is read again it      *)
(* fitted in between; a deploy that has ended is never live again, so if the one  *)
(* that was planned is live at the end it was live in between; and in between the *)
(* smoke test saw the website.                                                    *)

Deploys == [sha : Commits, status : {"building", "live", "ended"}]

Planning == {"guard", "ledger", "pages", "inspect"}
Deploying == {"plan", "deploy", "post"}
Publishing == {"conflict", "confirm", "unchanged", "publish"}
Smoked == {"retained", "recheck"}

JobSteps ==
  Ended \cup Planning \cup Deploying \cup {"wait"} \cup Publishing \cup {"smoke"} \cup Smoked \cup {"final"}

JobFields == {"step", "number", "target", "page", "pageSha", "id", "sha", "api", "web", "expected"}

(* Code and Migrations, with what the commits touch as an argument. *)
CodeOf(touched, component, c) ==
  Max({1} \cup {d \in 2 .. c : component \in Affected[touched[d]]})
MigrationsOf(touched, c) == Cardinality({d \in 2 .. c : "database" \in Affected[touched[d]]})

JobTypeOK ==
  /\ main \in Commits /\ ledger \in Nat /\ coherent \in BOOLEAN
  /\ deploys \in Seq(Deploys)
  /\ DOMAIN release = JobFields /\ release.step \in JobSteps
  /\ release.step \notin Ended => release.target \in Commits

OneLive == \A i, j \in Live : i = j

(* The ledger had what the target needs when it was first read. *)
LedgerGrows ==
  release.step \notin Ended \cup {"guard", "ledger"} =>
    ledger >= MigrationsOf(touches, release.target)

(* The website that the smoke test expects is the one of the target. *)
ExpectedIsTarget ==
  release.step \notin Ended \cup Planning \cup {"plan"} =>
    release.expected.bytes = CodeOf(touches, "frontend", release.target)

(* The deploy that the release goes by has the commit it was read with, and it has *)
(* been live unless it is awaited.                                                *)
DeployIsKnown ==
  release.step \notin Ended \cup Planning =>
    /\ release.id \in DOMAIN deploys /\ deploys[release.id].sha = release.sha
    /\ release.step # "wait" => deploys[release.id].status # "building"

DeployIsTarget ==
  release.step \notin Ended \cup Planning \cup Deploying =>
    CodeOf(touches, "api", release.sha) = CodeOf(touches, "api", release.target)

WasWhole ==
  /\ release.step \in Smoked =>
       (ledger = MigrationsOf(touches, release.target) /\ release.id \in Live => coherent)
  /\ release.step = "final" => (release.id \in Live => coherent)

ReleaseInv ==
  /\ JobTypeOK /\ OneLive /\ LedgerGrows /\ ExpectedIsTarget
  /\ DeployIsKnown /\ DeployIsTarget /\ WasWhole /\ SuccessWasWhole

LEMMA MigrationsAreCounted ==
  ASSUME NEW touched, NEW c \in Commits
  PROVE  MigrationsOf(touched, c) \in Nat
<1>1. c \in Int
  BY ReleaseAssumption DEF Commits
<1>2. IsFiniteSet(2 .. c)
  BY <1>1, FS_Interval
<1> QED
  BY <1>2, FS_Subset, FS_CardinalityType DEF MigrationsOf

(* A component that no commit after the baseline touched is as it was there. *)
LEMMA UntouchedIsSame ==
  ASSUME NEW component, NEW base \in Int, NEW target \in Int,
         HasDiff(base, target), ~Changed(component, base, target)
  PROVE  CodeOf(touches, component, base) = CodeOf(touches, component, target)
<1>1. \A d \in 2 .. target : component \in Affected[touches[d]] => d <= base
  BY DEF HasDiff, Changed
<1>2. {d \in 2 .. base : component \in Affected[touches[d]]}
        = {d \in 2 .. target : component \in Affected[touches[d]]}
  BY <1>1 DEF HasDiff
<1> QED
  BY <1>2 DEF CodeOf

(* What it takes for a moment to be coherent. *)
LEMMA CoherentIf ==
  ASSUME site'.bytes = CodeOf(touches', "frontend", release'.target),
         \A i \in Live' : CodeOf(touches', "api", deploys'[i].sha)
                            = CodeOf(touches', "api", release'.target),
         Live' # {}, ledger' = MigrationsOf(touches', release'.target)
  PROVE  Coherent'
BY DEF Coherent, Code, CodeOf, Migrations, MigrationsOf

LEMMA ReleaseInvInit == ReleaseInit => ReleaseInv
<1> SUFFICES ASSUME ReleaseInit PROVE ReleaseInv
  OBVIOUS
<1> DEFINE first == [sha |-> 1, status |-> "live"]
<1>1. first \in Deploys /\ 1 \in Commits
  BY ReleaseAssumption DEF Commits, Deploys
<1> HIDE DEF first
<1>2. deploys = <<first>>
  BY DEF ReleaseInit, first
<1>3. deploys \in Seq(Deploys) /\ DOMAIN deploys = {1}
  BY <1>1, <1>2
<1>4. release = NoJob /\ DOMAIN release = JobFields /\ release.step = "none"
  BY DEF ReleaseInit, NoJob, JobFields
<1>6. JobTypeOK
  BY <1>3, <1>4 DEF ReleaseInit, JobTypeOK, JobSteps, Ended
<1>7. OneLive
  BY <1>3 DEF OneLive, Live
<1> QED
  BY <1>4, <1>6, <1>7
     DEF ReleaseInv, LedgerGrows, ExpectedIsTarget, DeployIsKnown, DeployIsTarget, WasWhole,
         SuccessWasWhole, Ended, Smoked

-----------------------------------------------------------------------------
(* Deploys: a commit is for ever, and what has been built is not built again. *)
DeploysGoOn ==
  /\ deploys' \in Seq(Deploys) /\ DOMAIN deploys \subseteq DOMAIN deploys'
  /\ \A i \in DOMAIN deploys :
       /\ deploys'[i].sha = deploys[i].sha
       /\ deploys[i].status # "building" => deploys'[i].status # "building"
       /\ deploys[i].status # "building" /\ deploys'[i].status = "live" => deploys[i].status = "live"
  /\ OneLive'

LEMMA DeployTypes ==
  ASSUME JobTypeOK
  PROVE  /\ Len(deploys) \in Nat /\ DOMAIN deploys = 1 .. Len(deploys)
         /\ \A i \in DOMAIN deploys : deploys[i] \in Deploys
<1>1. deploys \in Seq(Deploys)
  BY DEF JobTypeOK
<1>2. Len(deploys) \in Nat /\ DOMAIN deploys = 1 .. Len(deploys) /\ deploys \in [1 .. Len(deploys) -> Deploys]
  BY <1>1, LenProperties
<1> QED
  BY <1>2

LEMMA DeploysStay ==
  ASSUME ReleaseInv, UNCHANGED deploys
  PROVE  DeploysGoOn
BY DEF ReleaseInv, JobTypeOK, OneLive, Live, DeploysGoOn

LEMMA NewDeploy ==
  ASSUME ReleaseInv, NEW c \in Commits,
         deploys' = Append(deploys, [sha |-> c, status |-> "building"])
  PROVE  /\ DeploysGoOn
         /\ Len(deploys) + 1 \in DOMAIN deploys' /\ deploys'[Len(deploys) + 1].sha = c
<1> DEFINE e == [sha |-> c, status |-> "building"]
<1>1. e \in Deploys /\ e.sha = c /\ e.status = "building"
  BY DEF Deploys
<1>2. deploys' = Append(deploys, e)
  OBVIOUS
<1> HIDE DEF e
<1>3. deploys \in Seq(Deploys) /\ Len(deploys) \in Nat /\ DOMAIN deploys = 1 .. Len(deploys)
  BY DeployTypes DEF ReleaseInv, JobTypeOK
<1>4. /\ Append(deploys, e) \in Seq(Deploys) /\ Len(Append(deploys, e)) = Len(deploys) + 1
      /\ \A i \in 1 .. Len(deploys) : Append(deploys, e)[i] = deploys[i]
      /\ Append(deploys, e)[Len(deploys) + 1] = e
  BY <1>1, <1>3, AppendProperties
<1>5. /\ deploys' \in Seq(Deploys) /\ Len(deploys') = Len(deploys) + 1
      /\ \A i \in 1 .. Len(deploys) : deploys'[i] = deploys[i]
      /\ deploys'[Len(deploys) + 1] = e
  BY <1>2, <1>4
<1>6. DOMAIN deploys' = 1 .. (Len(deploys) + 1)
  BY <1>3, <1>5, LenProperties
<1>7. OneLive'
  <2>1. ASSUME NEW i \in DOMAIN deploys', deploys'[i].status = "live"
        PROVE  i \in DOMAIN deploys /\ deploys[i].status = "live"
    BY <1>1, <1>3, <1>5, <1>6, <2>1
  <2> QED
    BY <2>1 DEF ReleaseInv, OneLive, Live
<1> QED
  BY <1>1, <1>3, <1>5, <1>6, <1>7 DEF DeploysGoOn

LEMMA DeployEnds ==
  ASSUME ReleaseInv, NEW i \in DOMAIN deploys, GoesLive(i) \/ DeployFails(i)
  PROVE  DeploysGoOn
<1>0. deploys \in Seq(Deploys) /\ Len(deploys) \in Nat /\ DOMAIN deploys = 1 .. Len(deploys)
      /\ \A j \in DOMAIN deploys : deploys[j] \in Deploys
  BY DeployTypes DEF ReleaseInv, JobTypeOK
<1>1. i \in Active /\ deploys[i].status = "building"
  BY DEF GoesLive, DeployFails, Active
<1>2. CASE GoesLive(i)
  <2>1. /\ DOMAIN deploys' = DOMAIN deploys
        /\ \A j \in DOMAIN deploys : deploys'[j] =
             IF j = i THEN [deploys[j] EXCEPT !.status = "live"]
             ELSE IF j \in Live THEN [deploys[j] EXCEPT !.status = "ended"] ELSE deploys[j]
    BY <1>2 DEF GoesLive
  <2>2. \A j \in DOMAIN deploys :
          /\ deploys'[j] \in Deploys /\ deploys'[j].sha = deploys[j].sha
          /\ deploys'[j].status = IF j = i THEN "live" ELSE IF deploys[j].status = "live" THEN "ended"
                                  ELSE deploys[j].status
    BY <1>0, <2>1 DEF Deploys, Live
  <2>3. deploys' \in Seq(Deploys)
    <3>1. deploys' = [j \in 1 .. Len(deploys) |-> deploys'[j]]
      BY <1>0, <1>2 DEF GoesLive
    <3> QED
      BY <1>0, <2>2, <3>1, IsASeq
  <2>4. OneLive'
    BY <2>1, <2>2 DEF OneLive, Live
  <2> QED
    BY <1>1, <2>1, <2>2, <2>3, <2>4 DEF DeploysGoOn
<1>3. CASE DeployFails(i)
  <2> DEFINE e == [deploys[i] EXCEPT !.status = "ended"]
  <2>1. e \in Deploys /\ e.sha = deploys[i].sha /\ e.status = "ended"
    BY <1>0 DEF Deploys
  <2>2. deploys' = [deploys EXCEPT ![i] = e]
    BY <1>3 DEF DeployFails
  <2> HIDE DEF e
  <2>3. deploys' \in Seq(Deploys)
    BY <1>0, <2>1, <2>2, ExceptSeq
  <2>4. DOMAIN deploys' = DOMAIN deploys
        /\ \A j \in DOMAIN deploys : deploys'[j] = IF j = i THEN e ELSE deploys[j]
    BY <1>0, <2>2
  <2>5. OneLive'
    BY <2>1, <2>4 DEF ReleaseInv, OneLive, Live
  <2> QED
    BY <1>1, <2>1, <2>3, <2>4, <2>5 DEF DeploysGoOn
<1> QED
  BY <1>2, <1>3

(* The history does not forget while the release goes on. *)
LEMMA CoherentStays ==
  ASSUME JobTypeOK, coherent' = (release'.step \in Published /\ (coherent \/ Coherent'))
  PROVE  /\ coherent' \in BOOLEAN
         /\ release'.step \in Published /\ coherent => coherent'
         /\ release'.step \in Published /\ Coherent' => coherent'
BY DEF JobTypeOK

LEMMA SurroundingsKeep ==
  ASSUME ReleaseInv, Surroundings, coherent' = (release'.step \in Published /\ (coherent \/ Coherent'))
  PROVE  ReleaseInv'
<1>0. JobTypeOK
  BY DEF ReleaseInv
<1>1. UNCHANGED <<touches, release>>
  BY DEF Surroundings, Push, Migrate, ConsoleDeploy, ConsoleUpload, GoesLive, DeployFails
<1>2. main' \in Commits /\ ledger' \in Nat /\ ledger' >= ledger
  <2>0. main \in Commits /\ ledger \in Nat
    BY <1>0 DEF JobTypeOK
  <2>1. CASE Push
    BY <2>0, <2>1, ReleaseAssumption DEF Push, Commits
  <2>2. CASE Migrate
    BY <2>0, <2>2 DEF Migrate
  <2>3. CASE UNCHANGED <<main, ledger>>
    BY <2>0, <2>3
  <2> QED
    BY <2>1, <2>2, <2>3 DEF Surroundings, ConsoleDeploy, ConsoleUpload, GoesLive, DeployFails
<1>3. DeploysGoOn
  <2>1. CASE UNCHANGED deploys
    BY <2>1, DeploysStay
  <2>2. CASE \E c \in Commits : ConsoleDeploy(c)
    BY <2>2, NewDeploy DEF ConsoleDeploy
  <2>3. CASE \E i \in DOMAIN deploys : GoesLive(i) \/ DeployFails(i)
    BY <2>3, DeployEnds
  <2> QED
    BY <2>1, <2>2, <2>3 DEF Surroundings, Push, Migrate, ConsoleUpload
<1>4. JobTypeOK' /\ OneLive'
  BY <1>0, <1>1, <1>2, <1>3, CoherentStays DEF JobTypeOK, DeploysGoOn
<1>5. LedgerGrows' /\ ExpectedIsTarget' /\ DeployIsTarget'
  <2>1. release.step \notin Ended => MigrationsOf(touches, release.target) \in Nat
    BY <1>0, MigrationsAreCounted DEF JobTypeOK
  <2> QED
    BY <1>0, <1>1, <1>2, <2>1 DEF ReleaseInv, JobTypeOK, LedgerGrows, ExpectedIsTarget, DeployIsTarget
<1>6. DeployIsKnown'
  BY <1>1, <1>3 DEF ReleaseInv, DeployIsKnown, DeploysGoOn
<1>7. release.step \in Smoked \cup {"final"} => (release.id \in Live' => release.id \in Live)
  BY <1>1, <1>3 DEF ReleaseInv, DeployIsKnown, DeploysGoOn, Live, Ended, Planning, Smoked
<1>8. release.step \in Published /\ coherent => coherent'
  BY <1>0, <1>1, CoherentStays
<1>9. WasWhole'
  <2>1. CASE release.step \in Smoked /\ ledger' = MigrationsOf(touches, release.target) /\ release.id \in Live'
    <3>1. ledger >= MigrationsOf(touches, release.target) /\ MigrationsOf(touches, release.target) \in Nat
      BY <1>0, <2>1, MigrationsAreCounted DEF ReleaseInv, JobTypeOK, LedgerGrows, Smoked, Ended
    <3>2. ledger = MigrationsOf(touches, release.target)
      BY <1>0, <1>2, <2>1, <3>1 DEF JobTypeOK
    <3>3. coherent'
      BY <1>7, <1>8, <2>1, <3>2 DEF ReleaseInv, WasWhole, Smoked, Published
    <3> QED
      BY <1>1, <2>1, <3>3 DEF WasWhole, Smoked
  <2>2. CASE release.step = "final" /\ release.id \in Live'
    <3>1. coherent'
      BY <1>7, <1>8, <2>2 DEF ReleaseInv, WasWhole, Published
    <3> QED
      BY <1>1, <2>2, <3>1 DEF WasWhole, Smoked
  <2> QED
    BY <1>1, <2>1, <2>2 DEF WasWhole
<1>10. SuccessWasWhole'
  BY <1>1, <1>8 DEF ReleaseInv, SuccessWasWhole, Published
<1> QED
  BY <1>4, <1>5, <1>6, <1>9, <1>10 DEF ReleaseInv
-----------------------------------------------------------------------------
(* The steps of the release. *)

LEMMA FailedKeeps ==
  ASSUME ReleaseInv, release' = Failed, UNCHANGED <<touches, main, ledger>>, DeploysGoOn,
         coherent' = (release'.step \in Published /\ (coherent \/ Coherent'))
  PROVE  ReleaseInv'
<1>1. DOMAIN release' = JobFields /\ release'.step = "failed"
  BY DEF Failed, NoJob, JobFields
<1>2. JobTypeOK' /\ OneLive'
  BY <1>1 DEF ReleaseInv, JobTypeOK, JobSteps, Ended, DeploysGoOn
<1> QED
  BY <1>1, <1>2
     DEF ReleaseInv, LedgerGrows, ExpectedIsTarget, DeployIsKnown, DeployIsTarget, WasWhole,
         SuccessWasWhole, Ended, Smoked

(* A step that only moves on keeps the invariant if the next one may rely on it. *)
LEMMA GotoKeeps ==
  ASSUME ReleaseInv, NEW s \in JobSteps, release' = Goto(s), release.step \notin Ended,
         UNCHANGED <<touches, main, deploys, ledger>>,
         coherent' = (release'.step \in Published /\ (coherent \/ Coherent')),
         s \notin Ended \cup {"guard", "ledger"} => ledger >= MigrationsOf(touches, release.target),
         s \notin Ended \cup Planning \cup {"plan"} =>
           release.expected.bytes = CodeOf(touches, "frontend", release.target),
         s \notin Ended \cup Planning =>
           /\ release.id \in DOMAIN deploys /\ deploys[release.id].sha = release.sha
           /\ s # "wait" => deploys[release.id].status # "building",
         s \notin Ended \cup Planning \cup Deploying =>
           CodeOf(touches, "api", release.sha) = CodeOf(touches, "api", release.target),
         s \in Smoked =>
           (ledger = MigrationsOf(touches, release.target) /\ release.id \in Live => coherent'),
         s = "final" => (release.id \in Live => coherent'),
         s = "succeeded" => coherent'
  PROVE  ReleaseInv'
<1>0. JobTypeOK
  BY DEF ReleaseInv
<1>1. /\ DOMAIN release' = JobFields /\ release'.step = s /\ release'.target = release.target
      /\ release'.id = release.id /\ release'.sha = release.sha /\ release'.expected = release.expected
  BY <1>0 DEF JobTypeOK, JobFields, Goto
<1>2. JobTypeOK'
  BY <1>0, <1>1, CoherentStays DEF JobTypeOK
<1>3. OneLive' /\ Live' = Live
  BY DEF ReleaseInv, OneLive, Live
<1>4. LedgerGrows' /\ ExpectedIsTarget' /\ DeployIsTarget'
  BY <1>1 DEF LedgerGrows, ExpectedIsTarget, DeployIsTarget
<1>5. DeployIsKnown'
  BY <1>1 DEF DeployIsKnown
<1>6. WasWhole' /\ SuccessWasWhole'
  BY <1>1, <1>3 DEF WasWhole, SuccessWasWhole
<1> QED
  BY <1>2, <1>3, <1>4, <1>5, <1>6 DEF ReleaseInv

LEMMA DispatchKeeps ==
  ASSUME ReleaseInv, Dispatch, coherent' = (release'.step \in Published /\ (coherent \/ Coherent'))
  PROVE  ReleaseInv'
<1>1. DOMAIN release' = JobFields /\ release'.step = "guard" /\ release'.target = main
  BY DEF Dispatch, NoJob, JobFields
<1>2. JobTypeOK' /\ OneLive'
  BY <1>1 DEF ReleaseInv, JobTypeOK, JobSteps, Planning, Published, Dispatch, OneLive, Live
<1> QED
  BY <1>1, <1>2
     DEF ReleaseInv, LedgerGrows, ExpectedIsTarget, DeployIsKnown, DeployIsTarget, WasWhole,
         SuccessWasWhole, Ended, Smoked, Planning

(* The ledger is read: once to begin with, and once when the website is published. *)
LEMMA LedgerKeeps ==
  ASSUME ReleaseInv, VerifySource \/ VerifyLedger,
         coherent' = (release'.step \in Published /\ (coherent \/ Coherent'))
  PROVE  ReleaseInv'
<1>0. JobTypeOK
  BY DEF ReleaseInv
<1>1. CASE VerifySource
  <2>1. release' = Goto("ledger") /\ release.step = "guard" /\ UNCHANGED <<touches, main, deploys, ledger>>
    BY <1>1 DEF VerifySource, At
  <2> QED
    BY <2>1, GotoKeeps DEF JobSteps, Ended, Planning, Smoked
<1>2. CASE VerifyLedger /\ At("ledger")
  <2>1. release' = Goto("pages") /\ release.step = "ledger" /\ UNCHANGED <<touches, main, deploys, ledger>>
        /\ ledger = MigrationsOf(touches, release.target)
    BY <1>2 DEF VerifyLedger, At, Migrations, MigrationsOf
  <2>2. ledger >= MigrationsOf(touches, release.target)
    BY <1>0, <2>1 DEF JobTypeOK
  <2> QED
    BY <2>1, <2>2, GotoKeeps DEF JobSteps, Ended, Planning, Smoked
<1>3. CASE VerifyLedger /\ At("recheck")
  <2>1. release' = Goto("final") /\ release.step = "recheck" /\ UNCHANGED <<touches, main, deploys, ledger>>
        /\ ledger = MigrationsOf(touches, release.target)
    BY <1>3 DEF VerifyLedger, At, Migrations, MigrationsOf
  <2>2. release.id \in Live => coherent
    BY <2>1 DEF ReleaseInv, WasWhole, Smoked
  <2>3. release'.step = "final"
    BY <1>0, <2>1 DEF JobTypeOK, JobFields, Goto
  <2>4. release.id \in Live => coherent'
    BY <1>0, <2>2, <2>3, CoherentStays DEF Published
  <2>5. /\ ledger >= MigrationsOf(touches, release.target)
        /\ release.expected.bytes = CodeOf(touches, "frontend", release.target)
        /\ release.id \in DOMAIN deploys /\ deploys[release.id].sha = release.sha
        /\ deploys[release.id].status # "building"
        /\ CodeOf(touches, "api", release.sha) = CodeOf(touches, "api", release.target)
    BY <2>1 DEF ReleaseInv, LedgerGrows, ExpectedIsTarget, DeployIsKnown, DeployIsTarget,
                Ended, Planning, Deploying
  <2> QED
    BY <2>1, <2>4, <2>5, GotoKeeps DEF JobSteps, Ended, Smoked
<1> QED
  BY <1>1, <1>2, <1>3 DEF VerifyLedger

LEMMA ReadPagesKeeps ==
  ASSUME ReleaseInv, ReadPages, coherent' = (release'.step \in Published /\ (coherent \/ Coherent'))
  PROVE  ReleaseInv'
<1>0. JobTypeOK /\ release.step = "pages"
  BY DEF ReleaseInv, ReadPages, At
<1>1. DOMAIN release' = JobFields /\ release'.step = "inspect" /\ release'.target = release.target
  BY <1>0 DEF ReadPages, JobTypeOK, JobFields
<1>2. JobTypeOK' /\ OneLive'
  BY <1>0, <1>1 DEF ReleaseInv, JobTypeOK, JobSteps, Planning, Published, Ended, ReadPages, OneLive, Live
<1>3. LedgerGrows'
  BY <1>0, <1>1 DEF ReleaseInv, LedgerGrows, ReadPages, Ended
<1> QED
  BY <1>1, <1>2, <1>3
     DEF ReleaseInv, ExpectedIsTarget, DeployIsKnown, DeployIsTarget, WasWhole,
         SuccessWasWhole, Ended, Smoked, Planning

LEMMA InspectRenderKeeps ==
  ASSUME ReleaseInv, InspectRender, coherent' = (release'.step \in Published /\ (coherent \/ Coherent'))
  PROVE  ReleaseInv'
<1>0. JobTypeOK /\ release.step = "inspect" /\ UNCHANGED <<touches, main, deploys, ledger>>
  BY DEF ReleaseInv, InspectRender, At
<1>1. PICK i \in Live : release' = [release EXCEPT !.step = "plan", !.id = i, !.sha = deploys[i].sha]
  BY DEF InspectRender
<1>2. /\ DOMAIN release' = JobFields /\ release'.step = "plan" /\ release'.target = release.target
      /\ release'.id = i /\ release'.sha = deploys[i].sha
  BY <1>0, <1>1 DEF JobTypeOK, JobFields
<1>3. JobTypeOK' /\ OneLive'
  BY <1>0, <1>2 DEF ReleaseInv, JobTypeOK, JobSteps, Deploying, Published, Ended, OneLive, Live
<1>4. LedgerGrows' /\ DeployIsKnown'
  BY <1>0, <1>2 DEF ReleaseInv, LedgerGrows, DeployIsKnown, Ended, Live
<1> QED
  BY <1>2, <1>3, <1>4
     DEF ReleaseInv, ExpectedIsTarget, DeployIsTarget, WasWhole, SuccessWasWhole,
         Ended, Smoked, Planning, Deploying

(* What is retained is as the target has it.                              *)
LEMMA CreateReleasePlanKeeps ==
  ASSUME ReleaseInv, NEW forced \in BOOLEAN, CreateReleasePlan(forced),
         coherent' = (release'.step \in Published /\ (coherent \/ Coherent'))
  PROVE  ReleaseInv'
<1>0. JobTypeOK /\ release.step = "plan" /\ UNCHANGED <<touches, main, deploys, ledger>>
      /\ release.target \in Commits
  BY DEF ReleaseInv, JobTypeOK, CreateReleasePlan, At, Ended
<1>1. /\ DOMAIN release' = JobFields /\ release'.target = release.target
      /\ release'.id = release.id /\ release'.sha = release.sha
      /\ \/ release'.step = "deploy"
         \/ release'.step = "confirm" /\ Planned("api", release.sha, forced) # "deploy"
      /\ \/ release'.expected = Artifact(release.target)
         \/ /\ release'.expected = [commit |-> site.commit, bytes |-> site.bytes]
            /\ site.bytes = Artifact(release.target).bytes
  BY <1>0 DEF JobTypeOK, JobFields, CreateReleasePlan
<1>2. JobTypeOK' /\ OneLive'
  BY <1>0, <1>1 DEF ReleaseInv, JobTypeOK, JobSteps, Deploying, Publishing, Published, OneLive, Live
<1>3. LedgerGrows'
  BY <1>0, <1>1 DEF ReleaseInv, LedgerGrows, Ended
<1>4. ExpectedIsTarget'
  <2>1. Artifact(release.target).bytes = CodeOf(touches, "frontend", release.target)
    BY DEF Artifact, Code, CodeOf
  <2>2. release'.expected.bytes = CodeOf(touches, "frontend", release.target)
    BY <1>1, <2>1
  <2> QED
    BY <1>0, <1>1, <2>2 DEF ExpectedIsTarget
<1>5. DeployIsKnown'
  BY <1>0, <1>1 DEF ReleaseInv, DeployIsKnown, Ended, Planning
<1>6. DeployIsTarget'
  <2>1. CASE release'.step = "deploy"
    BY <2>1 DEF DeployIsTarget, Deploying
  <2>2. CASE release'.step = "confirm" /\ Planned("api", release.sha, forced) # "deploy"
    <3>1. HasDiff(release.sha, release.target) /\ ~Changed("api", release.sha, release.target)
      BY <2>2 DEF CreateReleasePlan, Planned
    <3>2. release.sha \in Int /\ release.target \in Int
      BY <1>0, <3>1, ReleaseAssumption DEF HasDiff, Commits
    <3>3. CodeOf(touches, "api", release.sha) = CodeOf(touches, "api", release.target)
      BY <3>1, <3>2, UntouchedIsSame
    <3> QED
      BY <1>0, <1>1, <3>3 DEF DeployIsTarget
  <2> QED
    BY <1>1, <2>1, <2>2
<1> QED
  BY <1>1, <1>2, <1>3, <1>4, <1>5, <1>6 DEF ReleaseInv, WasWhole, SuccessWasWhole, Smoked

(* What a job at a step that has planned its deploy may rely on. *)
LEMMA PlannedFacts ==
  ASSUME ReleaseInv, release.step \notin Ended \cup Planning \cup {"plan"}
  PROVE  /\ ledger >= MigrationsOf(touches, release.target)
         /\ release.expected.bytes = CodeOf(touches, "frontend", release.target)
         /\ release.id \in DOMAIN deploys /\ deploys[release.id].sha = release.sha
         /\ release.step # "wait" => deploys[release.id].status # "building"
         /\ release.step \notin Deploying =>
              CodeOf(touches, "api", release.sha) = CodeOf(touches, "api", release.target)
BY DEF ReleaseInv, LedgerGrows, ExpectedIsTarget, DeployIsKnown, DeployIsTarget, Planning

LEMMA DeployKeeps ==
  ASSUME ReleaseInv, ReuseDeploy \/ PostDeploy \/ AwaitLive,
         coherent' = (release'.step \in Published /\ (coherent \/ Coherent'))
  PROVE  ReleaseInv'
<1>1. CASE ReuseDeploy
  <2>1. release' = Goto("confirm") /\ release.step = "deploy" /\ release.sha = release.target
        /\ UNCHANGED <<touches, main, deploys, ledger>>
    BY <1>1 DEF ReuseDeploy, At
  <2> QED
    BY <2>1, PlannedFacts, GotoKeeps DEF JobSteps, Ended, Planning, Publishing, Smoked
<1>2. CASE PostDeploy
  <2>1. release' = Goto("post") /\ release.step = "deploy" /\ UNCHANGED <<touches, main, deploys, ledger>>
    BY <1>2 DEF PostDeploy, At
  <2> QED
    BY <2>1, PlannedFacts, GotoKeeps DEF JobSteps, Ended, Planning, Deploying, Smoked
<1>3. CASE AwaitLive
  <2>1. release' = Goto("conflict") /\ release.step = "wait" /\ UNCHANGED <<touches, main, deploys, ledger>>
        /\ deploys[release.id].status = "live"
    BY <1>3 DEF AwaitLive, At, Live
  <2> QED
    BY <2>1, PlannedFacts, GotoKeeps DEF JobSteps, Ended, Planning, Publishing, Deploying, Smoked
<1> QED
  BY <1>1, <1>2, <1>3

(* The deploy that was asked for, whether or not its answer comes. *)
LEMMA RenderAcceptsKeeps ==
  ASSUME ReleaseInv, NEW answered \in BOOLEAN, RenderAccepts(answered),
         coherent' = (release'.step \in Published /\ (coherent \/ Coherent'))
  PROVE  ReleaseInv'
<1>0. JobTypeOK /\ release.step = "post" /\ UNCHANGED <<touches, main, ledger>>
      /\ release.target \in Commits
  BY DEF ReleaseInv, JobTypeOK, RenderAccepts, At, Ended
<1>1. deploys' = Append(deploys, [sha |-> release.target, status |-> "building"])
  BY DEF RenderAccepts
<1>2. /\ DeploysGoOn
      /\ Len(deploys) + 1 \in DOMAIN deploys' /\ deploys'[Len(deploys) + 1].sha = release.target
  BY <1>0, <1>1, NewDeploy
<1>3. CASE ~answered
  BY <1>0, <1>2, <1>3, FailedKeeps DEF RenderAccepts
<1>4. CASE answered
  <2>1. /\ DOMAIN release' = JobFields /\ release'.step = "wait" /\ release'.target = release.target
        /\ release'.id = Len(deploys) + 1 /\ release'.sha = release.target
        /\ release'.expected = release.expected
    BY <1>0, <1>4 DEF JobTypeOK, JobFields, RenderAccepts
  <2>2. JobTypeOK' /\ OneLive'
    BY <1>0, <1>2, <2>1 DEF JobTypeOK, JobSteps, Published, DeploysGoOn
  <2>3. LedgerGrows' /\ ExpectedIsTarget' /\ DeployIsTarget'
    BY <1>0, <2>1, PlannedFacts
       DEF LedgerGrows, ExpectedIsTarget, DeployIsTarget, Ended, Planning
  <2>4. DeployIsKnown'
    BY <1>2, <2>1 DEF DeployIsKnown
  <2> QED
    BY <2>1, <2>2, <2>3, <2>4 DEF ReleaseInv, WasWhole, SuccessWasWhole, Smoked
<1> QED
  BY <1>3, <1>4

(* The deploy is looked at a last time: it is live, so what was seen was whole. *)
LEMMA VerifyRenderKeeps ==
  ASSUME ReleaseInv, VerifyRender, coherent' = (release'.step \in Published /\ (coherent \/ Coherent'))
  PROVE  ReleaseInv'
<1>0. JobTypeOK /\ release.id \in Live /\ UNCHANGED <<touches, main, deploys, ledger>>
  BY DEF ReleaseInv, VerifyRender, OnlyLive
<1>1. CASE At("conflict") /\ release' = Goto("confirm")
  BY <1>0, <1>1, PlannedFacts, GotoKeeps DEF At, JobSteps, Ended, Planning, Publishing, Deploying, Smoked
<1>2. CASE At("confirm") /\ release' = Goto("unchanged")
  BY <1>0, <1>2, PlannedFacts, GotoKeeps DEF At, JobSteps, Ended, Planning, Publishing, Deploying, Smoked
<1>3. CASE At("final") /\ release' = Goto("succeeded")
  <2>1. coherent /\ release.step = "final"
    BY <1>0, <1>3 DEF ReleaseInv, WasWhole, At
  <2>2. release'.step = "succeeded"
    BY <1>0, <1>3 DEF JobTypeOK, JobFields, Goto
  <2>3. coherent'
    BY <1>0, <2>1, <2>2, CoherentStays DEF Published
  <2> QED
    BY <1>0, <1>3, <2>1, <2>3, GotoKeeps DEF JobSteps, Ended, Smoked
<1> QED
  BY <1>1, <1>2, <1>3 DEF VerifyRender

LEMMA VerifyPagesKeeps ==
  ASSUME ReleaseInv, VerifyPagesUnchanged,
         coherent' = (release'.step \in Published /\ (coherent \/ Coherent'))
  PROVE  ReleaseInv'
<1>0. JobTypeOK /\ UNCHANGED <<touches, main, deploys, ledger>>
  BY DEF ReleaseInv, VerifyPagesUnchanged
<1>1. CASE At("unchanged") /\ release' \in {Goto("publish"), Goto("smoke")}
  BY <1>0, <1>1, PlannedFacts, GotoKeeps DEF At, JobSteps, Ended, Planning, Publishing, Deploying, Smoked
<1>2. CASE At("retained") /\ release' = Goto("recheck")
  <2>1. release.step = "retained"
        /\ (ledger = MigrationsOf(touches, release.target) /\ release.id \in Live => coherent)
    BY <1>2 DEF ReleaseInv, WasWhole, Smoked, At
  <2>2. release'.step = "recheck"
    BY <1>0, <1>2 DEF JobTypeOK, JobFields, Goto
  <2>3. ledger = MigrationsOf(touches, release.target) /\ release.id \in Live => coherent'
    BY <1>0, <2>1, <2>2, CoherentStays DEF Published
  <2> QED
    BY <1>0, <1>2, <2>1, <2>3, PlannedFacts, GotoKeeps
       DEF JobSteps, Ended, Planning, Deploying, Smoked
<1> QED
  BY <1>1, <1>2 DEF VerifyPagesUnchanged

LEMMA PublishPagesKeeps ==
  ASSUME ReleaseInv, NEW known \in BOOLEAN, PublishPages(known),
         coherent' = (release'.step \in Published /\ (coherent \/ Coherent'))
  PROVE  ReleaseInv'
<1>0. release.step = "publish" /\ UNCHANGED <<touches, main, deploys, ledger>>
  BY DEF PublishPages, At
<1>1. CASE known
  <2>1. release' = Goto("smoke")
    BY <1>1 DEF PublishPages
  <2> QED
    BY <1>0, <2>1, PlannedFacts, GotoKeeps DEF JobSteps, Ended, Planning, Deploying, Smoked
<1>2. CASE ~known
  <2>1. release' = Failed
    BY <1>2 DEF PublishPages
  <2> QED
    BY <1>0, <2>1, DeploysStay, FailedKeeps
<1> QED
  BY <1>1, <1>2

(* The smoke test sees the expected website.  If its deploy is live and the ledger *)
(* fits at that moment, everything does.                                           *)
LEMMA RunSmokeKeeps ==
  ASSUME ReleaseInv, RunSmoke, coherent' = (release'.step \in Published /\ (coherent \/ Coherent'))
  PROVE  ReleaseInv'
<1>0. JobTypeOK /\ release.step = "smoke" /\ UNCHANGED <<touches, main, deploys, site, ledger>>
      /\ [commit |-> site.commit, bytes |-> site.bytes] = release.expected
  BY DEF ReleaseInv, RunSmoke, At
<1>1. release' = Goto("recheck") \/ release' = Goto("retained")
  BY DEF RunSmoke
<1>2. release'.step \in {"recheck", "retained"} /\ release'.target = release.target
  BY <1>0, <1>1 DEF JobTypeOK, JobFields, Goto
<1>3. /\ ledger >= MigrationsOf(touches, release.target)
      /\ release.expected.bytes = CodeOf(touches, "frontend", release.target)
      /\ release.id \in DOMAIN deploys /\ deploys[release.id].sha = release.sha
      /\ deploys[release.id].status # "building"
      /\ CodeOf(touches, "api", release.sha) = CodeOf(touches, "api", release.target)
  BY <1>0, PlannedFacts DEF Ended, Planning, Deploying
<1>4. ASSUME ledger = MigrationsOf(touches, release.target), release.id \in Live
      PROVE  coherent'
  <2>1. Live' = Live /\ \A i \in Live : i = release.id
    BY <1>0, <1>4 DEF ReleaseInv, OneLive, Live
  <2>2. site.bytes = CodeOf(touches, "frontend", release.target)
    BY <1>0, <1>3
  <2>3. Coherent'
    <3>1. site'.bytes = CodeOf(touches', "frontend", release'.target)
      BY <1>0, <1>2, <2>2
    <3>2. ledger' = MigrationsOf(touches', release'.target)
      BY <1>0, <1>2, <1>4
    <3>3. Live' # {}
      BY <1>4, <2>1
    <3>4. \A i \in Live' : CodeOf(touches', "api", deploys'[i].sha)
                             = CodeOf(touches', "api", release'.target)
      BY <1>0, <1>2, <1>3, <2>1
    <3> QED
      BY <3>1, <3>2, <3>3, <3>4, CoherentIf
  <2> QED
    BY <1>0, <1>2, <2>3, CoherentStays DEF Published
<1>5. ASSUME NEW s \in {"recheck", "retained"}, release' = Goto(s)
      PROVE  ReleaseInv'
  BY <1>0, <1>3, <1>4, <1>5, GotoKeeps DEF JobSteps, Ended, Planning, Deploying, Smoked
<1> QED
  BY <1>1, <1>5

LEMMA ReleaseInvStep == ReleaseInv /\ [ReleaseNext]_releaseVars => ReleaseInv'
<1> SUFFICES ASSUME ReleaseInv, [ReleaseNext]_releaseVars
             PROVE  ReleaseInv'
  OBVIOUS
<1>1. CASE UNCHANGED releaseVars
  <2>1. UNCHANGED <<touches, main, deploys, site, ledger, release, coherent>>
    BY <1>1 DEF releaseVars
  <2> QED
    BY <2>1 DEF ReleaseInv, JobTypeOK, OneLive, Live, LedgerGrows, ExpectedIsTarget, DeployIsKnown,
                DeployIsTarget, WasWhole, SuccessWasWhole
<1>2. CASE ReleaseNext
  <2>0. coherent' = (release'.step \in Published /\ (coherent \/ Coherent'))
    BY <1>2 DEF ReleaseNext
  <2>1. CASE Surroundings
    BY <2>0, <2>1, SurroundingsKeep
  <2>2. CASE Dispatch
    BY <2>0, <2>2, DispatchKeeps
  <2>3. CASE Fail
    BY <2>0, <2>3, DeploysStay, FailedKeeps DEF Fail
  <2>4. CASE VerifySource \/ VerifyLedger
    BY <2>0, <2>4, LedgerKeeps
  <2>5. CASE ReadPages
    BY <2>0, <2>5, ReadPagesKeeps
  <2>6. CASE InspectRender
    BY <2>0, <2>6, InspectRenderKeeps
  <2>7. CASE \E forced \in BOOLEAN : CreateReleasePlan(forced)
    BY <2>0, <2>7, CreateReleasePlanKeeps
  <2>8. CASE ReuseDeploy \/ PostDeploy \/ AwaitLive
    BY <2>0, <2>8, DeployKeeps
  <2>9. CASE VerifyRender
    BY <2>0, <2>9, VerifyRenderKeeps
  <2>10. CASE \E answered \in BOOLEAN : RenderAccepts(answered)
    BY <2>0, <2>10, RenderAcceptsKeeps
  <2>11. CASE VerifyPagesUnchanged
    BY <2>0, <2>11, VerifyPagesKeeps
  <2>12. CASE RunSmoke
    BY <2>0, <2>12, RunSmokeKeeps
  <2>13. CASE \E known \in BOOLEAN : PublishPages(known)
    BY <2>0, <2>13, PublishPagesKeeps
  <2> QED
    BY <1>2, <2>1, <2>2, <2>3, <2>4, <2>5, <2>6, <2>7, <2>8, <2>9, <2>10, <2>11, <2>12, <2>13
       DEF ReleaseNext, ReleaseStep
<1> QED
  BY <1>1, <1>2

(* A release that ends in success had a moment after its publication when the    *)
(* website, the only live API and the database were all those of its target      *)
(* (release-plan.mjs:57-104, render-deploy.mjs:185-191 and 213-214).             *)
THEOREM ReleasesAlwaysWhole == ReleaseSpec => []SuccessWasWhole
<1>1. ReleaseSpec => []ReleaseInv
  BY ReleaseInvInit, ReleaseInvStep, PTL DEF ReleaseSpec
<1>2. ReleaseInv => SuccessWasWhole
  BY DEF ReleaseInv
<1> QED
  BY <1>1, <1>2, PTL

-----------------------------------------------------------------------------
(* How a tab comes to its page.  The guards send it on at most twice: the form   *)
(* to the page that was intended, and that to the main page.                     *)

Guarded == PlainPaths \cup BuyerPaths \cup DOMAIN Needed \cup AdminPaths

EntranceShape ==
  /\ place \in Places /\ {from, origin, due} \subseteq Guarded \cup {Nowhere}
  /\ session \in {"restoring", "unavailable", "none", "in"}
  /\ roles \in RoleSets /\ role \in roles
  /\ moves \subseteq [to : Places, late : BOOLEAN]
  /\ hops \in Nat

(* One step from rest: only the main page is left to be sent to. *)
NearlySettled ==
  \/ SentTo = Nowhere
  \/ session = "in" /\ place # "unknown" /\ (place \in AnonymousPaths => from = Nowhere)

FewHops ==
  /\ hops <= 2
  /\ hops = 1 => NearlySettled
  /\ hops = 2 => SentTo = Nowhere

(* The form's own navigation, while it is still to come. *)
MovesFit ==
  \A m \in moves : ~m.late =>
    /\ call = "idle" /\ session \in {"in", "none"}
    /\ session = "in" /\ due # Nowhere => m.to = due

(* On the way to the page that was intended, or there, or sent to the main page. *)
OnTheWay ==
  session = "in" /\ due # Nowhere =>
    \/ \E m \in moves : ~m.late
    \/ place \in AnonymousPaths /\ from = due
    \/ place = due
    \/ place = Main /\ due \notin Permitted

EntranceInv == EntranceShape /\ FewHops /\ MovesFit /\ OnTheWay

-----------------------------------------------------------------------------
(* What the guards come to (App.jsx:55-106). *)
GuardsRead ==
  /\ Main \in Guarded \cap Permitted
  /\ session = "in" =>
       /\ place = "unknown" => SentTo = "login"
       /\ place \in AnonymousPaths => SentTo = IF from = Nowhere THEN Main ELSE from
       /\ place \in OpenPaths => SentTo = Nowhere
       /\ place \in Guarded => SentTo = IF place \in Permitted THEN Nowhere ELSE Main
  /\ session # "in" =>
       SentTo = IF place = "unknown" \/ (session = "none" /\ place \in Guarded) THEN "login" ELSE Nowhere

LEMMA KindsOfPlaces ==
  /\ Guarded = {"home", "cart", "editor", "published", "admin", "operations"}
  /\ Places = {"login", "register", "verify-email", "courses", "unknown"} \cup Guarded
<1> QED
  BY DEF Guarded, Places, AnonymousPaths, OpenPaths, PlainPaths, BuyerPaths, Needed, AdminPaths

LEMMA MainIsPermitted == Main \in Guarded \cap Permitted
<1> QED
  BY KindsOfPlaces DEF Main, MainPage, Permitted, PlainPaths, AdminPaths

LEMMA GuardsReadAs == EntranceShape => GuardsRead
<1> SUFFICES ASSUME EntranceShape PROVE GuardsRead
  OBVIOUS
<1>1. Main \in Guarded \cap Permitted
  BY MainIsPermitted
<1>2. role \in {"Member", "Trainer", "Creator", "Admin"}
  BY DEF EntranceShape, RoleSets
<1>3. CASE place = "unknown"
  <2>1. SentTo = "login"
    BY <1>3 DEF SentTo, AnonymousPaths, OpenPaths, PlainPaths, BuyerPaths, AdminPaths
  <2>2. place \notin Guarded \cup AnonymousPaths \cup OpenPaths
    BY <1>3, KindsOfPlaces DEF AnonymousPaths, OpenPaths
  <2> QED
    BY <1>1, <1>3, <2>1, <2>2 DEF GuardsRead
<1>4. CASE place \in AnonymousPaths
  <2>1. place # "unknown" /\ place \notin Guarded \cup OpenPaths
    BY <1>4, KindsOfPlaces DEF AnonymousPaths, OpenPaths
  <2>2. SentTo = AnonymousOnly
    BY <1>4, <2>1 DEF SentTo, AnonymousPaths, OpenPaths, PlainPaths, BuyerPaths, AdminPaths
  <2> QED
    BY <1>1, <1>4, <2>1, <2>2 DEF GuardsRead, AnonymousOnly, IntendedPath
<1>5. CASE place \in OpenPaths
  <2>1. place # "unknown" /\ place \notin Guarded \cup AnonymousPaths
    BY <1>5, KindsOfPlaces DEF AnonymousPaths, OpenPaths
  <2>2. SentTo = Nowhere
    BY <1>5, <2>1 DEF SentTo, AnonymousPaths, OpenPaths, PlainPaths, BuyerPaths, AdminPaths
  <2> QED
    BY <1>1, <1>5, <2>1, <2>2 DEF GuardsRead
<1>6. CASE place \in Guarded
  <2> DEFINE inner == IF place \in Permitted THEN Nowhere ELSE Main
  <2>1. SentTo = Workspace(inner)
    <3>1. CASE place \in PlainPaths
      <4>1. place = "home"
        BY <3>1 DEF PlainPaths
      <4>2. SentTo = Workspace(Nowhere)
        BY <3>1, <4>1 DEF SentTo, AnonymousPaths, OpenPaths, PlainPaths, BuyerPaths, AdminPaths
      <4> QED
        BY <3>1, <4>2 DEF Permitted
    <3>2. CASE place \in BuyerPaths
      BY <3>2, KindsOfPlaces DEF SentTo, AnonymousPaths, OpenPaths, PlainPaths, BuyerPaths, AdminPaths,
         Needed, Permitted, BuyerOnly, CanPurchase
    <3>3. CASE place \in AdminPaths
      BY <3>3, <1>2, KindsOfPlaces DEF SentTo, AnonymousPaths, OpenPaths, PlainPaths, BuyerPaths, AdminPaths,
         Needed, Permitted, Protected
    <3>4. CASE place \in DOMAIN Needed
      <4>1. DOMAIN Needed = {"editor", "published"}
        BY DEF Needed
      <4>2. SentTo = Workspace(Protected(Needed[place]))
        BY <3>4, <4>1 DEF SentTo, AnonymousPaths, OpenPaths, PlainPaths, BuyerPaths, AdminPaths
      <4>3. Needed[place] \subseteq {"Trainer", "Creator"}
        BY <3>4 DEF Needed
      <4>4. place \in Permitted <=> role \in Needed[place]
        BY <3>4, <4>1 DEF Permitted, OpenPaths, PlainPaths, BuyerPaths, AdminPaths
      <4>5. role \in roles
        BY DEF EntranceShape
      <4> QED
        BY <4>2, <4>3, <4>4, <4>5 DEF Protected
    <3> QED
      BY <1>6, <3>1, <3>2, <3>3, <3>4 DEF Guarded
  <2>2. place \notin AnonymousPaths \cup OpenPaths /\ place # "unknown"
    BY <1>6, KindsOfPlaces DEF AnonymousPaths, OpenPaths
  <2>3. session \in {"restoring", "unavailable", "none", "in"}
    BY DEF EntranceShape
  <2> QED
    BY <1>1, <1>6, <2>1, <2>2, <2>3 DEF GuardsRead, Workspace
<1> QED
  BY <1>3, <1>4, <1>5, <1>6, KindsOfPlaces DEF EntranceShape, AnonymousPaths, OpenPaths

LEMMA GuardsReadNext == EntranceShape' => GuardsRead'
<1>1. (EntranceShape => GuardsRead)'
  BY GuardsReadAs, PTL
<1> QED
  BY <1>1

LEMMA SettledEntrance ==
  ASSUME EntranceInv
  PROVE  EntranceLeads
<1>1. GuardsRead /\ EntranceShape
  BY GuardsReadAs DEF EntranceInv
<1>2. Guarded \cap (AnonymousPaths \cup OpenPaths \cup {"unknown", Nowhere}) = {}
  BY KindsOfPlaces DEF AnonymousPaths, OpenPaths, Nowhere
<1>3. Places = AnonymousPaths \cup OpenPaths \cup {"unknown"} \cup Guarded
  BY KindsOfPlaces DEF AnonymousPaths, OpenPaths
<1>4. "login" # Nowhere
  BY DEF Nowhere
<1>5. ASSUME TabSettled, session = "none" PROVE place \in AnonymousPaths \cup OpenPaths
  BY <1>1, <1>2, <1>3, <1>4, <1>5 DEF TabSettled, GuardsRead, EntranceShape
<1>6. ASSUME TabSettled, session = "in" PROVE place \in OpenPaths \cup (Guarded \cap Permitted)
  BY <1>1, <1>2, <1>3, <1>4, <1>6 DEF TabSettled, GuardsRead, EntranceShape
<1>7. ASSUME TabSettled, session = "in", due # Nowhere
      PROVE  place = IF due \in Permitted THEN due ELSE Main
  <2>1. due \in Guarded /\ moves = {} /\ place \notin AnonymousPaths
    BY <1>1, <1>2, <1>6, <1>7 DEF TabSettled, EntranceShape, OpenPaths, AnonymousPaths
  <2>2. place = due \/ (place = Main /\ due \notin Permitted)
    BY <1>7, <2>1 DEF EntranceInv, OnTheWay
  <2> QED
    BY <1>2, <1>6, <1>7, <2>1, <2>2
<1>8. OpenPaths \subseteq Permitted
  BY DEF Permitted
<1> QED
  BY <1>5, <1>6, <1>7, <1>8 DEF EntranceLeads, EntranceInv, FewHops

-----------------------------------------------------------------------------
LEMMA EntranceInitHolds == EntranceInit => EntranceInv
<1> SUFFICES ASSUME EntranceInit PROVE EntranceInv
  OBVIOUS
<1> QED
  BY DEF EntranceInit, EntranceInv, EntranceShape, FewHops, MovesFit, OnTheWay, RoleSets

(* What leaves alone what the guards look at.                              *)
LEMMA GuardsUnchanged ==
  ASSUME UNCHANGED <<place, from, session, roles, role>>
  PROVE  SentTo' = SentTo /\ Permitted' = Permitted /\ Main' = Main
<1> QED
  BY DEF SentTo, AnonymousOnly, CanPurchase, BuyerOnly, Protected, Workspace, Permitted, Main, MainPage, IntendedPath

LEMMA RedirectKeeps ==
  ASSUME EntranceInv, Redirect
  PROVE  EntranceInv'
<1>1. EntranceShape'
  BY GuardsReadAs, KindsOfPlaces DEF EntranceInv, EntranceShape, Redirect, GuardsRead, AnonymousPaths, OpenPaths, Nowhere
<1>2. GuardsRead /\ GuardsRead' /\ EntranceShape
  BY <1>1, GuardsReadAs, GuardsReadNext DEF EntranceInv
<1>3. Permitted' = Permitted /\ Main' = Main
  BY DEF Redirect, Permitted, Main
<1>4. FewHops'
  <2>1. CASE session = "in"
    <3>1. CASE hops = 0
      <4>1. hops' = 1 /\ session' = "in" /\ from' = Nowhere
        BY <2>1, <3>1 DEF Redirect
      <4>2. place' # "unknown"
        BY <1>2, <2>1, KindsOfPlaces DEF Redirect, GuardsRead, EntranceShape, AnonymousPaths, OpenPaths, Nowhere
      <4> QED
        BY <4>1, <4>2 DEF FewHops, NearlySettled
    <3>2. CASE hops = 1
      <4>1. NearlySettled /\ SentTo # Nowhere
        BY <3>2 DEF EntranceInv, FewHops, Redirect
      <4>2. SentTo = Main
        BY <1>2, <2>1, <4>1, KindsOfPlaces DEF NearlySettled, GuardsRead, EntranceShape, AnonymousPaths, OpenPaths
      <4>3. place' = Main /\ session' = "in" /\ hops' = 2
        BY <2>1, <3>2, <4>2 DEF Redirect
      <4>4. SentTo' = Nowhere
        BY <1>2, <1>3, <4>3 DEF GuardsRead
      <4> QED
        BY <4>3, <4>4 DEF FewHops
    <3>3. hops \in {0, 1, 2} /\ hops # 2
      BY DEF EntranceInv, EntranceShape, FewHops, Redirect
    <3> QED
      BY <3>1, <3>2, <3>3
  <2>2. CASE session # "in"
    <3>1. place' = "login" /\ session' # "in" /\ SentTo # Nowhere
      BY <1>2, <2>2 DEF GuardsRead, Redirect
    <3>2. SentTo' = Nowhere
      BY <1>2, <3>1, KindsOfPlaces DEF GuardsRead
    <3>3. hops \in {0, 1}
      BY <3>1, <2>2 DEF EntranceInv, EntranceShape, FewHops
    <3>4. hops' \in {1, 2}
      BY <3>3 DEF Redirect
    <3> QED
      BY <3>2, <3>4 DEF FewHops, NearlySettled
  <2> QED
    BY <2>1, <2>2
<1>5. MovesFit'
  BY DEF EntranceInv, MovesFit, Redirect
<1>6. OnTheWay'
  <2> SUFFICES ASSUME session = "in", due # Nowhere, \A m \in moves : m.late
               PROVE  place' = due \/ (place' = Main /\ due \notin Permitted)
    BY <1>3 DEF OnTheWay, Redirect
  <2>1. place' = SentTo /\ SentTo # Nowhere
    BY DEF Redirect
  <2>2. due \in Guarded
    BY <1>2 DEF EntranceShape
  <2>3. \/ place \in AnonymousPaths /\ from = due
        \/ place = due
        \/ place = Main /\ due \notin Permitted
    BY DEF EntranceInv, OnTheWay
  <2>4. CASE place \in AnonymousPaths /\ from = due
    BY <1>2, <2>1, <2>4 DEF GuardsRead
  <2>5. CASE place = due
    BY <1>2, <2>1, <2>2, <2>5 DEF GuardsRead
  <2>6. CASE place = Main /\ due \notin Permitted
    BY <1>2, <2>1, <2>6 DEF GuardsRead
  <2> QED
    BY <2>3, <2>4, <2>5, <2>6
<1> QED
  BY <1>1, <1>4, <1>5, <1>6 DEF EntranceInv

(* The steps that leave the guards, the way and the moves as they are.     *)
LEMMA StillKeeps ==
  ASSUME EntranceInv, UNCHANGED <<place, from, session, roles, role, moves, due, hops>>,
         origin' \in {origin, from}, call' = "idle" \/ UNCHANGED call \/ \A m \in moves : m.late
  PROVE  EntranceInv'
<1>1. SentTo' = SentTo /\ Permitted' = Permitted /\ Main' = Main
  BY GuardsUnchanged
<1>2. EntranceShape'
  BY DEF EntranceInv, EntranceShape
<1>3. FewHops' /\ MovesFit' /\ OnTheWay'
  BY <1>1 DEF EntranceInv, FewHops, NearlySettled, MovesFit, OnTheWay
<1> QED
  BY <1>2, <1>3 DEF EntranceInv

LEMMA FormKeeps ==
  ASSUME EntranceInv, SubmitForm \/ NotSignedIn \/ GiveUpCode
  PROVE  EntranceInv'
<1>1. CASE SubmitForm
  BY <1>1, StillKeeps DEF SubmitForm, Quiet
<1>2. CASE NotSignedIn
  BY <1>2, StillKeeps DEF NotSignedIn
<1>3. CASE GiveUpCode
  BY <1>3, StillKeeps DEF GiveUpCode
<1> QED
  BY <1>1, <1>2, <1>3

LEMMA RetryKeeps ==
  ASSUME EntranceInv, RetryEntry
  PROVE  EntranceInv'
<1>1. EntranceShape' /\ MovesFit' /\ OnTheWay'
  BY DEF EntranceInv, EntranceShape, MovesFit, OnTheWay, RetryEntry, Quiet
<1>2. GuardsRead /\ GuardsRead'
  BY <1>1, GuardsReadAs, GuardsReadNext DEF EntranceInv
<1>3. SentTo' = Nowhere
  BY <1>2 DEF GuardsRead, RetryEntry, Quiet, Nowhere
<1> QED
  BY <1>1, <1>3 DEF EntranceInv, FewHops, NearlySettled, RetryEntry

(* What begins a way anew and leads nowhere in particular. *)
LEMMA AnewKeeps ==
  ASSUME EntranceInv, EntranceShape', hops' = 0, due' = Nowhere,
         \A m \in moves' : m.late \/ (m \in moves /\ UNCHANGED call /\ session' \in {"in", "none"})
  PROVE  EntranceInv'
<1>1. FewHops' /\ OnTheWay'
  BY DEF FewHops, OnTheWay
<1>2. MovesFit'
  BY DEF EntranceInv, MovesFit
<1> QED
  BY <1>1, <1>2 DEF EntranceInv

LEMMA MovedKeeps ==
  ASSUME EntranceInv,
         (\E p \in Places : Go(p)) \/ ReloadTab \/ (\E r \in {"Member", "Trainer", "Creator", "Admin"} : ChooseRole(r)) \/ ClickSignOut
           \/ SentToVerify \/ Verified \/ LeftTab
  PROVE  EntranceInv'
<1>0. EntranceShape
  BY DEF EntranceInv
<1>1. ASSUME NEW p \in Places, Go(p) PROVE EntranceInv'
  <2>1. EntranceShape'
    BY <1>0, <1>1 DEF EntranceShape, Go, MoveTo
  <2>2. hops' = 0 /\ due' = Nowhere /\ moves' = moves /\ \A m \in moves : m.late
    BY <1>1 DEF Go, MoveTo, Quiet
  <2> QED
    BY <2>1, <2>2, AnewKeeps
<1>2. CASE ReloadTab
  <2>1. EntranceShape'
    BY <1>0, <1>2 DEF EntranceShape, ReloadTab, RoleSets
  <2> QED
    BY <1>2, <2>1, AnewKeeps DEF ReloadTab
<1>3. ASSUME NEW r \in {"Member", "Trainer", "Creator", "Admin"}, ChooseRole(r) PROVE EntranceInv'
  <2>1. EntranceShape'
    BY <1>0, <1>3 DEF EntranceShape, ChooseRole
  <2> QED
    BY <1>3, <2>1, AnewKeeps DEF ChooseRole, Quiet
<1>4. CASE ClickSignOut
  <2>1. EntranceShape'
    BY <1>0, <1>4, KindsOfPlaces DEF EntranceShape, ClickSignOut, MoveTo
  <2> QED
    BY <1>4, <2>1, AnewKeeps DEF ClickSignOut, MoveTo, Quiet
<1>5. CASE SentToVerify
  <2>1. EntranceShape'
    BY <1>0, <1>5, KindsOfPlaces DEF EntranceShape, SentToVerify, MoveTo
  <2>2. \A m \in moves : m.late
    BY <1>5 DEF EntranceInv, MovesFit, SentToVerify
  <2> QED
    BY <1>5, <2>1, <2>2, AnewKeeps DEF SentToVerify, MoveTo
<1>6. CASE Verified
  <2>1. moves' \subseteq [to : Places, late : BOOLEAN] /\ \A m \in moves' : m.late
    <3>1. \A m \in moves : m.late
      BY <1>6 DEF Verified, Quiet
    <3>2. [to |-> "home", late |-> TRUE] \in [to : Places, late : BOOLEAN]
          /\ [to |-> "login", late |-> TRUE] \in [to : Places, late : BOOLEAN]
      BY KindsOfPlaces
    <3>3. moves' = moves \cup {[to |-> "home", late |-> TRUE]} \/ moves' = moves \cup {[to |-> "login", late |-> TRUE]}
      BY <1>6 DEF Verified, Later
    <3>4. moves \subseteq [to : Places, late : BOOLEAN]
      BY <1>0 DEF EntranceShape
    <3> QED
      BY <3>1, <3>2, <3>3, <3>4
  <2>2. /\ roles' \in RoleSets /\ role' \in roles'
        /\ session' \in {"restoring", "unavailable", "none", "in"}
    BY <1>0, <1>6 DEF EntranceShape, Verified, TakeIdentity, Primary, RoleSets
  <2>3. /\ UNCHANGED <<place, from, origin>> /\ hops' = 0 /\ due' = Nowhere
    BY <1>6 DEF Verified
  <2>4. EntranceShape'
    BY <1>0, <2>1, <2>2, <2>3 DEF EntranceShape
  <2> QED
    BY <2>1, <2>3, <2>4, AnewKeeps
<1>7. CASE LeftTab
  <2>1. EntranceShape'
    BY <1>0, <1>7 DEF EntranceShape, LeftTab, RoleSets
  <2> QED
    BY <1>7, <2>1, AnewKeeps DEF LeftTab
<1> QED
  BY <1>1, <1>2, <1>3, <1>4, <1>5, <1>6, <1>7

LEMMA PrimaryIsGranted ==
  ASSUME NEW granted \in RoleSets
  PROVE  Primary(granted) \in granted /\ (Primary(granted) = "Admin" <=> "Admin" \in granted)
<1> QED
  BY DEF Primary, RoleSets

LEMMA RestoredKeeps ==
  ASSUME EntranceInv, EntryRestored \/ BeginAuthentication
  PROVE  EntranceInv'
<1>0. EntranceShape
  BY DEF EntranceInv
<1>1. CASE EntryRestored
  <2>1. \A m \in moves : m.late
    BY <1>1 DEF EntranceInv, MovesFit, EntryRestored
  <2>2. EntranceShape'
    BY <1>0, <1>1, PrimaryIsGranted DEF EntranceShape, EntryRestored, TakeIdentity
  <2>3. MovesFit' /\ FewHops'
    BY <1>1, <2>1 DEF MovesFit, FewHops, EntryRestored
  <2>4. OnTheWay'
    BY <1>1 DEF OnTheWay, EntryRestored, TakeIdentity
  <2> QED
    BY <2>2, <2>3, <2>4 DEF EntranceInv
<1>2. CASE BeginAuthentication
  <2>1. \A m \in moves : m.late
    BY <1>2 DEF EntranceInv, MovesFit, BeginAuthentication
  <2>2. EntranceShape'
    BY <1>0, <1>2 DEF EntranceShape, BeginAuthentication
  <2>3. MovesFit' /\ FewHops'
    BY <1>2, <2>1 DEF MovesFit, FewHops, BeginAuthentication
  <2>4. OnTheWay'
    BY <1>2 DEF EntranceInv, OnTheWay, BeginAuthentication, Permitted, Main
  <2> QED
    BY <2>2, <2>3, <2>4 DEF EntranceInv
<1> QED
  BY <1>1, <1>2

LEMMA SignedInKeeps ==
  ASSUME EntranceInv, NEW granted \in RoleSets, SignedIn(granted)
  PROVE  EntranceInv'
<1>0. EntranceShape
  BY DEF EntranceInv
<1>1. \A m \in moves : m.late
  BY DEF EntranceInv, MovesFit, SignedIn
<1>2. MainPage("Admin" \in granted) \in Guarded
  BY KindsOfPlaces DEF MainPage
<1> DEFINE arrival == [to |-> IntendedPath(origin, MainPage("Admin" \in granted)), late |-> FALSE]
<1>3. arrival \in [to : Places, late : BOOLEAN] /\ (origin # Nowhere => arrival.to = origin) /\ ~arrival.late
  BY <1>0, <1>2, KindsOfPlaces DEF IntendedPath, EntranceShape
<1> HIDE DEF arrival
<1>4. \/ moves' = moves \cup {arrival}
      \/ moves' = moves /\ place \in AnonymousPaths /\ from = origin
  BY DEF SignedIn, Later, arrival
<1>5. /\ UNCHANGED <<place, from, origin>> /\ hops' = 0 /\ due' = origin /\ call' = "idle"
      /\ session' = "in" /\ roles' = granted /\ role' \in granted
  BY PrimaryIsGranted DEF SignedIn, TakeIdentity
<1>6. EntranceShape'
  BY <1>0, <1>3, <1>4, <1>5 DEF EntranceShape
<1>7. MovesFit' /\ FewHops'
  BY <1>1, <1>3, <1>4, <1>5 DEF MovesFit, FewHops
<1>8. OnTheWay'
  BY <1>3, <1>4, <1>5 DEF OnTheWay
<1> QED
  BY <1>6, <1>7, <1>8 DEF EntranceInv

LEMMA ArriveKeeps ==
  ASSUME EntranceInv, Arrive
  PROVE  EntranceInv'
<1>0. EntranceShape
  BY DEF EntranceInv
<1> PICK m \in moves : moves' = moves \ {m} /\ MoveTo(m.to) /\ due' = IF m.late THEN Nowhere ELSE due
  BY DEF Arrive
<1>1. m.to \in Places /\ UNCHANGED <<session, roles, role, call, origin>>
  BY <1>0 DEF EntranceShape, Arrive
<1>2. place' = m.to /\ from' = Nowhere /\ hops' = 0
  BY DEF MoveTo
<1>3. EntranceShape'
  BY <1>0, <1>1, <1>2 DEF EntranceShape
<1>4. MovesFit' /\ FewHops'
  BY <1>1, <1>2 DEF EntranceInv, MovesFit, FewHops
<1>5. OnTheWay'
  BY <1>1, <1>2 DEF EntranceInv, MovesFit, OnTheWay
<1> QED
  BY <1>3, <1>4, <1>5 DEF EntranceInv

LEMMA EntranceStutters ==
  ASSUME EntranceInv, UNCHANGED entranceVars
  PROVE  EntranceInv'
<1> QED
  BY StillKeeps DEF entranceVars

LEMMA EntranceSteps == EntranceInv /\ [EntranceNext]_entranceVars => EntranceInv'
<1> SUFFICES ASSUME EntranceInv, [EntranceNext]_entranceVars PROVE EntranceInv'
  OBVIOUS
<1>1. CASE Redirect
  BY <1>1, RedirectKeeps
<1>2. CASE SubmitForm \/ NotSignedIn \/ GiveUpCode
  BY <1>2, FormKeeps
<1>3. CASE RetryEntry
  BY <1>3, RetryKeeps
<1>4. CASE (\E p \in Places : Go(p)) \/ ReloadTab \/ (\E r \in {"Member", "Trainer", "Creator", "Admin"} : ChooseRole(r))
             \/ ClickSignOut \/ SentToVerify \/ Verified \/ LeftTab
  BY <1>4, MovedKeeps
<1>5. CASE EntryRestored \/ BeginAuthentication
  BY <1>5, RestoredKeeps
<1>6. CASE \E granted \in RoleSets : SignedIn(granted)
  BY <1>6, SignedInKeeps
<1>7. CASE Arrive
  BY <1>7, ArriveKeeps
<1>8. CASE UNCHANGED entranceVars
  BY <1>8, EntranceStutters
<1> QED
  BY <1>1, <1>2, <1>3, <1>4, <1>5, <1>6, <1>7, <1>8 DEF EntranceNext

(* However guards, forms, codes, restorations and departures follow each other, *)
(* the guards send a tab on at most twice, it rests only on a page that its      *)
(* session may have, and a sign-in leads to the page that stopped the visitor or *)
(* to the main page of one who may not have it (App.jsx:55-106,                   *)
(* AuthPages.jsx:55-112).                                                         *)
THEOREM EntranceAlwaysLeads == EntranceSpec => []EntranceLeads
<1>1. EntranceInit => EntranceInv
  BY EntranceInitHolds
<1>2. EntranceInv /\ [EntranceNext]_entranceVars => EntranceInv'
  BY EntranceSteps
<1>3. EntranceInv => EntranceLeads
  BY SettledEntrance
<1> QED
  BY <1>1, <1>2, <1>3, PTL DEF EntranceSpec

-----------------------------------------------------------------------------
(* Passwords: what counting up proves about the scans.                      *)

LEMMA LeastNumber ==
  ASSUME NEW S \in SUBSET Nat, S # {}
  PROVE  \E n \in S : \A m \in S : n <= m
<1>1. IsWellFoundedOn(OpToRel(<, Nat), Nat)
  BY NatLessThanWellFounded
<1>2. PICK n \in S : \A m \in Nat : <<m, n>> \in OpToRel(<, Nat) => m \notin S
  BY <1>1, WFMin
<1>3. \A m \in S : ~(m < n)
  BY <1>2 DEF OpToRel
<1> QED
  BY <1>3

LEMMA GreatestNumber ==
  ASSUME NEW top \in Nat, NEW S \in SUBSET (0..top), S # {}
  PROVE  \E n \in S : \A i \in S : i <= n
<1>1. PICK short : short = {top - i : i \in S}
  OBVIOUS
<1>2. short \in SUBSET Nat /\ short # {}
  <2>1. \A i \in S : top - i \in Nat
    OBVIOUS
  <2>2. PICK i \in S : TRUE
    OBVIOUS
  <2>3. top - i \in short
    BY <1>1
  <2> QED
    BY <1>1, <2>1, <2>3
<1>3. PICK d \in short : \A e \in short : d <= e
  BY <1>2, LeastNumber
<1>4. PICK n \in S : d = top - n
  BY <1>1
<1>5. ASSUME NEW i \in S PROVE i <= n
  <2>1. d <= top - i
    BY <1>1, <1>3
  <2> QED
    BY <1>4, <2>1
<1> QED
  BY <1>5

LEMMA CountUp ==
  ASSUME NEW k \in Nat, NEW P, 0 \in P, \A n \in 1..k : n - 1 \in P => n \in P
  PROVE  \A n \in 0..k : n \in P
<1> SUFFICES ASSUME NEW x \in 0..k, x \notin P PROVE FALSE
  OBVIOUS
<1>1. PICK S : S = {n \in 0..k : n \notin P}
  OBVIOUS
<1>2. S \in SUBSET Nat /\ S # {}
  BY <1>1
<1>3. PICK n \in S : \A m \in S : n <= m
  BY <1>2, LeastNumber
<1>4. n \in 1..k /\ n - 1 \in 0..k /\ ~(n <= n - 1)
  BY <1>1, <1>3
<1>5. n - 1 \in P
  BY <1>1, <1>3, <1>4
<1> QED
  BY <1>1, <1>3, <1>4, <1>5

(* A row that starts with a value, and goes on by a step from each to the next. *)
Row(k, T, z, G, f) == f \in [0..k -> T] /\ f[0] = z /\ \A n \in 1..k : f[n] = G[n][f[n - 1]]

LEMMA RowExists ==
  ASSUME NEW k \in Nat, NEW T, NEW z \in T, NEW G \in [1..k -> [T -> T]]
  PROVE  \E f : Row(k, T, z, G, f)
<1>1. PICK P : P = {m \in 0..k : \E f : Row(m, T, z, G, f)}
  OBVIOUS
<1>2. 0 \in P
  <2>1. PICK f : f = [n \in 0..0 |-> z]
    OBVIOUS
  <2>2. f \in [0..0 -> T] /\ f[0] = z
    BY <2>1
  <2>3. \A n \in 1..0 : FALSE
    OBVIOUS
  <2>4. Row(0, T, z, G, f)
    BY <2>2, <2>3 DEF Row
  <2>5. 0 \in 0..k
    OBVIOUS
  <2> QED
    BY <1>1, <2>4, <2>5
<1>3. ASSUME NEW m \in 1..k, m - 1 \in P PROVE m \in P
  <2>0. m \in 0..k /\ m - 1 \in 0..(m - 1) /\ m \in Nat
    OBVIOUS
  <2>1. PICK f : Row(m - 1, T, z, G, f)
    BY <1>1, <1>3
  <2>2. f \in [0..(m - 1) -> T] /\ f[0] = z /\ \A n \in 1..(m - 1) : f[n] = G[n][f[n - 1]]
    BY <2>1 DEF Row
  <2>3. PICK t \in T : t = G[m][f[m - 1]]
    <3>1. f[m - 1] \in T /\ G[m] \in [T -> T]
      BY <2>0, <2>2
    <3> QED
      BY <3>1
  <2>4. PICK g : g = [n \in 0..m |-> IF n = m THEN t ELSE f[n]]
    OBVIOUS
  <2>5. g \in [0..m -> T]
    <3>1. ASSUME NEW n \in 0..m PROVE (IF n = m THEN t ELSE f[n]) \in T
      <4>1. n # m => n \in 0..(m - 1)
        BY <2>0
      <4> QED
        BY <2>2, <4>1
    <3> QED
      BY <2>4, <3>1
  <2>6. g[0] = z
    <3>1. 0 \in 0..m /\ 0 # m
      BY <2>0
    <3> QED
      BY <2>2, <2>4, <3>1
  <2>7. ASSUME NEW n \in 1..m PROVE g[n] = G[n][g[n - 1]]
    <3>0. n \in 0..m /\ n - 1 \in 0..m /\ n - 1 # m
      BY <2>0
    <3>1. g[n - 1] = f[n - 1]
      BY <2>4, <3>0
    <3>2. CASE n # m
      <4>1. g[n] = f[n] /\ n \in 1..(m - 1)
        BY <2>0, <2>4, <3>0, <3>2
      <4> QED
        BY <2>2, <3>1, <4>1
    <3>3. CASE n = m
      BY <2>3, <2>4, <3>0, <3>1, <3>3
    <3> QED
      BY <3>2, <3>3
  <2>8. Row(m, T, z, G, g)
    BY <2>5, <2>6, <2>7 DEF Row
  <2> QED
    BY <1>1, <2>0, <2>8
<1>4. k \in P
  <2>1. k \in 0..k
    OBVIOUS
  <2> QED
    BY <1>2, <1>3, <2>1, CountUp
<1> QED
  BY <1>1, <1>4

-----------------------------------------------------------------------------
(* What the conversions return *)

(* What is left of the characters once they are normalised and in lower case. *)
FoldedChars == Letters \cup {Digit, Symbol}

(* A row of texts, each the one before and what a character adds. *)
Grows(k, piece, out) ==
  DOMAIN out = 0..k /\ out[0] = <<>> /\ \A n \in 1..k : out[n] = out[n - 1] \o piece[n]

LEMMA GrowingExists ==
  ASSUME NEW C, NEW k \in Nat, NEW piece \in [1..k -> Seq(C)]
  PROVE  \E out : Grows(k, piece, out)
<1>1. PICK G : G = [n \in 1..k |-> [t \in Seq(C) |-> t \o piece[n]]]
  OBVIOUS
<1>2. G \in [1..k -> [Seq(C) -> Seq(C)]]
  <2>1. ASSUME NEW n \in 1..k PROVE [t \in Seq(C) |-> t \o piece[n]] \in [Seq(C) -> Seq(C)]
    <3>1. piece[n] \in Seq(C)
      OBVIOUS
    <3> QED
      BY <3>1
  <2> QED
    BY <1>1, <2>1
<1>3. <<>> \in Seq(C)
  OBVIOUS
<1>4. PICK f : Row(k, Seq(C), <<>>, G, f)
  BY <1>2, <1>3, RowExists
<1>5. ASSUME NEW n \in 1..k PROVE f[n] = f[n - 1] \o piece[n]
  <2>1. n - 1 \in 0..k
    OBVIOUS
  <2>2. f[n - 1] \in Seq(C) /\ f[n] = G[n][f[n - 1]]
    BY <1>4, <2>1 DEF Row
  <2>3. G[n] = [t \in Seq(C) |-> t \o piece[n]]
    BY <1>1
  <2> QED
    BY <2>2, <2>3
<1> QED
  BY <1>4, <1>5 DEF Row, Grows

LEMMA GrowingTyped ==
  ASSUME NEW C, NEW k \in Nat, NEW piece \in [1..k -> Seq(C)], NEW out, Grows(k, piece, out)
  PROVE  \A n \in 0..k : out[n] \in Seq(C)
<1>1. PICK P : P = {n \in 0..k : out[n] \in Seq(C)}
  OBVIOUS
<1>2. 0 \in P
  <2>1. <<>> \in Seq(C) /\ 0 \in 0..k
    OBVIOUS
  <2> QED
    BY <1>1, <2>1 DEF Grows
<1>3. ASSUME NEW n \in 1..k, n - 1 \in P PROVE n \in P
  <2>0. n \in 0..k /\ piece[n] \in Seq(C) /\ out[n - 1] \in Seq(C)
    BY <1>1, <1>3
  <2>1. out[n] = out[n - 1] \o piece[n]
    BY ONLY <1>3, Grows(k, piece, out) DEF Grows
  <2>2. out[n - 1] \o piece[n] \in Seq(C)
    BY <2>0
  <2> QED
    BY <1>1, <2>0, <2>1, <2>2
<1>4. \A n \in 0..k : n \in P
  BY <1>2, <1>3, CountUp
<1> QED
  BY <1>1, <1>4

Unfolds(k, piece, out) == out = [n \in 0..k |-> IF n = 0 THEN <<>> ELSE out[n - 1] \o piece[n]]

LEMMA GrowthIs ==
  ASSUME NEW k \in Nat, NEW piece, NEW out
  PROVE  Grows(k, piece, out) <=> Unfolds(k, piece, out)
<1>1. ASSUME Grows(k, piece, out)
      PROVE  out = [n \in 0..k |-> IF n = 0 THEN <<>> ELSE out[n - 1] \o piece[n]]
  <2>1. ASSUME NEW n \in 0..k PROVE out[n] = IF n = 0 THEN <<>> ELSE out[n - 1] \o piece[n]
    <3>1. n = 0 \/ n \in 1..k
      OBVIOUS
    <3> QED
      BY <1>1, <3>1 DEF Grows
  <2>2. PICK g : g = [n \in 0..k |-> IF n = 0 THEN <<>> ELSE out[n - 1] \o piece[n]]
    OBVIOUS
  <2> QED
    BY <1>1, <2>1 DEF Grows
<1>2. ASSUME out = [n \in 0..k |-> IF n = 0 THEN <<>> ELSE out[n - 1] \o piece[n]]
      PROVE  Grows(k, piece, out)
  <2>1. DOMAIN out = 0..k /\ \A n \in 0..k : out[n] = IF n = 0 THEN <<>> ELSE out[n - 1] \o piece[n]
    BY <1>2
  <2>2. \A n \in 1..k : n \in 0..k /\ n # 0
    OBVIOUS
  <2>3. 0 \in 0..k
    OBVIOUS
  <2> QED
    BY <2>1, <2>2, <2>3 DEF Grows
<1> QED
  BY <1>1, <1>2 DEF Unfolds

NormalPieces(s) == [n \in 1..Len(s) |-> IF s[n] = Ligature THEN <<1, 2>> ELSE <<s[n]>>]
BarePieces(s) == [n \in 1..Len(s) |-> IF s[n] \in Alphanumeric THEN <<s[n]>> ELSE <<>>]

LEMMA NormaliseIs ==
  ASSUME NEW s \in Seq(Characters)
  PROVE  Normalise(s) \in Seq(FoldedChars \cup {Capital})
<1>1. PICK k \in Nat : k = Len(s) /\ \A n \in 1..k : s[n] \in Characters
  OBVIOUS
<1>2. PICK piece : piece = NormalPieces(s) /\ DOMAIN piece = 1..k
                   /\ \A n \in 1..k : piece[n] = IF s[n] = Ligature THEN <<1, 2>> ELSE <<s[n]>>
  <2>1. NormalPieces(s) = [n \in 1..k |-> IF s[n] = Ligature THEN <<1, 2>> ELSE <<s[n]>>]
    BY <1>1 DEF NormalPieces
  <2> QED
    BY ONLY <2>1
<1>3. piece \in [1..k -> Seq(FoldedChars \cup {Capital})]
  <2>1. ASSUME NEW n \in 1..k PROVE piece[n] \in Seq(FoldedChars \cup {Capital})
    <3>1. s[n] # Ligature => s[n] \in FoldedChars \cup {Capital}
      BY <1>1 DEF Characters, FoldedChars
    <3>2. 1 \in FoldedChars \cup {Capital} /\ 2 \in FoldedChars \cup {Capital}
      BY DEF FoldedChars, Letters
    <3>3. CASE s[n] = Ligature
      <4>1. piece[n] = <<1, 2>>
        BY <1>2, <3>3
      <4> QED
        BY <3>2, <4>1
    <3>4. CASE s[n] # Ligature
      <4>1. piece[n] = <<s[n]>>
        BY <1>2, <3>4
      <4> QED
        BY <3>1, <3>4, <4>1
    <3> QED
      BY <3>3, <3>4
  <2>2. piece = [n \in 1..k |-> piece[n]]
    BY <1>1, <1>2 DEF NormalPieces
  <2> QED
    BY <2>1, <2>2
<1> DEFINE Is(out) == out = [n \in 0..k |->
                        IF n = 0 THEN <<>> ELSE out[n - 1] \o (IF s[n] = Ligature THEN <<1, 2>> ELSE <<s[n]>>)]
<1>4. ASSUME NEW out PROVE Is(out) <=> Grows(k, piece, out)
  <2>1. [n \in 0..k |-> IF n = 0 THEN <<>> ELSE out[n - 1] \o (IF s[n] = Ligature THEN <<1, 2>> ELSE <<s[n]>>)]
          = [n \in 0..k |-> IF n = 0 THEN <<>> ELSE out[n - 1] \o piece[n]]
    <3>1. \A n \in 0..k : n = 0 \/ n \in 1..k
      OBVIOUS
    <3> QED
      BY <1>2, <3>1
  <2>2. Grows(k, piece, out) <=> Unfolds(k, piece, out)
    BY ONLY GrowthIs, k \in Nat
  <2> QED
    BY ONLY <2>1, <2>2 DEF Unfolds
<1>5. \E out : Is(out)
  <2>1. PICK out : Grows(k, piece, out)
    BY <1>3, GrowingExists
  <2> QED
    BY <1>4, <2>1
<1>6. PICK h : h = CHOOSE out : Is(out)
  OBVIOUS
<1>7. Is(h) /\ Normalise(s) = h[k]
  BY ZenonT(60), <1>1, <1>5, <1>6 DEF Normalise
<1>8. Grows(k, piece, h)
  BY <1>4, <1>7
<1>9. h[k] \in Seq(FoldedChars \cup {Capital})
  <2>1. k \in 0..k
    OBVIOUS
  <2> HIDE DEF Is
  <2> QED
    BY <1>3, <1>8, <2>1, GrowingTyped
<1> QED
  BY <1>7, <1>9

LEMMA FoldedIs ==
  ASSUME NEW s \in Seq(Characters)
  PROVE  Folded(s) \in Seq(FoldedChars) /\ Len(Normalise(s)) \in Nat
<1>1. PICK t \in Seq(FoldedChars \cup {Capital}) : t = Normalise(s)
  BY NormaliseIs
<1>2. PICK k \in Nat : k = Len(t) /\ DOMAIN t = 1..k /\ \A n \in 1..k : t[n] \in FoldedChars \cup {Capital}
  OBVIOUS
<1>3. Lower(t) \in [1..k -> FoldedChars]
  BY <1>2 DEF Lower, FoldedChars, Letters
<1> QED
  BY <1>1, <1>2, <1>3 DEF Folded

LEMMA BareIs ==
  ASSUME NEW s \in Seq(FoldedChars)
  PROVE  \E out : /\ Bare(s) = out[Len(s)] /\ Grows(Len(s), BarePieces(s), out)
                  /\ \A n \in 0..Len(s) : out[n] \in Seq(FoldedChars)
<1>1. PICK k \in Nat : k = Len(s) /\ \A n \in 1..k : s[n] \in FoldedChars
  OBVIOUS
<1>2. PICK piece : piece = BarePieces(s) /\ DOMAIN piece = 1..k
                   /\ \A n \in 1..k : piece[n] = IF s[n] \in Alphanumeric THEN <<s[n]>> ELSE <<>>
  <2>1. BarePieces(s) = [n \in 1..k |-> IF s[n] \in Alphanumeric THEN <<s[n]>> ELSE <<>>]
    BY <1>1 DEF BarePieces
  <2> QED
    BY ONLY <2>1
<1>3. piece \in [1..k -> Seq(FoldedChars)]
  <2>1. ASSUME NEW n \in 1..k PROVE piece[n] \in Seq(FoldedChars)
    <3>1. CASE s[n] \in Alphanumeric
      <4>1. piece[n] = <<s[n]>>
        BY <1>2, <3>1
      <4> QED
        BY <1>1, <4>1
    <3>2. CASE s[n] \notin Alphanumeric
      <4>1. piece[n] = <<>>
        BY <1>2, <3>2
      <4> QED
        BY <4>1
    <3> QED
      BY <3>1, <3>2
  <2>2. piece = [n \in 1..k |-> piece[n]]
    BY <1>1, <1>2 DEF BarePieces
  <2> QED
    BY <2>1, <2>2
<1> DEFINE Is(out) == out = [n \in 0..k |->
                        IF n = 0 THEN <<>> ELSE out[n - 1] \o (IF s[n] \in Alphanumeric THEN <<s[n]>> ELSE <<>>)]
<1>4. ASSUME NEW out PROVE Is(out) <=> Grows(k, piece, out)
  <2>1. [n \in 0..k |-> IF n = 0 THEN <<>> ELSE out[n - 1] \o (IF s[n] \in Alphanumeric THEN <<s[n]>> ELSE <<>>)]
          = [n \in 0..k |-> IF n = 0 THEN <<>> ELSE out[n - 1] \o piece[n]]
    <3>1. \A n \in 0..k : n = 0 \/ n \in 1..k
      OBVIOUS
    <3> QED
      BY <1>2, <3>1
  <2>2. Grows(k, piece, out) <=> Unfolds(k, piece, out)
    BY ONLY GrowthIs, k \in Nat
  <2> QED
    BY ONLY <2>1, <2>2 DEF Unfolds
<1>5. \E out : Is(out)
  <2>1. PICK out : Grows(k, piece, out)
    BY <1>3, GrowingExists
  <2> QED
    BY <1>4, <2>1
<1>6. PICK h : h = CHOOSE out : Is(out)
  OBVIOUS
<1>7. Is(h) /\ Bare(s) = h[k]
  BY ZenonT(60), <1>1, <1>5, <1>6 DEF Bare
<1>8. Grows(k, piece, h)
  BY <1>4, <1>7
<1>9. \A n \in 0..k : h[n] \in Seq(FoldedChars)
  <2> HIDE DEF Is
  <2> QED
    BY <1>3, <1>8, GrowingTyped
<1> QED
  BY <1>1, <1>2, <1>7, <1>8, <1>9

(* Nothing is left out of letters and digits. *)
LEMMA BareOfBare ==
  ASSUME NEW s \in Seq(Alphanumeric)
  PROVE  Bare(s) = s
<1>1. s \in Seq(FoldedChars) /\ Len(s) \in Nat /\ \A n \in 1..Len(s) : s[n] \in Alphanumeric
  BY DEF FoldedChars, Alphanumeric
<1>2. PICK out : /\ Bare(s) = out[Len(s)] /\ Grows(Len(s), BarePieces(s), out)
                 /\ \A n \in 0..Len(s) : out[n] \in Seq(FoldedChars)
  BY <1>1, BareIs
<1>3. PICK P : P = {n \in 0..Len(s) : Len(out[n]) = n /\ \A i \in 1..n : out[n][i] = s[i]}
  OBVIOUS
<1>4. 0 \in P
  BY <1>1, <1>2, <1>3 DEF Grows
<1>5. ASSUME NEW n \in 1..Len(s), n - 1 \in P PROVE n \in P
  <2>1. PICK t \in Seq(FoldedChars) : t = out[n - 1] /\ Len(t) = n - 1 /\ \A i \in 1..(n - 1) : t[i] = s[i]
    BY <1>1, <1>2, <1>3, <1>5
  <2>2. out[n] = t \o <<s[n]>>
    BY <1>1, <1>2, <2>1 DEF Grows, BarePieces
  <2>3. Len(out[n]) = n
    BY <1>1, <2>1, <2>2
  <2>4. ASSUME NEW i \in 1..n PROVE out[n][i] = s[i]
    <3>1. CASE i = n
      <4>1. Len(t) + 1 = n /\ n \in Nat
        BY <1>1, <1>5, <2>1
      <4>2. (t \o <<s[n]>>)[Len(t) + 1] = s[n]
        <5>1. ASSUME NEW S, NEW u \in Seq(S), NEW e PROVE (u \o <<e>>)[Len(u) + 1] = e
          OBVIOUS
        <5> QED
          BY <2>1, <5>1
      <4> QED
        BY <2>2, <3>1, <4>1, <4>2
    <3>2. CASE i # n
      <4>1. i \in 1..(n - 1)
        BY <1>1, <3>2
      <4> QED
        BY <1>1, <2>1, <2>2, <4>1
    <3> QED
      BY <3>1, <3>2
  <2> QED
    BY <1>1, <1>3, <2>3, <2>4
<1>6. \A n \in 0..Len(s) : n \in P
  BY <1>1, <1>4, <1>5, CountUp
<1>7. Len(s) \in 0..Len(s)
  BY <1>1
<1>8. PICK t \in Seq(FoldedChars) : t = Bare(s) /\ Len(t) = Len(s) /\ \A i \in 1..Len(s) : t[i] = s[i]
  BY <1>2, <1>3, <1>6, <1>7
<1> QED
  BY <1>1, <1>8

-----------------------------------------------------------------------------
(* The scans find every run. *)

LEMMA RunsIs ==
  ASSUME NEW s \in Seq(Int), NEW step \in Int
  PROVE  /\ Runs(s, step) \in [0..Len(s) -> Nat]
         /\ \A n \in 1..Len(s) :
              Runs(s, step)[n] = IF n > 1 /\ s[n] - s[n - 1] = step THEN Runs(s, step)[n - 1] + 1 ELSE 1
         /\ \A n \in 0..Len(s) : Runs(s, step)[n] <= n
<1>1. PICK k \in Nat : k = Len(s)
  OBVIOUS
<1>2. PICK G : G = [n \in 1..k |-> [x \in Nat |-> IF n > 1 /\ s[n] - s[n - 1] = step THEN x + 1 ELSE 1]]
  OBVIOUS
<1>3. G \in [1..k -> [Nat -> Nat]]
  BY <1>2
<1>4. PICK f : Row(k, Nat, 0, G, f)
  BY <1>3, RowExists
<1> DEFINE Is(out) == out = [n \in 0..k |->
                        IF n = 0 THEN 0 ELSE IF n > 1 /\ s[n] - s[n - 1] = step THEN out[n - 1] + 1 ELSE 1]
<1>5. Is(f)
  <2>1. f \in [0..k -> Nat] /\ f[0] = 0 /\ \A n \in 1..k : f[n] = G[n][f[n - 1]]
    BY <1>4 DEF Row
  <2>2. ASSUME NEW n \in 1..k
        PROVE  f[n] = IF n > 1 /\ s[n] - s[n - 1] = step THEN f[n - 1] + 1 ELSE 1
    <3>1. n - 1 \in 0..k
      OBVIOUS
    <3>2. f[n - 1] \in Nat
      BY <2>1, <3>1
    <3>3. G[n] = [x \in Nat |-> IF n > 1 /\ s[n] - s[n - 1] = step THEN x + 1 ELSE 1]
      BY <1>2
    <3> QED
      BY <2>1, <3>2, <3>3
  <2>3. \A n \in 0..k : f[n] = IF n = 0 THEN 0 ELSE IF n > 1 /\ s[n] - s[n - 1] = step THEN f[n - 1] + 1 ELSE 1
    <3>1. \A n \in 0..k : n = 0 \/ n \in 1..k
      OBVIOUS
    <3> QED
      BY <2>1, <2>2, <3>1
  <2> QED
    BY <2>1, <2>3
<1>6. PICK r : r = CHOOSE out : Is(out)
  OBVIOUS
<1>7. Is(r) /\ Runs(s, step) = r
  BY <1>1, <1>5, <1>6 DEF Runs
<1>8. /\ DOMAIN r = 0..k /\ r[0] = 0
      /\ \A n \in 1..k : r[n] = IF n > 1 /\ s[n] - s[n - 1] = step THEN r[n - 1] + 1 ELSE 1
  <2>1. \A n \in 1..k : n \in 0..k /\ n # 0
    OBVIOUS
  <2>2. 0 \in 0..k
    OBVIOUS
  <2> QED
    BY <1>7, <2>1, <2>2
<1> HIDE DEF Is
<1>9. PICK P : P = {n \in 0..k : r[n] \in Nat /\ r[n] <= n}
  OBVIOUS
<1>10. 0 \in P
  BY <1>8, <1>9
<1>11. ASSUME NEW n \in 1..k, n - 1 \in P PROVE n \in P
  <2>1. r[n - 1] \in Nat /\ r[n - 1] <= n - 1 /\ n \in Nat \ {0} /\ n \in 0..k
    BY <1>9, <1>11
  <2>2. r[n] = r[n - 1] + 1 \/ r[n] = 1
    BY <1>8
  <2> QED
    BY <1>9, <2>1, <2>2
<1>12. \A n \in 0..k : r[n] \in Nat /\ r[n] <= n
  BY <1>9, <1>10, <1>11, CountUp
<1>13. r \in [0..k -> Nat]
  <2>1. r = [n \in 0..k |-> r[n]]
    BY <1>7 DEF Is
  <2> QED
    BY <1>12, <2>1
<1> QED
  BY <1>1, <1>7, <1>8, <1>12, <1>13

LEMMA LongestRunIs ==
  ASSUME NEW s \in Seq(Int), NEW step \in Int
  PROVE  LongestRun(s, step) \in Nat /\ \A n \in 0..Len(s) : Runs(s, step)[n] <= LongestRun(s, step)
<1>1. PICK k \in Nat : k = Len(s)
  OBVIOUS
<1>2. PICK r \in [0..k -> Nat] : r = Runs(s, step) /\ \A n \in 0..k : r[n] <= n
  BY <1>1, RunsIs
<1>3. PICK S : S = {r[n] : n \in 0..k}
  OBVIOUS
<1>4. S \in SUBSET (0..k)
  <2>1. ASSUME NEW n \in 0..k PROVE r[n] \in 0..k
    BY <1>2
  <2> QED
    BY <1>3, <2>1
<1>5. r[0] \in S
  BY <1>3
<1>6. PICK m \in S : \A i \in S : i <= m
  BY <1>4, <1>5, GreatestNumber
<1> DEFINE Top(n) == (\E i \in DOMAIN r : r[i] = n) /\ \A i \in DOMAIN r : r[i] <= n
<1>7. m \in 0..k /\ Top(m)
  <2>1. m \in 0..k /\ \E i \in 0..k : r[i] = m
    BY <1>3, <1>4
  <2>2. \A i \in 0..k : r[i] <= m
    BY <1>3, <1>6
  <2> QED
    BY <2>1, <2>2
<1>8. LongestRun(s, step) = CHOOSE n \in 0..k : Top(n)
  BY <1>1, <1>2 DEF LongestRun
<1>9. LongestRun(s, step) \in 0..k /\ Top(LongestRun(s, step))
  <2> HIDE DEF Top
  <2> QED
    BY <1>7, <1>8
<1> QED
  BY <1>1, <1>2, <1>9

LEMMA RunFound ==
  ASSUME NEW s \in Seq(Int), NEW step \in Int, NEW n \in Nat, RunOf(s, n, step)
  PROVE  LongestRun(s, step) >= n
<1>0. LongestRun(s, step) \in Nat
  BY LongestRunIs
<1>1. CASE n = 0
  BY <1>0, <1>1
<1>2. CASE n # 0
  <2>1. PICK k \in Nat : k = Len(s)
    OBVIOUS
  <2>2. PICK i \in 1..(k - n + 1) : \A j \in i..(i + n - 2) : s[j + 1] - s[j] = step
    BY <2>1 DEF RunOf
  <2>3. PICK r \in [0..k -> Nat] :
          /\ r = Runs(s, step)
          /\ \A m \in 1..k : r[m] = IF m > 1 /\ s[m] - s[m - 1] = step THEN r[m - 1] + 1 ELSE 1
    <3>1. PICK r : r = Runs(s, step)
      OBVIOUS
    <3>2. r \in [0..k -> Nat]
      BY <2>1, <3>1, RunsIs
    <3>3. \A m \in 1..k : r[m] = IF m > 1 /\ s[m] - s[m - 1] = step THEN r[m - 1] + 1 ELSE 1
      BY <2>1, <3>1, RunsIs
    <3> QED
      BY <3>1, <3>2, <3>3
  <2>4. PICK P : P = {x \in 0..(n - 1) : r[i + x] >= x + 1}
    OBVIOUS
  <2>5. 0 \in P
    <3>1. i \in 1..k /\ i - 1 \in 0..k /\ i + 0 = i /\ 0 \in 0..(n - 1)
      BY <1>2
    <3>2. r[i - 1] \in Nat /\ (r[i] = r[i - 1] + 1 \/ r[i] = 1)
      BY <2>3, <3>1
    <3> QED
      BY <2>4, <3>1, <3>2
  <2>6. ASSUME NEW x \in 1..(n - 1), x - 1 \in P PROVE x \in P
    <3>1. PICK m \in 1..k : m = i + x /\ m > 1 /\ m - 1 = i + (x - 1) /\ m - 1 \in i..(i + n - 2) /\ m - 1 \in 0..k
      OBVIOUS
    <3>2. s[m] - s[m - 1] = step
      <4>1. (m - 1) + 1 = m
        OBVIOUS
      <4> QED
        BY <2>2, <3>1, <4>1
    <3>3. r[m] = r[m - 1] + 1
      BY <2>3, <3>1, <3>2
    <3>4. r[m - 1] >= x /\ r[m - 1] \in Nat
      <4>1. r[i + (x - 1)] >= (x - 1) + 1
        BY <2>4, <2>6
      <4> QED
        BY <3>1, <4>1
    <3> QED
      BY <2>4, <3>1, <3>3, <3>4
  <2>7. n - 1 \in Nat /\ n - 1 \in 0..(n - 1)
    BY <1>2
  <2>8. n - 1 \in P
    BY <2>5, <2>6, <2>7, CountUp
  <2>9. r[i + (n - 1)] >= n /\ i + (n - 1) \in 0..k
    BY <2>4, <2>7, <2>8
  <2>10. r[i + (n - 1)] <= LongestRun(s, step) /\ r[i + (n - 1)] \in Nat
    BY <2>1, <2>3, <2>9, LongestRunIs
  <2> QED
    BY <1>0, <2>9, <2>10
<1> QED
  BY <1>1, <1>2

LEMMA FoldedCharsAreNumbers ==
  /\ FoldedChars \subseteq Int
  /\ \A s : s \in Seq(FoldedChars) => s \in Seq(Int)
<1>1. FoldedChars \subseteq Int
  BY DEF FoldedChars, Letters, Digit, Symbol
<1>2. ASSUME NEW s \in Seq(FoldedChars) PROVE s \in Seq(Int)
  <2>1. Len(s) \in Nat /\ s = [n \in 1..Len(s) |-> s[n]] /\ \A n \in 1..Len(s) : s[n] \in Int
    BY <1>1
  <2>2. s \in [1..Len(s) -> Int]
    BY <2>1
  <2> QED
    BY <2>1, <2>2
<1> QED
  BY <1>1, <1>2

LEMMA ObviousIsFound ==
  ASSUME NEW s \in Seq(FoldedChars), Obvious(s)
  PROVE  LongestRepeat(s) >= RepeatLimit \/ LongestSequence(s) >= SequenceLimit
<1>1. s \in Seq(Int) /\ RepeatLimit \in Nat /\ SequenceLimit \in Nat /\ -1 \in Int
  BY FoldedCharsAreNumbers, PasswordAssumption
<1>2. LongestRun(s, 0) \in Nat /\ LongestRun(s, 1) \in Nat /\ LongestRun(s, -1) \in Nat
  BY <1>1, LongestRunIs
<1>3. CASE RunOf(s, RepeatLimit, 0)
  <2>1. LongestRun(s, 0) >= RepeatLimit
    BY <1>1, <1>3, RunFound
  <2> QED
    BY <2>1 DEF LongestRepeat
<1>4. CASE RunOf(s, SequenceLimit, 1)
  <2>1. LongestRun(s, 1) >= SequenceLimit
    BY <1>1, <1>4, RunFound
  <2> QED
    BY <1>1, <1>2, <2>1 DEF LongestSequence
<1>5. CASE RunOf(s, SequenceLimit, -1)
  <2>1. LongestRun(s, -1) >= SequenceLimit
    BY <1>1, <1>5, RunFound
  <2> QED
    BY <1>1, <1>2, <2>1 DEF LongestSequence
<1> QED
  BY <1>3, <1>4, <1>5 DEF Obvious

-----------------------------------------------------------------------------
(* Trimming *)

LEMMA TrimCases ==
  ASSUME NEW s \in Seq(FoldedChars), NEW kind
  PROVE  \/ Trim(s, kind) = <<>> /\ \A i \in 1..Len(s) : s[i] \notin kind
         \/ \E lo, hi \in 1..Len(s) :
              /\ lo <= hi /\ s[lo] \in kind /\ s[hi] \in kind /\ Trim(s, kind) = SubSeq(s, lo, hi)
              /\ \A i \in 1..Len(s) : s[i] \in kind => lo <= i /\ i <= hi
<1>1. PICK k \in Nat : k = Len(s) /\ DOMAIN s = 1..k
  OBVIOUS
<1>2. PICK held : held = {i \in 1..k : s[i] \in kind}
  OBVIOUS
<1>3. CASE held = {}
  BY <1>1, <1>2, <1>3 DEF Trim
<1>4. CASE held # {}
  <2>1. held \in SUBSET Nat /\ held \in SUBSET (0..k)
    BY <1>2
  <2>2. \E i \in held : \A j \in held : i <= j
    BY <1>4, <2>1, LeastNumber
  <2>3. \E i \in held : \A j \in held : j <= i
    BY <1>4, <2>1, GreatestNumber
  <2>4. PICK lo, hi : lo = (CHOOSE i \in held : \A j \in held : i <= j)
                      /\ hi = (CHOOSE i \in held : \A j \in held : j <= i)
    OBVIOUS
  <2>5. lo \in held /\ hi \in held /\ \A j \in held : lo <= j /\ j <= hi
    BY <2>2, <2>3, <2>4
  <2>6. Trim(s, kind) = SubSeq(s, lo, hi)
    BY <1>1, <1>2, <1>4, <2>4 DEF Trim
  <2>7. lo \in 1..k /\ hi \in 1..k /\ s[lo] \in kind /\ s[hi] \in kind /\ lo <= hi
    BY <1>2, <2>5
  <2>8. \A i \in 1..k : s[i] \in kind => lo <= i /\ i <= hi
    BY <1>2, <2>5
  <2> QED
    BY <1>1, <2>6, <2>7, <2>8
<1> QED
  BY <1>3, <1>4

LEMMA TrimIs ==
  ASSUME NEW s \in Seq(FoldedChars), NEW kind, NEW lo \in 1..Len(s), NEW hi \in 1..Len(s),
         s[lo] \in kind, s[hi] \in kind, \A i \in 1..Len(s) : s[i] \in kind => lo <= i /\ i <= hi
  PROVE  Trim(s, kind) = SubSeq(s, lo, hi)
<1>1. PICK a, b \in 1..Len(s) :
        /\ a <= b /\ s[a] \in kind /\ s[b] \in kind /\ Trim(s, kind) = SubSeq(s, a, b)
        /\ \A i \in 1..Len(s) : s[i] \in kind => a <= i /\ i <= b
  BY TrimCases
<1>2. a = lo /\ b = hi
  BY <1>1
<1> QED
  BY <1>1, <1>2

-----------------------------------------------------------------------------
(* What a reading keeps of a text *)

(* Where each character of a reading comes from, in the first characters of a text. *)
Spells(s, n, t, h) ==
  /\ h \in [1..Len(t) -> 1..n]
  /\ \A x, y \in 1..Len(t) : x < y => h[x] < h[y]
  /\ \A x \in 1..Len(t) : ReadsAs(s[h[x]], t[x])
  /\ \A i \in 1..n : (\E x \in 1..Len(t) : h[x] = i) \/ s[i] \in {Digit, Symbol}

Reads(s, t) == s \in Seq(FoldedChars) /\ t \in Seq(FoldedChars) /\ \E h : Spells(s, Len(s), t, h)

LEMMA ReadsOn ==
  ASSUME NEW a, NEW b, NEW c, ReadsAs(a, b), ReadsAs(b, c)
  PROVE  ReadsAs(a, c) /\ (b \in {Digit, Symbol} => a \in {Digit, Symbol})
<1> QED
  BY DEF ReadsAs, Digit, Symbol

LEMMA ReadsThrough ==
  ASSUME NEW s, NEW t, NEW u, Reads(s, t), Reads(t, u)
  PROVE  Reads(s, u)
<1>1. s \in Seq(FoldedChars) /\ t \in Seq(FoldedChars) /\ u \in Seq(FoldedChars)
  BY DEF Reads
<1>2. PICK k \in Nat, l \in Nat, m \in Nat : k = Len(s) /\ l = Len(t) /\ m = Len(u)
  BY <1>1
<1>3. PICK h : Spells(s, k, t, h)
  BY <1>2 DEF Reads
<1>4. PICK g : Spells(t, l, u, g)
  BY <1>2 DEF Reads
<1>5. /\ h \in [1..l -> 1..k] /\ \A x, y \in 1..l : x < y => h[x] < h[y]
      /\ \A x \in 1..l : ReadsAs(s[h[x]], t[x])
      /\ \A i \in 1..k : (\E x \in 1..l : h[x] = i) \/ s[i] \in {Digit, Symbol}
  BY <1>2, <1>3 DEF Spells
<1>6. /\ g \in [1..m -> 1..l] /\ \A x, y \in 1..m : x < y => g[x] < g[y]
      /\ \A x \in 1..m : ReadsAs(t[g[x]], u[x])
      /\ \A i \in 1..l : (\E x \in 1..m : g[x] = i) \/ t[i] \in {Digit, Symbol}
  BY <1>2, <1>4 DEF Spells
<1>7. PICK f : f = [x \in 1..m |-> h[g[x]]]
  OBVIOUS
<1>8. f \in [1..m -> 1..k] /\ \A x, y \in 1..m : x < y => f[x] < f[y]
  BY <1>5, <1>6, <1>7
<1>9. ASSUME NEW x \in 1..m PROVE ReadsAs(s[f[x]], u[x])
  <2>1. g[x] \in 1..l /\ f[x] = h[g[x]]
    BY <1>6, <1>7
  <2>2. ReadsAs(s[h[g[x]]], t[g[x]]) /\ ReadsAs(t[g[x]], u[x])
    BY <1>5, <1>6, <2>1
  <2> QED
    BY <2>1, <2>2, ReadsOn
<1>10. ASSUME NEW i \in 1..k, s[i] \notin {Digit, Symbol} PROVE \E x \in 1..m : f[x] = i
  <2>1. PICK y \in 1..l : h[y] = i
    BY <1>5, <1>10
  <2>2. t[y] \notin {Digit, Symbol}
    <3>1. ReadsAs(s[i], t[y])
      BY <1>5, <2>1
    <3> QED
      BY <1>10, <3>1 DEF ReadsAs
  <2>3. PICK x \in 1..m : g[x] = y
    BY <1>6, <2>2
  <2> QED
    BY <1>7, <2>1, <2>3
<1>11. Spells(s, k, u, f)
  BY <1>2, <1>8, <1>9, <1>10 DEF Spells
<1> QED
  BY <1>1, <1>2, <1>11 DEF Reads

(* Characters that are read one by one. *)
LEMMA EachIsRead ==
  ASSUME NEW s \in Seq(FoldedChars), NEW t \in Seq(FoldedChars), Len(t) = Len(s), \A i \in 1..Len(s) : ReadsAs(s[i], t[i])
  PROVE  Reads(s, t)
<1>1. PICK k \in Nat : k = Len(s) /\ k = Len(t)
  OBVIOUS
<1>2. PICK h : h = [i \in 1..k |-> i]
  OBVIOUS
<1>3. h \in [1..k -> 1..k] /\ \A x, y \in 1..k : x < y => h[x] < h[y]
  BY <1>2
<1>4. \A i \in 1..k : h[i] = i
  BY <1>2
<1>5. Spells(s, k, t, h)
  BY <1>1, <1>3, <1>4 DEF Spells
<1> QED
  BY <1>1, <1>5 DEF Reads

LEMMA ReadsItself ==
  ASSUME NEW s \in Seq(FoldedChars)
  PROVE  Reads(s, s)
<1> QED
  BY EachIsRead DEF ReadsAs

LEMMA SymbolsAreRead ==
  ASSUME NEW s \in Seq(FoldedChars)
  PROVE  Reads(s, SymbolsRead(s)) /\ Reads(s, DigitsRead(s))
<1>1. PICK k \in Nat : k = Len(s) /\ DOMAIN s = 1..k /\ \A i \in 1..k : s[i] \in FoldedChars
  OBVIOUS
<1>2. 1 \in FoldedChars /\ 3 \in FoldedChars
  BY DEF FoldedChars, Letters
<1>3. SymbolsRead(s) \in [1..k -> FoldedChars] /\ DigitsRead(s) \in [1..k -> FoldedChars]
  BY <1>1, <1>2 DEF SymbolsRead, DigitsRead
<1>4. PICK t : t = SymbolsRead(s) /\ t \in Seq(FoldedChars) /\ Len(t) = k
  BY <1>3
<1>5. PICK u : u = DigitsRead(s) /\ u \in Seq(FoldedChars) /\ Len(u) = k
  BY <1>3
<1>6. \A i \in 1..k : ReadsAs(s[i], t[i]) /\ ReadsAs(s[i], u[i])
  BY <1>1, <1>4, <1>5 DEF SymbolsRead, DigitsRead, ReadsAs
<1> QED
  BY <1>1, <1>4, <1>5, <1>6, EachIsRead

LEMMA TrimIsRead ==
  ASSUME NEW s \in Seq(FoldedChars), NEW kind, Letters \subseteq kind
  PROVE  Reads(s, Trim(s, kind))
<1>0. PICK k \in Nat : k = Len(s) /\ \A i \in 1..k : s[i] \in FoldedChars
  OBVIOUS
<1>1. \A i \in 1..k : s[i] \notin kind => s[i] \in {Digit, Symbol}
  BY <1>0 DEF FoldedChars
<1>2. CASE Trim(s, kind) = <<>> /\ \A i \in 1..k : s[i] \notin kind
  <2>1. PICK t \in Seq(FoldedChars) : t = Trim(s, kind) /\ Len(t) = 0
    <3>1. <<>> \in Seq(FoldedChars) /\ Len(<<>>) = 0
      OBVIOUS
    <3> QED
      BY <1>2, <3>1
  <2>2. PICK h : h = [x \in 1..0 |-> 1]
    OBVIOUS
  <2>3. 1..0 = {}
    OBVIOUS
  <2>4. h \in [1..0 -> 1..k]
    BY <2>2, <2>3
  <2>5. Spells(s, k, t, h)
    BY <1>1, <1>2, <2>1, <2>3, <2>4 DEF Spells
  <2> QED
    BY <1>0, <2>1, <2>5 DEF Reads
<1>3. ASSUME NEW lo \in 1..k, NEW hi \in 1..k, lo <= hi, Trim(s, kind) = SubSeq(s, lo, hi),
             \A i \in 1..k : s[i] \in kind => lo <= i /\ i <= hi
      PROVE  Reads(s, Trim(s, kind))
  <2>1. PICK l \in Nat : l = hi - lo + 1
    BY <1>3
  <2>2. PICK t \in Seq(FoldedChars) : t = Trim(s, kind) /\ Len(t) = l /\ \A x \in 1..l : t[x] = s[lo + x - 1]
    <3>1. SubSeq(s, lo, hi) \in Seq(FoldedChars) /\ Len(SubSeq(s, lo, hi)) = l
      BY <1>0, <1>3, <2>1
    <3>2. \A x \in 1..l : SubSeq(s, lo, hi)[x] = s[lo + x - 1]
      BY <1>0, <1>3, <2>1
    <3> QED
      BY <1>3, <3>1, <3>2
  <2>3. PICK h : h = [x \in 1..l |-> lo + x - 1]
    OBVIOUS
  <2>4. h \in [1..l -> 1..k] /\ \A x, y \in 1..l : x < y => h[x] < h[y]
    BY <1>3, <2>1, <2>3
  <2>5. \A x \in 1..l : ReadsAs(s[h[x]], t[x])
    BY <2>2, <2>3 DEF ReadsAs
  <2>6. ASSUME NEW i \in 1..k, s[i] \notin {Digit, Symbol} PROVE \E x \in 1..l : h[x] = i
    <3>1. lo <= i /\ i <= hi
      BY <1>1, <1>3, <2>6
    <3>2. i - lo + 1 \in 1..l /\ lo + (i - lo + 1) - 1 = i
      BY <2>1, <3>1
    <3> QED
      BY <2>3, <3>2
  <2>7. Spells(s, k, t, h)
    BY <2>2, <2>4, <2>5, <2>6 DEF Spells
  <2> QED
    BY <1>0, <2>2, <2>7 DEF Reads
<1> QED
  BY <1>0, <1>2, <1>3, TrimCases

LEMMA BareIsRead ==
  ASSUME NEW s \in Seq(FoldedChars)
  PROVE  Reads(s, Bare(s))
<1>0. PICK k \in Nat : k = Len(s) /\ (\A i \in 1..k : s[i] \in FoldedChars) /\ k \in 0..k
  <2>1. Len(s) \in Nat /\ (\A i \in 1..Len(s) : s[i] \in FoldedChars) /\ Len(s) \in 0..Len(s)
    OBVIOUS
  <2> QED
    BY <2>1
<1>1. PICK out : Bare(s) = out[k] /\ Grows(k, BarePieces(s), out) /\ \A n \in 0..k : out[n] \in Seq(FoldedChars)
  BY <1>0, BareIs
<1>2. PICK P : P = {n \in 0..k : \E h : Spells(s, n, out[n], h)}
  OBVIOUS
<1>3. 0 \in P
  <2>1. out[0] = <<>> /\ Len(out[0]) = 0 /\ 0 \in 0..k
    BY <1>1 DEF Grows
  <2>2. PICK h : h = [x \in 1..0 |-> 1]
    OBVIOUS
  <2>3. 1..0 = {}
    OBVIOUS
  <2>4. h \in [1..0 -> 1..0]
    BY <2>2, <2>3
  <2>5. Spells(s, 0, out[0], h)
    BY <2>1, <2>3, <2>4 DEF Spells
  <2> QED
    BY <1>2, <2>1, <2>5
<1>4. ASSUME NEW n \in 1..k, n - 1 \in P PROVE n \in P
  <2>0. n \in 0..k /\ n - 1 \in 0..k /\ n \in Nat \ {0}
    OBVIOUS
  <2>1. PICK t \in Seq(FoldedChars), l \in Nat : t = out[n - 1] /\ l = Len(t)
    BY <1>1, <2>0
  <2>2. PICK h : Spells(s, n - 1, t, h)
    BY <1>2, <1>4, <2>1
  <2>3. /\ h \in [1..l -> 1..(n - 1)] /\ \A x, y \in 1..l : x < y => h[x] < h[y]
        /\ \A x \in 1..l : ReadsAs(s[h[x]], t[x])
        /\ \A i \in 1..(n - 1) : (\E x \in 1..l : h[x] = i) \/ s[i] \in {Digit, Symbol}
    BY <2>1, <2>2 DEF Spells
  <2>4. out[n] = t \o (IF s[n] \in Alphanumeric THEN <<s[n]>> ELSE <<>>)
    BY <1>0, <1>1, <2>1 DEF Grows, BarePieces
  <2>5. CASE s[n] \in Alphanumeric
    <3>1. PICK u : u = out[n] /\ u = t \o <<s[n]>>
      BY <2>4, <2>5
    <3>2. Len(u) = l + 1 /\ u[l + 1] = s[n] /\ \A x \in 1..l : u[x] = t[x]
      BY <2>1, <3>1
    <3>3. PICK g : g = [x \in 1..(l + 1) |-> IF x = l + 1 THEN n ELSE h[x]]
      OBVIOUS
    <3>4. g[l + 1] = n /\ \A x \in 1..l : g[x] = h[x]
      BY <3>3
    <3>5. \A x \in 1..(l + 1) : x = l + 1 \/ x \in 1..l
      OBVIOUS
    <3>6. \A x \in 1..l : h[x] \in 1..(n - 1)
      BY <2>3
    <3>7. \A x \in 1..(l + 1) : g[x] \in 1..n
      BY SMTT(40), <2>0, <3>4, <3>5, <3>6
    <3>8. g \in [1..(l + 1) -> 1..n]
      BY <3>3, <3>7
    <3>9. ASSUME NEW x \in 1..(l + 1), NEW y \in 1..(l + 1), x < y PROVE g[x] < g[y]
      <4>1. x \in 1..l
        BY <3>9
      <4>2. CASE y = l + 1
        BY <2>0, <3>4, <3>6, <4>1, <4>2
      <4>3. CASE y \in 1..l
        BY <2>3, <3>4, <3>9, <4>1, <4>3
      <4> QED
        BY <3>5, <4>2, <4>3
    <3>10. \A x \in 1..(l + 1) : ReadsAs(s[g[x]], u[x])
      <4>1. ReadsAs(s[n], s[n])
        BY DEF ReadsAs
      <4> QED
        BY <2>3, <3>2, <3>4, <3>5, <4>1
    <3>11. ASSUME NEW i \in 1..n, s[i] \notin {Digit, Symbol} PROVE \E x \in 1..(l + 1) : g[x] = i
      <4>1. l + 1 \in 1..(l + 1) /\ \A x \in 1..l : x \in 1..(l + 1)
        OBVIOUS
      <4>2. i = n \/ i \in 1..(n - 1)
        BY <2>0
      <4> QED
        BY <2>3, <3>4, <3>11, <4>1, <4>2
    <3>12. Spells(s, n, u, g)
      BY <3>2, <3>8, <3>9, <3>10, <3>11 DEF Spells
    <3> QED
      BY <1>2, <2>0, <3>1, <3>12
  <2>6. CASE s[n] \notin Alphanumeric
    <3>1. out[n] = t
      <4>1. t \o <<>> = t
        BY <2>1
      <4> QED
        BY <2>4, <2>6, <4>1
    <3>2. s[n] \in {Digit, Symbol}
      <4>1. s[n] \in FoldedChars
        BY <1>0
      <4> QED
        BY <2>6, <4>1 DEF FoldedChars, Alphanumeric
    <3>3. h \in [1..l -> 1..n]
      <4>1. \A x \in 1..l : h[x] \in 1..n
        BY <2>3
      <4> QED
        BY <2>3, <4>1
    <3>4. \A i \in 1..n : i = n \/ i \in 1..(n - 1)
      BY <2>0
    <3>5. Spells(s, n, t, h)
      BY <2>1, <2>3, <3>2, <3>3, <3>4 DEF Spells
    <3> QED
      BY <1>2, <2>0, <3>1, <3>5
  <2> QED
    BY <2>5, <2>6
<1>5. \A n \in 0..k : n \in P
  BY <1>3, <1>4, CountUp
<1>6. PICK h : Spells(s, k, Bare(s), h)
  BY <1>0, <1>1, <1>2, <1>5
<1>7. Bare(s) \in Seq(FoldedChars)
  BY <1>0, <1>1
<1> QED
  BY <1>0, <1>6, <1>7 DEF Reads

(* Each of the six candidates is a reading of the password. *)
LEMMA CandidatesAreRead ==
  ASSUME NEW p \in Seq(Characters), NEW c \in ReductionCandidates(p)
  PROVE  Reads(Folded(p), c)
<1>1. PICK s \in Seq(FoldedChars) : s = Folded(p)
  BY FoldedIs
<1>2. Letters \subseteq Letters /\ Letters \subseteq Alphanumeric
  BY DEF Alphanumeric
<1>3. \A t : Reads(s, t) => t \in Seq(FoldedChars)
  BY DEF Reads
<1>4. ASSUME NEW t, Reads(s, t) PROVE Reads(s, Bare(t))
  BY <1>3, <1>4, BareIsRead, ReadsThrough
<1>5. ASSUME NEW t, Reads(s, t) PROVE Reads(s, DigitsRead(t)) /\ Reads(s, SymbolsRead(t))
  BY <1>3, <1>5, SymbolsAreRead, ReadsThrough
<1>6. ASSUME NEW t, Reads(s, t) PROVE Reads(s, StripPadding(t)) /\ Reads(s, TrimEdges(t))
  <2>1. Reads(t, Trim(t, Letters)) /\ Reads(t, Trim(t, Alphanumeric))
    BY <1>2, <1>3, <1>6, TrimIsRead
  <2> QED
    BY <1>6, <2>1, ReadsThrough DEF StripPadding, TrimEdges
<1>7. Reads(s, s)
  BY ReadsItself
<1>8. c \in {s, Bare(s), DigitsRead(StripPadding(Bare(s))), DigitsRead(Bare(s)),
             DigitsRead(StripPadding(Bare(SymbolsRead(s)))),
             DigitsRead(StripPadding(Bare(SymbolsRead(TrimEdges(s)))))}
  BY <1>1 DEF ReductionCandidates
<1>9. Reads(s, Bare(s)) /\ Reads(s, Bare(SymbolsRead(s))) /\ Reads(s, Bare(SymbolsRead(TrimEdges(s))))
  BY <1>4, <1>5, <1>6, <1>7
<1>10. /\ Reads(s, DigitsRead(StripPadding(Bare(s)))) /\ Reads(s, DigitsRead(Bare(s)))
       /\ Reads(s, DigitsRead(StripPadding(Bare(SymbolsRead(s)))))
       /\ Reads(s, DigitsRead(StripPadding(Bare(SymbolsRead(TrimEdges(s))))))
  BY <1>5, <1>6, <1>9
<1> QED
  BY <1>1, <1>7, <1>8, <1>9, <1>10

LEMMA CountedUp ==
  ASSUME NEW m \in Nat, NEW h \in [1..m -> Nat], \A x, y \in 1..m : x < y => h[x] < h[y]
  PROVE  \A x \in 0..m : Cardinality({h[y] : y \in 1..x}) = x
<1>1. PICK P : P = {x \in 0..m : IsFiniteSet({h[y] : y \in 1..x}) /\ Cardinality({h[y] : y \in 1..x}) = x}
  OBVIOUS
<1>2. 0 \in P
  <2>1. {h[y] : y \in 1..0} = {}
    OBVIOUS
  <2>2. IsFiniteSet({h[y] : y \in 1..0}) /\ Cardinality({h[y] : y \in 1..0}) = 0
    BY <2>1, FS_EmptySet
  <2> QED
    BY <1>1, <2>2
<1>3. ASSUME NEW x \in 1..m, x - 1 \in P PROVE x \in P
  <2>1. PICK S : S = {h[y] : y \in 1..(x - 1)}
    OBVIOUS
  <2>2. IsFiniteSet(S) /\ Cardinality(S) = x - 1
    BY <1>1, <1>3, <2>1
  <2>3. {h[y] : y \in 1..x} = S \cup {h[x]}
    <3>1. \A y : y \in 1..x <=> y \in 1..(x - 1) \/ y = x
      OBVIOUS
    <3> QED
      BY <2>1, <3>1
  <2>4. h[x] \notin S
    <3> SUFFICES ASSUME NEW y \in 1..(x - 1), h[y] = h[x] PROVE FALSE
      BY <2>1
    <3>1. y \in 1..m /\ y < x
      OBVIOUS
    <3>2. h[y] < h[x] /\ h[y] \in Nat
      BY <3>1
    <3> QED
      BY <3>2
  <2>5. IsFiniteSet(S \cup {h[x]}) /\ Cardinality(S \cup {h[x]}) = Cardinality(S) + 1
    BY <2>2, <2>4, FS_AddElement
  <2>6. x \in 0..m /\ (x - 1) + 1 = x
    OBVIOUS
  <2> QED
    BY <1>1, <2>2, <2>3, <2>5, <2>6
<1> QED
  BY <1>1, <1>2, <1>3, CountUp

(* A word that is read is held. *)
LEMMA ReadIsHeld ==
  ASSUME NEW s, NEW w, Reads(s, w)
  PROVE  Holds(s, w)
<1>1. PICK k \in Nat, m \in Nat : k = Len(s) /\ m = Len(w) /\ DOMAIN s = 1..k
  BY DEF Reads
<1>2. PICK h : Spells(s, k, w, h)
  BY <1>1 DEF Reads
<1>3. /\ h \in [1..m -> 1..k] /\ \A x, y \in 1..m : x < y => h[x] < h[y]
      /\ \A x \in 1..m : ReadsAs(s[h[x]], w[x])
      /\ \A i \in 1..k : (\E x \in 1..m : h[x] = i) \/ s[i] \in {Digit, Symbol}
  BY <1>1, <1>2 DEF Spells
<1>4. h \in [1..m -> Nat] /\ \A x \in 1..m : h[x] \in Nat
  <2>1. \A x \in 1..m : h[x] \in Nat
    BY <1>3
  <2> QED
    BY <1>3, <2>1
<1>5. \A x \in 0..m : Cardinality({h[y] : y \in 1..x}) = x
  BY <1>3, <1>4, CountedUp
<1>6. PICK held : held = {h[y] : y \in 1..m}
  OBVIOUS
<1>7. held \in SUBSET (1..k)
  BY <1>3, <1>6
<1>8. Cardinality(held) = m
  <2>1. m \in 0..m
    OBVIOUS
  <2> QED
    BY <1>5, <1>6, <2>1
<1>9. ASSUME NEW i \in held PROVE ReadsAs(s[i], w[Cardinality({j \in held : j <= i})])
  <2>1. PICK x \in 1..m : h[x] = i
    BY <1>6
  <2>2. {j \in held : j <= i} = {h[y] : y \in 1..x}
    <3>1. ASSUME NEW y \in 1..m PROVE h[y] <= h[x] <=> y \in 1..x
      <4>1. y < x => h[y] < h[x]
        BY <1>3
      <4>2. x < y => h[x] < h[y]
        BY <1>3
      <4> QED
        BY <1>4, <4>1, <4>2
    <3>2. \A y \in 1..x : y \in 1..m
      OBVIOUS
    <3> QED
      BY <1>6, <2>1, <3>1, <3>2
  <2>3. Cardinality({j \in held : j <= i}) = x
    <3>1. x \in 0..m
      OBVIOUS
    <3> QED
      BY <1>5, <2>2, <3>1
  <2> QED
    BY <1>3, <2>1, <2>3
<1>10. \A i \in (1..k) \ held : s[i] \in {Digit, Symbol}
  BY <1>3, <1>6
<1> QED
  BY <1>1, <1>7, <1>8, <1>9, <1>10 DEF Holds

-----------------------------------------------------------------------------
(* A disguised word is one of the candidates: the edges are trimmed of symbols, *)
(* the symbols left are read, the digits around are stripped, the others read.  *)

LEMMA DisguiseIsRead ==
  ASSUME NEW s \in Seq(FoldedChars), NEW w \in Seq(Letters), Len(w) # 0, Disguises(s, w)
  PROVE  DigitsRead(StripPadding(Bare(SymbolsRead(TrimEdges(s))))) = w
<1>1. PICK k \in Nat, l \in Nat \ {0} : k = Len(s) /\ DOMAIN s = 1..k /\ l = Len(w)
  OBVIOUS
<1>2. PICK i \in 0..(k - l) :
        /\ \A x \in 1..l : ReadsAs(s[i + x], w[x])
        /\ s[i + 1] = w[1] /\ s[i + l] = w[l]
        /\ \E m \in 0..i, n \in (i + l)..k :
             /\ \A x \in (1..k) \ ((m + 1)..n) : s[x] = Symbol
             /\ \A x \in ((m + 1)..i) \cup ((i + l + 1)..n) : s[x] = Digit
  BY ZenonT(60), <1>1 DEF Disguises
<1>3. PICK m \in 0..i, n \in (i + l)..k :
        /\ \A x \in (1..k) \ ((m + 1)..n) : s[x] = Symbol
        /\ \A x \in ((m + 1)..i) \cup ((i + l + 1)..n) : s[x] = Digit
  BY <1>2
<1>4. /\ (\A x \in 1..l : w[x] \in Letters) /\ Letters \subseteq Alphanumeric /\ Digit \in Alphanumeric
      /\ Symbol \notin Alphanumeric /\ Digit \notin Letters /\ Symbol \notin Letters /\ Digit # Symbol
      /\ 1 \in Letters
  BY <1>1 DEF Letters, Digit, Symbol, Alphanumeric
<1>5. i \in Nat /\ m \in Nat /\ n \in Nat /\ m <= i /\ i + l <= n /\ n <= k
  BY <1>1, <1>2, <1>3
<1>6. s[i + 1] \in Letters /\ s[i + l] \in Letters
  BY <1>1, <1>2, <1>4
<1>7. s[m + 1] \in Alphanumeric /\ s[n] \in Alphanumeric
  <2>1. m = i \/ s[m + 1] = Digit
    BY <1>3, <1>5
  <2>2. n = i + l \/ s[n] = Digit
    BY <1>3, <1>5
  <2> QED
    BY <1>4, <1>6, <2>1, <2>2
<1>8. TrimEdges(s) = SubSeq(s, m + 1, n)
  <2>1. m + 1 \in 1..k /\ n \in 1..k
    BY <1>1, <1>5
  <2>2. ASSUME NEW x \in 1..k, s[x] \in Alphanumeric PROVE m + 1 <= x /\ x <= n
    <3>1. x \in (m + 1)..n
      BY <1>3, <1>4, <2>2
    <3> QED
      BY <3>1
  <2> QED
    BY <1>1, <1>7, <2>1, <2>2, TrimIs DEF TrimEdges
<1>9. PICK q \in Nat : q = n - m
  BY <1>1, <1>5
<1>10. PICK t \in Seq(FoldedChars) : t = TrimEdges(s) /\ Len(t) = q /\ \A x \in 1..q : t[x] = s[m + x]
  <2>1. SubSeq(s, m + 1, n) \in Seq(FoldedChars) /\ Len(SubSeq(s, m + 1, n)) = q
    BY <1>1, <1>5, <1>9
  <2>2. \A x \in 1..q : SubSeq(s, m + 1, n)[x] = s[m + x]
    BY <1>1, <1>5, <1>9
  <2> QED
    BY <1>8, <2>1, <2>2
<1>11. \A x \in 1..q : (m + x) \in 1..k /\ s[m + x] \in FoldedChars
  BY <1>1, <1>5, <1>9
<1>12. PICK u : /\ u = SymbolsRead(t) /\ u = [x \in 1..q |-> IF t[x] = Symbol THEN 1 ELSE t[x]]
  <2>1. DOMAIN t = 1..q
    BY <1>10
  <2> QED
    BY <2>1 DEF SymbolsRead
<1>13. \A x \in 1..q : u[x] = IF s[m + x] = Symbol THEN 1 ELSE s[m + x]
  BY <1>10, <1>12
<1>14. u \in Seq(Alphanumeric) /\ Len(u) = q /\ u \in Seq(FoldedChars)
  <2>1. \A x \in 1..q : u[x] \in Alphanumeric /\ u[x] \in FoldedChars
    BY <1>4, <1>11, <1>13 DEF FoldedChars, Alphanumeric
  <2>2. u \in [1..q -> Alphanumeric] /\ u \in [1..q -> FoldedChars]
    BY <1>12, <2>1
  <2> QED
    BY <2>2
<1>15. Bare(u) = u
  BY <1>14, BareOfBare
<1>16. PICK lo \in 1..q, hi \in 1..q : lo = i - m + 1 /\ hi = i - m + l /\ m + lo = i + 1 /\ m + hi = i + l
  <2>1. i - m + 1 \in 1..q /\ i - m + l \in 1..q
    BY <1>1, <1>5, <1>9
  <2>2. m + (i - m + 1) = i + 1 /\ m + (i - m + l) = i + l
    BY <1>1, <1>5
  <2> QED
    BY <2>1, <2>2
<1>17. StripPadding(u) = SubSeq(u, lo, hi)
  <2>1. u[lo] \in Letters /\ u[hi] \in Letters
    BY <1>4, <1>6, <1>13, <1>16
  <2>2. ASSUME NEW x \in 1..q, u[x] \in Letters PROVE lo <= x /\ x <= hi
    <3> SUFFICES ASSUME ~(lo <= x /\ x <= hi) PROVE FALSE
      OBVIOUS
    <3>1. m + x \in ((m + 1)..i) \cup ((i + l + 1)..n)
      BY <1>5, <1>9, <1>16
    <3>2. s[m + x] = Digit
      BY <1>3, <3>1
    <3>3. u[x] = Digit
      BY <1>4, <1>13, <3>2
    <3> QED
      BY <1>4, <2>2, <3>3
  <2> QED
    BY <1>14, <2>1, <2>2, TrimIs DEF StripPadding
<1>18. PICK v : v = StripPadding(u) /\ v = [x \in 1..l |-> u[lo + x - 1]]
  <2>1. hi - lo + 1 = l
    BY <1>1, <1>5, <1>16
  <2>2. SubSeq(u, lo, hi) = [x \in 1..l |-> u[lo + x - 1]]
    <3>1. SubSeq(u, lo, hi) \in Seq(FoldedChars) /\ Len(SubSeq(u, lo, hi)) = l
      BY <1>14, <1>16, <2>1
    <3>2. \A x \in 1..l : SubSeq(u, lo, hi)[x] = u[lo + x - 1]
      BY <1>14, <1>16, <2>1
    <3>3. SubSeq(u, lo, hi) = [x \in 1..l |-> SubSeq(u, lo, hi)[x]]
      BY <3>1
    <3> QED
      BY <3>2, <3>3
  <2> QED
    BY <1>17, <2>2
<1>19. ASSUME NEW x \in 1..l PROVE DigitsRead(v)[x] = w[x]
  <2>1. PICK y \in 1..q : y = lo + x - 1 /\ m + y = i + x
    BY <1>1, <1>5, <1>16
  <2>2. v[x] = IF s[i + x] = Symbol THEN 1 ELSE s[i + x]
    BY <1>13, <1>18, <2>1
  <2>3. DOMAIN v = 1..l
    BY <1>18
  <2>4. DigitsRead(v)[x] = IF v[x] = Digit THEN 3 ELSE v[x]
    BY <2>3 DEF DigitsRead
  <2>5. w[x] \in Letters /\ ReadsAs(s[i + x], w[x])
    BY <1>2, <1>4
  <2> QED
    BY <2>2, <2>4, <2>5 DEF ReadsAs, Letters, Digit, Symbol
<1>20. DigitsRead(v) = w
  <2>1. DOMAIN DigitsRead(v) = 1..l /\ DigitsRead(v) = [x \in 1..l |-> DigitsRead(v)[x]]
    BY <1>18 DEF DigitsRead
  <2>2. w = [x \in 1..l |-> w[x]]
    BY <1>1
  <2> QED
    BY <1>19, <2>1, <2>2
<1> QED
  BY <1>10, <1>12, <1>15, <1>18, <1>20

-----------------------------------------------------------------------------
(* The judgement *)

PasswordInv ==
  /\ typed \in Seq(Characters)
  /\ outcome \in {"typing", "blocked", "rejected"} \cup Breach
  /\ PasswordsAreJudgedAlike

(* The checklist asks for nothing that the API does not. *)
LEMMA ChecklistIsLaxer ==
  ASSUME NEW p \in Seq(Characters), NEW known \in {{}, RawTokens}, ~ChecklistPasses(p, known)
  PROVE  Rejected(p, RawTokens, MinLength)
<1>1. PICK s \in Seq(FoldedChars) : s = Folded(p)
  BY FoldedIs
<1>2. Len(Normalise(p)) \in Nat /\ MinLength \in Nat /\ MaxLength \in Nat /\ RepeatLimit \in Nat /\ SequenceLimit \in Nat
  BY FoldedIs, PasswordAssumption
<1>3. LongestRepeat(s) \in Nat /\ LongestSequence(s) \in Nat
  <2>1. s \in Seq(Int) /\ -1 \in Int
    BY FoldedCharsAreNumbers
  <2>2. LongestRun(s, 0) \in Nat /\ LongestRun(s, 1) \in Nat /\ LongestRun(s, -1) \in Nat
    BY SMTT(40), <2>1, LongestRunIs
  <2> QED
    BY <2>2 DEF LongestRepeat, LongestSequence
<1>4. \/ Len(Normalise(p)) \notin MinLength..MaxLength
      \/ ~(LongestRepeat(s) < RepeatLimit)
      \/ ~(LongestSequence(s) < SequenceLimit)
      \/ \E t \in Tokens(known) : Includes(Bare(s), t)
      \/ \E t \in ServiceTerms : Includes(s, t)
  BY <1>1 DEF ChecklistPasses
<1>5. ASSUME NEW t \in Tokens(known) PROVE t \in Tokens(RawTokens)
  BY <1>5 DEF Tokens
<1>6. s \in ReductionCandidates(p)
  BY <1>1 DEF ReductionCandidates
<1>7. CASE Len(Normalise(p)) \notin MinLength..MaxLength
  BY <1>2, <1>7 DEF Rejected
<1>8. CASE ~(LongestRepeat(s) < RepeatLimit)
  <2>1. LongestRepeat(s) >= RepeatLimit
    BY <1>2, <1>3, <1>8
  <2> QED
    BY <1>1, <2>1 DEF Rejected
<1>9. CASE ~(LongestSequence(s) < SequenceLimit)
  <2>1. LongestSequence(s) >= SequenceLimit
    BY <1>2, <1>3, <1>9
  <2> QED
    BY <1>1, <2>1 DEF Rejected
<1>10. CASE \E t \in Tokens(known) : Includes(Bare(s), t)
  BY <1>1, <1>5, <1>10 DEF Rejected
<1>11. CASE \E t \in ServiceTerms : Includes(s, t)
  BY <1>6, <1>11 DEF Rejected
<1> QED
  BY <1>4, <1>7, <1>8, <1>9, <1>10, <1>11

LEMMA AcceptedIsSound ==
  ASSUME NEW p \in Seq(Characters), NEW minimum, ~Rejected(p, RawTokens, minimum)
  PROVE  /\ ~Obvious(Folded(p))
         /\ \A w \in Blocked : w \in Seq(Letters) /\ Len(w) >= CoreLength => ~Disguises(Folded(p), w)
<1>1. PICK s \in Seq(FoldedChars) : s = Folded(p)
  BY FoldedIs
<1>2. ~(LongestRepeat(s) >= RepeatLimit) /\ ~(LongestSequence(s) >= SequenceLimit) /\ ~TooCommon(p)
  BY <1>1 DEF Rejected
<1>3. ASSUME NEW w \in Blocked, w \in Seq(Letters), Len(w) >= CoreLength, Disguises(s, w)
      PROVE  FALSE
  <2>1. Len(w) # 0
    BY <1>3, PasswordAssumption
  <2>2. DigitsRead(StripPadding(Bare(SymbolsRead(TrimEdges(s))))) = w
    BY <1>3, <2>1, DisguiseIsRead
  <2>3. w \in ReductionCandidates(p)
    BY <1>1, <2>2 DEF ReductionCandidates
  <2> QED
    BY <1>2, <1>3, <2>3 DEF TooCommon
<1> QED
  BY <1>1, <1>2, <1>3, ObviousIsFound

LEMMA CommonIsHeld ==
  ASSUME NEW p \in Seq(Characters), TooCommon(p)
  PROVE  \E w \in Blocked : Holds(Folded(p), w)
<1>1. PICK c \in ReductionCandidates(p) : c \in Blocked
  BY DEF TooCommon
<1> QED
  BY <1>1, CandidatesAreRead, ReadIsHeld

LEMMA SubmitKeeps == PasswordInv /\ SubmitPassword => PasswordInv'
<1> SUFFICES ASSUME PasswordInv, SubmitPassword PROVE PasswordInv'
  OBVIOUS
<1>1. typed' = typed /\ typed \in Seq(Characters)
  BY DEF PasswordInv, SubmitPassword
<1>2. PICK known \in {{}, RawTokens}, minimum \in {MinLength, MinLength + 1} :
        outcome' \in IF ~ChecklistPasses(typed, known) THEN {"blocked"}
                     ELSE IF Rejected(typed, RawTokens, minimum) THEN {"rejected"}
                     ELSE Breach
  BY DEF SubmitPassword
<1>3. CASE ~ChecklistPasses(typed, known)
  <2>1. outcome' = "blocked"
    BY <1>2, <1>3
  <2>2. Rejected(typed, RawTokens, MinLength)
    BY <1>1, <1>3, ChecklistIsLaxer
  <2> QED
    BY <1>1, <2>1, <2>2 DEF PasswordInv, PasswordsAreJudgedAlike
<1>4. CASE ChecklistPasses(typed, known) /\ Rejected(typed, RawTokens, minimum)
  <2>1. outcome' = "rejected"
    BY <1>2, <1>4
  <2>2. TooCommon(typed) => \E w \in Blocked : Holds(Folded(typed), w)
    BY <1>1, CommonIsHeld
  <2> QED
    BY <1>1, <2>1, <2>2 DEF PasswordInv, PasswordsAreJudgedAlike
<1>5. CASE ChecklistPasses(typed, known) /\ ~Rejected(typed, RawTokens, minimum)
  <2>1. outcome' \in Breach /\ outcome' # "blocked" /\ outcome' # "rejected"
    BY <1>2, <1>5 DEF Breach
  <2>2. /\ ~Obvious(Folded(typed))
        /\ \A w \in Blocked : w \in Seq(Letters) /\ Len(w) >= CoreLength => ~Disguises(Folded(typed), w)
    BY <1>1, <1>5, AcceptedIsSound
  <2> QED
    BY <1>1, <2>1, <2>2 DEF PasswordInv, PasswordsAreJudgedAlike
<1> QED
  BY <1>3, <1>4, <1>5

(* Whatever is typed: the form blocks only what the API would reject; what the API   *)
(* accepts holds no run and disguises no listed word of letters; and what it rejects *)
(* as common is a listed word, but for its padding (password-policy.ts and its       *)
(* mirror passwordPolicy.js).  Each candidate is a reading of the password, and a    *)
(* disguised word is one of the candidates.                                          *)
THEOREM PasswordsAlwaysJudgedAlike == PasswordSpec => []PasswordsAreJudgedAlike
<1>1. PasswordInit => PasswordInv
  <2> SUFFICES ASSUME PasswordInit PROVE PasswordInv
    OBVIOUS
  <2>1. typed = <<>> /\ outcome = "typing"
    BY DEF PasswordInit
  <2> QED
    BY <2>1 DEF PasswordInv, PasswordsAreJudgedAlike
<1>2. PasswordInv /\ [PasswordNext]_passwordVars => PasswordInv'
  <2> SUFFICES ASSUME PasswordInv, [PasswordNext]_passwordVars PROVE PasswordInv'
    OBVIOUS
  <2>1. ASSUME NEW c \in Characters, Type(c) PROVE PasswordInv'
    <3>1. outcome' = "typing" /\ typed' = Append(typed, c) /\ typed \in Seq(Characters)
      BY <2>1 DEF Type, PasswordInv
    <3>2. typed' \in Seq(Characters)
      BY <3>1
    <3> QED
      BY <3>1, <3>2 DEF PasswordInv, PasswordsAreJudgedAlike
  <2>2. ASSUME UNCHANGED passwordVars PROVE PasswordInv'
    <3>1. typed' = typed /\ outcome' = outcome
      BY <2>2 DEF passwordVars
    <3> QED
      BY <3>1 DEF PasswordInv, PasswordsAreJudgedAlike
  <2> QED
    BY <2>1, <2>2, SubmitKeeps DEF PasswordNext
<1>3. PasswordInv => PasswordsAreJudgedAlike
  BY DEF PasswordInv
<1> QED
  BY <1>1, <1>2, <1>3, PTL DEF PasswordSpec
=============================================================================
