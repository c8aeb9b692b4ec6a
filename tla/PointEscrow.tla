---------------------------- MODULE PointEscrow ----------------------------
(***************************************************************************)
(* What the points economy promises, without orders, runs, requests or     *)
(* balances: every thing that is bought has its price in exactly one       *)
(* place, and the place only moves forward.                                *)
(*                                                                         *)
(*     none --> held --> settled          held, platform --> returned      *)
(*     none --> platform                  none --> settled                 *)
(*                                                                         *)
(* A held price is frozen in its owner's account.  A price on the platform *)
(* can still be returned, a settled one cannot.  Balances are not state    *)
(* here: they follow from what was granted and from where the prices are.  *)
(***************************************************************************)
EXTENDS Integers, FiniteSets, PointSums

CONSTANTS
  Things,   \* what can be bought, once
  Owners,   \* who can buy
  Nobody,   \* the owner of a thing that was not bought
  Price,    \* price of every thing
  Grants    \* amounts that may be granted to an owner, or taken back

VARIABLES owner, place, granted

vars == <<owner, place, granted>>

In(m, places) == {x \in Things : owner[x] = m /\ place[x] \in places}

(* What m can spend: what was granted less the price of all that m keeps. *)
Spendable(m) == granted[m] - PointsOf(In(m, {"held", "platform", "settled"}), Price)

Init ==
  /\ owner = [x \in Things |-> Nobody]
  /\ place = [x \in Things |-> "none"]
  /\ granted = [m \in Owners |-> 0]

(* m buys some things that nobody owns and can pay for all of them. *)
Buy(m) ==
  LET new == {x \in Things : owner'[x] # owner[x]} IN
  /\ \A x \in new : owner[x] = Nobody
  /\ owner' = [x \in Things |-> IF x \in new THEN m ELSE owner[x]]
  /\ place' = [x \in Things |-> IF x \in new THEN place'[x] ELSE place[x]]
  /\ \A x \in new : place'[x] \in {"held", "platform", "settled"}
  /\ PointsOf(new, Price) <= Spendable(m)
  /\ UNCHANGED granted

(* Prices leave the places `from' for the place `to'. *)
Move(from, to) ==
  /\ \A x \in Things : place'[x] # place[x] => place[x] \in from /\ place'[x] = to
  /\ place' = [x \in Things |-> place'[x]]
  /\ UNCHANGED <<owner, granted>>

Settle == Move({"held"}, "settled")
Return == Move({"held", "platform"}, "returned")

Grant(m, n) ==
  /\ Spendable(m) + n >= 0
  /\ granted' = [granted EXCEPT ![m] = @ + n]
  /\ UNCHANGED <<owner, place>>

Next ==
  \/ \E m \in Owners : Buy(m)
  \/ Settle
  \/ Return
  \/ \E m \in Owners, n \in Grants : Grant(m, n)

Spec == Init /\ [][Next]_vars
=============================================================================
