--------------------------- MODULE CommerceProofs ---------------------------
(***************************************************************************)
(* Theorems about Commerce for every set of members, orders and products.  *)
(* The inductive invariant couples the balances to the items: without the  *)
(* balances TypeOK is not inductive (completing a run subtracts from the   *)
(* frozen balance), and without the holds the balances are not.            *)
(***************************************************************************)
EXTENDS Commerce, FiniteSetTheorems, TLAPS

-----------------------------------------------------------------------------
(* Totals of points behave like sums: they are natural numbers, they add   *)
(* up over disjoint sets, and a thing that costs nothing does not count.   *)

(* A unit belongs to the thing it is part of the price of. *)
LEMMA UnitsMembership ==
  ASSUME NEW S, NEW price, NEW u
  PROVE  u \in Units(S, price) <=> \E x \in S : u \in {x} \X (1 .. price[x])
BY DEF Units

(* The units of finitely many things are finitely many. *)
LEMMA UnitsFinite ==
  ASSUME NEW S, IsFiniteSet(S), NEW price, \A x \in S : price[x] \in Nat
  PROVE  IsFiniteSet(Units(S, price))
<1> DEFINE f == [x \in S |-> {x} \X (1 .. price[x])]
           family == {f[x] : x \in S}
<1>1. \A x \in S : IsFiniteSet(f[x])
  <2> TAKE x \in S
  <2>1. IsFiniteSet({x})
    BY FS_Singleton, Zenon
  <2>2. price[x] \in Int
    OBVIOUS
  <2>3. IsFiniteSet(1 .. price[x])
    BY <2>2, FS_Interval
  <2> QED
    BY <2>1, <2>3, FS_Product
<1>2. IsFiniteSet(family)
  <2>1. f \in Surjection(S, family)
    BY DEF Surjection
  <2> HIDE DEF f
  <2> QED
    BY <2>1, FS_Surjection
<1>3. Units(S, price) = UNION family
  BY DEF Units
<1>4. \A T \in family : IsFiniteSet(T)
  BY <1>1
<1> HIDE DEF family
<1>5. IsFiniteSet(UNION family)
  BY <1>2, <1>4, FS_UNION
<1> QED
  BY <1>3, <1>5

(* Totals are natural numbers. *)
LEMMA PointsType ==
  ASSUME NEW S, IsFiniteSet(S), NEW price, \A x \in S : price[x] \in Nat
  PROVE  PointsOf(S, price) \in Nat
BY UnitsFinite, FS_CardinalityType DEF PointsOf

(* Totals add up over disjoint sets. *)
LEMMA PointsAdd ==
  ASSUME NEW S, IsFiniteSet(S), NEW T, IsFiniteSet(T), S \cap T = {},
         NEW price, \A x \in S \cup T : price[x] \in Nat
  PROVE  PointsOf(S \cup T, price) = PointsOf(S, price) + PointsOf(T, price)
<1>1. Units(S \cup T, price) = Units(S, price) \cup Units(T, price)
  BY DEF Units
<1>2. Units(S, price) \cap Units(T, price) = {}
  <2> SUFFICES ASSUME NEW u \in Units(S, price), u \in Units(T, price)
               PROVE  FALSE
    OBVIOUS
  <2>1. PICK x \in S : u \in {x} \X (1 .. price[x])
    BY UnitsMembership
  <2>2. PICK y \in T : u \in {y} \X (1 .. price[y])
    BY UnitsMembership
  <2>3. x = y
    BY <2>1, <2>2
  <2> QED
    BY <2>3
<1>3. IsFiniteSet(Units(S, price)) /\ IsFiniteSet(Units(T, price))
  BY UnitsFinite
<1>4. Cardinality(Units(S, price) \cup Units(T, price))
        = Cardinality(Units(S, price)) + Cardinality(Units(T, price)) - Cardinality({})
  BY <1>2, <1>3, FS_Union
<1>5. Cardinality({}) = 0
  BY FS_EmptySet
<1>6. Cardinality(Units(S, price)) \in Nat /\ Cardinality(Units(T, price)) \in Nat
  BY <1>3, FS_CardinalityType
<1>7. Cardinality(Units(S, price) \cup Units(T, price))
        = Cardinality(Units(S, price)) + Cardinality(Units(T, price))
  BY <1>4, <1>5, <1>6
<1> QED
  BY <1>1, <1>7, Zenon DEF PointsOf

(* Nothing costs nothing. *)
LEMMA PointsEmpty ==
  ASSUME NEW price
  PROVE  PointsOf({}, price) = 0
BY FS_EmptySet DEF PointsOf, Units

(* Taking things out of a set takes their price out of the total. *)
LEMMA PointsRemove ==
  ASSUME NEW S, IsFiniteSet(S), NEW T, T \subseteq S,
         NEW price, \A x \in S : price[x] \in Nat
  PROVE  /\ PointsOf(S \ T, price) = PointsOf(S, price) - PointsOf(T, price)
         /\ PointsOf(T, price) <= PointsOf(S, price)
<1>1. IsFiniteSet(T) /\ IsFiniteSet(S \ T)
  BY FS_Subset
<1>2. S = (S \ T) \cup T /\ (S \ T) \cap T = {}
  OBVIOUS
<1>3. PointsOf(S, price) = PointsOf(S \ T, price) + PointsOf(T, price)
  <2>1. \A x \in (S \ T) \cup T : price[x] \in Nat
    OBVIOUS
  <2>2. PointsOf((S \ T) \cup T, price) = PointsOf(S \ T, price) + PointsOf(T, price)
    BY <1>1, <1>2, <2>1, PointsAdd
  <2> QED
    BY <1>2, <2>2
<1>4. PointsOf(S \ T, price) \in Nat /\ PointsOf(T, price) \in Nat
  BY <1>1, PointsType
<1> QED
  BY <1>3, <1>4

(* One thing costs its price. *)
LEMMA PointsOne ==
  ASSUME NEW x, NEW price, price[x] \in Nat
  PROVE  PointsOf({x}, price) = price[x]
<1>1. Units({x}, price) = {x} \X (1 .. price[x])
  BY DEF Units
<1>2. IsFiniteSet({x}) /\ Cardinality({x}) = 1
  BY FS_Singleton, Zenon
<1>3. IsFiniteSet(1 .. price[x]) /\ Cardinality(1 .. price[x]) = price[x]
  BY SMTT(40), FS_Interval
<1> DEFINE units == 1 .. price[x]
<1>4. IsFiniteSet(units) /\ Cardinality(units) = price[x]
  BY <1>3
<1> HIDE DEF units
<1>5. Cardinality({x} \X units) = Cardinality({x}) * Cardinality(units)
  BY <1>2, <1>4, FS_Product, Zenon
<1>6. Cardinality({x}) * Cardinality(units) = price[x]
  BY <1>2, <1>4
<1> QED
  BY <1>1, <1>5, <1>6, Zenon DEF PointsOf, units

(* Things that cost nothing do not count. *)
LEMMA PointsCharged ==
  ASSUME NEW S, NEW price, \A x \in S : price[x] \in Nat
  PROVE  PointsOf({x \in S : price[x] > 0}, price) = PointsOf(S, price)
<1>1. Units({x \in S : price[x] > 0}, price) = Units(S, price)
  <2> DEFINE charged == {x \in S : price[x] > 0}
  <2>1. \A x \in S : x \notin charged => 1 .. price[x] = {}
    OBVIOUS
  <2>2. ASSUME NEW u \in Units(S, price)
        PROVE  u \in Units(charged, price)
    <3>1. PICK x \in S : u \in {x} \X (1 .. price[x])
      BY UnitsMembership
    <3>2. 1 .. price[x] # {}
      BY <3>1
    <3>3. x \in charged
      BY <2>1, <3>2
    <3> QED
      BY <3>1, <3>3, UnitsMembership
  <2>3. Units(charged, price) \subseteq Units(S, price)
    BY DEF Units
  <2> QED
    BY <2>2, <2>3
<1> QED
  BY <1>1 DEF PointsOf

-----------------------------------------------------------------------------
(* The invariant.                                                          *)

(* An item that was bought belongs to a member's order, and only such an   *)
(* item has a request to decide.                                           *)
ItemsHaveBuyers ==
  \A i \in Items :
    /\ fulfilment[i] # "none" => buyer[Order(i)] \in Members
    /\ request[i] = "pending" => fulfilment[i] # "none"

Inv ==
  /\ TypeOK
  /\ ItemsHaveBuyers
  /\ HoldsBackReservations
  /\ BalancesExplained

-----------------------------------------------------------------------------
(* Facts about items and their costs *)

LEMMA ItemsFinite == IsFiniteSet(Items)
BY ProductAssumption, FS_Product DEF Items

LEMMA ItemFacts ==
  ASSUME NEW i \in Items
  PROVE  /\ Order(i) \in Orders
         /\ Product(i) \in Products
         /\ ItemPrice[i] \in Nat
BY ProductAssumption DEF Items, Order, Product, ItemPrice

LEMMA CostType ==
  ASSUME NEW S, S \subseteq Items
  PROVE  IsFiniteSet(S) /\ Cost(S) \in Nat
<1>1. IsFiniteSet(S)
  BY ItemsFinite, FS_Subset
<1>2. \A x \in S : ItemPrice[x] \in Nat
  BY ItemFacts
<1> QED
  BY <1>1, <1>2, PointsType DEF Cost

LEMMA CostAdd ==
  ASSUME NEW S, S \subseteq Items, NEW T, T \subseteq Items, S \cap T = {}
  PROVE  Cost(S \cup T) = Cost(S) + Cost(T)
<1>1. \A x \in S \cup T : ItemPrice[x] \in Nat
  BY ItemFacts
<1>2. IsFiniteSet(S) /\ IsFiniteSet(T)
  BY CostType
<1> QED
  BY <1>1, <1>2, PointsAdd DEF Cost

LEMMA CostRemove ==
  ASSUME NEW S, S \subseteq Items, NEW T, T \subseteq S
  PROVE  /\ Cost(S \ T) = Cost(S) - Cost(T)
         /\ Cost(T) <= Cost(S)
<1>1. \A x \in S : ItemPrice[x] \in Nat
  BY ItemFacts
<1>2. IsFiniteSet(S)
  BY CostType
<1> QED
  BY <1>1, <1>2, PointsRemove DEF Cost

LEMMA CostEmpty == Cost({}) = 0
BY PointsEmpty DEF Cost

LEMMA CostOne ==
  ASSUME NEW i \in Items
  PROVE  Cost({i}) = ItemPrice[i]
BY ItemFacts, PointsOne DEF Cost

LEMMA CostCharged ==
  ASSUME NEW S, S \subseteq Items
  PROVE  Cost(Charged(S)) = Cost(S)
<1>1. \A x \in S : ItemPrice[x] \in Nat
  BY ItemFacts
<1> QED
  BY <1>1, PointsCharged DEF Cost, Charged

(* What a line of a new order is. *)
LEMMA LineFacts ==
  ASSUME NEW o \in Orders, NEW basket \in SUBSET Products
  PROVE  /\ {o} \X basket \subseteq Items
         /\ \A i \in {o} \X basket : Order(i) = o /\ Product(i) \in basket
         /\ \A i \in Items : Order(i) = o /\ Product(i) \in basket => i \in {o} \X basket
BY DEF Items, Order, Product

-----------------------------------------------------------------------------
LEMMA InitInv == Init => Inv
<1> SUFFICES ASSUME Init
             PROVE  Inv
  OBVIOUS
<1>1. TypeOK
  BY AccountAssumption DEF Init, TypeOK, Accounts
<1>2. ItemsHaveBuyers
  BY DEF Init, ItemsHaveBuyers
<1>3. HoldsBackReservations
  BY DEF Init, HoldsBackReservations, HoldMatches
<1>4. BalancesExplained
  <2>1. \A m : Kept(m) = {} /\ ReservedBy(m) = {}
    BY DEF Init, Kept, ReservedBy, ItemsOf, Bought
  <2>2. Fulfilled = {}
    BY DEF Init, Fulfilled
  <2>3. \A a \in Accounts : available[a] = 0 /\ frozen[a] = 0 /\ adjusted[a] = 0
    BY DEF Init
  <2> QED
    BY <2>1, <2>2, <2>3, CostEmpty DEF BalancesExplained, Accounts
<1> QED
  BY <1>1, <1>2, <1>3, <1>4 DEF Inv

(* The sets of items the balances depend on. *)
LEMMA SetFacts ==
  ASSUME NEW m
  PROVE  /\ Kept(m) \subseteq Items
         /\ ReservedBy(m) \subseteq Kept(m)
         /\ Fulfilled \subseteq Items
BY DEF Kept, ReservedBy, Fulfilled, ItemsOf, Bought

-----------------------------------------------------------------------------
(* Checkout *)

(* The lines of a new order, and those of them that are only reserved. *)
Lines(o, basket) == {o} \X basket
ReservedLines(o, basket) == {i \in Lines(o, basket) : IsLiveReservation(Product(i))}

(* A new order writes its own lines and leaves every other item alone. *)
LEMMA CheckoutSets ==
  ASSUME Inv, NEW m \in Members, NEW o \in Orders, NEW basket \in SUBSET Products,
         Checkout(m, o, basket)
  PROVE  /\ Lines(o, basket) \subseteq Items
         /\ \A i \in Lines(o, basket) : fulfilment[i] = "none"
         /\ \A i \in Items :
              fulfilment'[i] = IF i \in ReservedLines(o, basket) THEN "reserved"
                               ELSE IF i \in Lines(o, basket) THEN "fulfilled" ELSE fulfilment[i]
         /\ \A i \in Lines(o, basket) : buyer'[Order(i)] = m
         /\ \A i \in Items : fulfilment[i] # "none" => buyer'[Order(i)] = buyer[Order(i)]
<1> DEFINE lines == Lines(o, basket)
           reserved == ReservedLines(o, basket)
<1>1. lines \subseteq Items /\ \A i \in lines : Order(i) = o
  BY LineFacts DEF Lines
<1>2. \A i \in Items : Order(i) = o => fulfilment[i] = "none"
  BY AccountAssumption DEF Inv, ItemsHaveBuyers, Checkout
<1>3. \A i \in Items :
        fulfilment'[i] = IF i \in reserved THEN "reserved"
                         ELSE IF i \in lines THEN "fulfilled" ELSE fulfilment[i]
  BY DEF Checkout, Mark, Lines, ReservedLines
<1>4. buyer' = [buyer EXCEPT ![o] = m] /\ buyer \in [Orders -> Members \cup {NoMember}]
  BY DEF Checkout, Inv, TypeOK
<1>5. \A i \in lines : buyer'[Order(i)] = m
  BY <1>1, <1>4
<1>6. \A i \in Items : fulfilment[i] # "none" => buyer'[Order(i)] = buyer[Order(i)]
  BY <1>2, <1>4, ItemFacts
<1>7. \A i \in lines : fulfilment[i] = "none"
  BY <1>1, <1>2
<1> QED
  BY <1>1, <1>3, <1>5, <1>6, <1>7

LEMMA CheckoutBalances ==
  ASSUME Inv, NEW m \in Members, NEW o \in Orders, NEW basket \in SUBSET Products,
         Checkout(m, o, basket)
  PROVE  /\ BalancesExplained'
         /\ available' \in [Accounts -> Int] /\ \A n \in Members : available'[n] >= 0
         /\ frozen' \in [Accounts -> Nat]
<1> DEFINE lines == Lines(o, basket)
           reserved == ReservedLines(o, basket)
           paid == lines \ reserved
<1>1. /\ lines \subseteq Items /\ reserved \subseteq lines
      /\ \A i \in lines : fulfilment[i] = "none"
      /\ \A i \in Items :
           fulfilment'[i] = IF i \in reserved THEN "reserved"
                            ELSE IF i \in lines THEN "fulfilled" ELSE fulfilment[i]
      /\ \A i \in lines : buyer'[Order(i)] = m
      /\ \A i \in Items : fulfilment[i] # "none" => buyer'[Order(i)] = buyer[Order(i)]
  BY CheckoutSets DEF ReservedLines
<1>2. /\ available' = [available EXCEPT ![m] = @ - Cost(lines), ![System] = @ + Cost(paid)]
      /\ frozen' = [frozen EXCEPT ![m] = @ + Cost(reserved)]
      /\ available[m] >= Cost(lines)
      /\ adjusted' = adjusted
  BY DEF Checkout, Lines, ReservedLines
<1>3. /\ available \in [Accounts -> Int] /\ \A n \in Members : available[n] >= 0
      /\ frozen \in [Accounts -> Nat] /\ adjusted \in [Accounts -> Int]
      /\ Members \subseteq Accounts /\ System \in Accounts /\ System \notin Members
  BY AccountAssumption DEF Inv, TypeOK, Accounts
<1> HIDE DEF lines, reserved, paid
<1>4. Cost(lines) \in Nat /\ Cost(reserved) \in Nat /\ Cost(paid) \in Nat
  BY <1>1, CostType DEF paid
<1>5. /\ Kept(m)' = Kept(m) \cup lines /\ Kept(m) \cap lines = {}
      /\ ReservedBy(m)' = ReservedBy(m) \cup reserved /\ ReservedBy(m) \cap reserved = {}
  BY <1>1 DEF Kept, ReservedBy, ItemsOf, Bought
<1>6. \A n \in Members : n # m => Kept(n)' = Kept(n) /\ ReservedBy(n)' = ReservedBy(n)
  BY <1>1 DEF Kept, ReservedBy, ItemsOf, Bought
<1>7. Fulfilled' = Fulfilled \cup paid /\ Fulfilled \cap paid = {}
  BY <1>1 DEF Fulfilled, paid
<1>8. /\ Cost(Kept(m)') = Cost(Kept(m)) + Cost(lines)
      /\ Cost(ReservedBy(m)') = Cost(ReservedBy(m)) + Cost(reserved)
      /\ Cost(Fulfilled') = Cost(Fulfilled) + Cost(paid)
  <2>1. Kept(m) \subseteq Items /\ ReservedBy(m) \subseteq Items /\ Fulfilled \subseteq Items
    BY SetFacts
  <2>2. paid \subseteq Items /\ reserved \subseteq Items
    BY <1>1 DEF paid
  <2> QED
    BY <1>1, <1>5, <1>7, <2>1, <2>2, CostAdd
<1>9. /\ \A n \in Members : available[n] = adjusted[n] - Cost(Kept(n)) /\ frozen[n] = Cost(ReservedBy(n))
      /\ available[System] = adjusted[System] + Cost(Fulfilled)
      /\ frozen[System] = 0
  BY DEF Inv, BalancesExplained
<1>10. \A n \in Members : Cost(Kept(n)) \in Nat /\ Cost(ReservedBy(n)) \in Nat
  BY SetFacts, CostType
<1>11. Cost(Fulfilled) \in Nat
  BY SetFacts, CostType
<1>12. ASSUME NEW n \in Members
       PROVE  available'[n] = adjusted'[n] - Cost(Kept(n)') /\ frozen'[n] = Cost(ReservedBy(n)')
  <2>1. CASE n = m
    <3>1. available'[m] = available[m] - Cost(lines) /\ frozen'[m] = frozen[m] + Cost(reserved)
      BY <1>2, <1>3
    <3> QED
      BY <2>1, <3>1, <1>2, <1>3, <1>4, <1>8, <1>9, <1>10
  <2>2. CASE n # m
    <3>1. available'[n] = available[n] /\ frozen'[n] = frozen[n]
      BY <2>2, <1>2, <1>3
    <3> QED
      BY <2>2, <3>1, <1>2, <1>6, <1>9
  <2> QED
    BY <2>1, <2>2
<1>13. available'[System] = adjusted'[System] + Cost(Fulfilled') /\ frozen'[System] = 0
  <2>1. available'[System] = available[System] + Cost(paid) /\ frozen'[System] = frozen[System]
    BY <1>2, <1>3
  <2> QED
    BY <2>1, <1>2, <1>3, <1>4, <1>8, <1>9, <1>11
<1>14. BalancesExplained'
  BY <1>12, <1>13 DEF BalancesExplained
<1>15. available' \in [Accounts -> Int] /\ \A n \in Members : available'[n] >= 0
  BY <1>2, <1>3, <1>4
<1>16. frozen' \in [Accounts -> Nat]
  BY <1>2, <1>3, <1>4
<1> QED
  BY <1>14, <1>15, <1>16

-----------------------------------------------------------------------------
(* Refunds *)

(* Approving a refund takes the item out of what its buyer keeps. *)
LEMMA ApproveBalances ==
  ASSUME Inv, NEW i \in Items, ApproveRefund(i)
  PROVE  /\ BalancesExplained'
         /\ available' \in [Accounts -> Int] /\ \A n \in Members : available'[n] >= 0
         /\ frozen' \in [Accounts -> Nat]
<1> DEFINE points == ItemPrice[i]
<1>0. /\ fulfilment[i] \in {"reserved", "fulfilled"}
      /\ buyer[Order(i)] \in Members /\ points \in Nat
  BY ItemFacts DEF Inv, TypeOK, ItemsHaveBuyers, ApproveRefund, Decidable
<1>1. PICK m \in Members : m = buyer[Order(i)]
  BY <1>0
<1>2. /\ available \in [Accounts -> Int] /\ \A n \in Members : available[n] >= 0
      /\ frozen \in [Accounts -> Nat] /\ adjusted \in [Accounts -> Int]
      /\ Members \subseteq Accounts /\ System \in Accounts /\ System \notin Members
  BY AccountAssumption DEF Inv, TypeOK, Accounts
<1>3. /\ \A n \in Members : available[n] = adjusted[n] - Cost(Kept(n)) /\ frozen[n] = Cost(ReservedBy(n))
      /\ available[System] = adjusted[System] + Cost(Fulfilled)
      /\ frozen[System] = 0
  BY DEF Inv, BalancesExplained
<1>4. adjusted' = adjusted /\ buyer' = buyer
  BY DEF ApproveRefund
<1>5. \A j \in Items : fulfilment'[j] = IF j = i THEN "refunded" ELSE fulfilment[j]
  BY DEF ApproveRefund, Inv, TypeOK
<1>6. /\ i \in Kept(m) /\ Kept(m)' = Kept(m) \ {i}
      /\ ReservedBy(m)' = ReservedBy(m) \ {i}
      /\ Fulfilled' = Fulfilled \ {i}
      /\ fulfilment[i] = "reserved" => i \in ReservedBy(m) /\ i \notin Fulfilled
      /\ fulfilment[i] = "fulfilled" => i \in Fulfilled /\ i \notin ReservedBy(m)
  BY <1>0, <1>1, <1>4, <1>5 DEF Kept, ReservedBy, Fulfilled, ItemsOf, Bought
<1>7. \A n \in Members : n # m => Kept(n)' = Kept(n) /\ ReservedBy(n)' = ReservedBy(n)
  BY <1>0, <1>1, <1>4, <1>5 DEF Kept, ReservedBy, ItemsOf, Bought
<1>8. /\ Kept(m) \subseteq Items /\ ReservedBy(m) \subseteq Items /\ Fulfilled \subseteq Items
      /\ \A n \in Members : Cost(Kept(n)) \in Nat /\ Cost(ReservedBy(n)) \in Nat
      /\ Cost(Fulfilled) \in Nat
  BY SetFacts, CostType
<1>9. \A S \in SUBSET Items : i \in S => Cost(S \ {i}) = Cost(S) - points /\ points <= Cost(S)
  BY ZenonT(60), CostRemove, CostOne
<1>10. Cost(Kept(m)') = Cost(Kept(m)) - points
  BY <1>6, <1>8, <1>9
<1>11. CASE fulfilment[i] = "reserved"
  <2>1. /\ available' = [available EXCEPT ![m] = @ + points]
        /\ frozen' = [frozen EXCEPT ![m] = @ - points]
    BY <1>1, <1>11 DEF ApproveRefund
  <2>2. /\ Cost(ReservedBy(m)') = Cost(ReservedBy(m)) - points /\ points <= Cost(ReservedBy(m))
        /\ Fulfilled' = Fulfilled
    BY <1>6, <1>8, <1>9, <1>11
  <2> HIDE DEF points
  <2>3. /\ available'[m] = available[m] + points /\ frozen'[m] = frozen[m] - points
        /\ \A a \in Accounts : a # m => available'[a] = available[a] /\ frozen'[a] = frozen[a]
    BY <1>0, <1>1, <1>2, <2>1
  <2>4. available'[m] = adjusted'[m] - Cost(Kept(m)') /\ frozen'[m] = Cost(ReservedBy(m)')
    BY <1>0, <1>1, <1>2, <1>3, <1>4, <1>8, <1>10, <2>2, <2>3
  <2>5. \A n \in Members : n # m =>
          available'[n] = adjusted'[n] - Cost(Kept(n)') /\ frozen'[n] = Cost(ReservedBy(n)')
    BY <1>2, <1>3, <1>4, <1>7, <2>3
  <2>6. available'[System] = adjusted'[System] + Cost(Fulfilled') /\ frozen'[System] = 0
    BY <1>0, <1>1, <1>2, <1>3, <1>4, <2>2, <2>3
  <2>7. BalancesExplained'
    BY <2>4, <2>5, <2>6 DEF BalancesExplained
  <2>8. frozen[m] - points \in Nat
    BY <1>0, <1>1, <1>2, <1>3, <1>8, <2>2
  <2> QED
    BY <1>0, <1>1, <1>2, <2>1, <2>7, <2>8
<1>12. CASE fulfilment[i] = "fulfilled"
  <2>1. /\ available' = [available EXCEPT ![m] = @ + points, ![System] = @ - points]
        /\ frozen' = frozen
    BY <1>1, <1>12 DEF ApproveRefund
  <2>2. /\ Cost(Fulfilled') = Cost(Fulfilled) - points
        /\ ReservedBy(m)' = ReservedBy(m)
    BY <1>6, <1>8, <1>9, <1>12
  <2> HIDE DEF points
  <2>3. /\ available'[m] = available[m] + points /\ available'[System] = available[System] - points
        /\ \A n \in Members : n # m => available'[n] = available[n]
    BY <1>0, <1>1, <1>2, <2>1
  <2>4. available'[m] = adjusted'[m] - Cost(Kept(m)') /\ frozen'[m] = Cost(ReservedBy(m)')
    BY <1>0, <1>1, <1>2, <1>3, <1>4, <1>8, <1>10, <2>1, <2>2, <2>3
  <2>5. \A n \in Members : n # m =>
          available'[n] = adjusted'[n] - Cost(Kept(n)') /\ frozen'[n] = Cost(ReservedBy(n)')
    BY <1>2, <1>3, <1>4, <1>7, <2>1, <2>3
  <2>6. available'[System] = adjusted'[System] + Cost(Fulfilled') /\ frozen'[System] = 0
    BY <1>0, <1>1, <1>2, <1>3, <1>4, <1>8, <2>1, <2>2, <2>3
  <2>7. BalancesExplained'
    BY <2>4, <2>5, <2>6 DEF BalancesExplained
  <2> QED
    BY <1>0, <1>1, <1>2, <2>1, <2>7
<1> QED
  BY <1>0, <1>11, <1>12

-----------------------------------------------------------------------------
(* Settlement and cancellation of live runs *)

(* The active holds of a run are those of its reserved items, so an        *)
(* account's holds cost what its reserved items of the run cost.           *)
LEMMA HoldFacts ==
  ASSUME Inv, NEW r \in LiveRuns
  PROVE  /\ Reserved(r) \subseteq Items
         /\ ActiveHolds(r) \subseteq Reserved(r)
         /\ Cost(ActiveHolds(r)) = Cost(Reserved(r))
         /\ \A m \in Members : Cost(HoldsOf(m, r)) = Cost(ReservedBy(m) \cap Reserved(r))
         /\ Cost(HoldsOf(System, r)) = 0
<1>1. Reserved(r) \subseteq Items /\ \A m : ReservedBy(m) \subseteq Items
  BY DEF Reserved, ReservedBy, ItemsOf, ItemsOfRun, Bought
<1>2. \A i \in Items : hold[i] = "active" <=> fulfilment[i] = "reserved" /\ ItemPrice[i] > 0
  BY DEF Inv, HoldsBackReservations, HoldMatches
<1>3. ActiveHolds(r) = Charged(Reserved(r))
  BY <1>2 DEF ActiveHolds, Reserved, Charged, ItemsOfRun, Bought
<1>4. \A m \in Members : HoldsOf(m, r) = Charged(ReservedBy(m) \cap Reserved(r))
  BY <1>2 DEF HoldsOf, ActiveHolds, Reserved, ReservedBy, Charged, ItemsOf, ItemsOfRun, Bought
<1>5. HoldsOf(System, r) = {}
  BY AccountAssumption DEF HoldsOf, ActiveHolds, ItemsOfRun, Bought, Inv, ItemsHaveBuyers
<1>6. Cost(ActiveHolds(r)) = Cost(Reserved(r))
  BY <1>1, <1>3, CostCharged
<1>7. \A m \in Members : Cost(HoldsOf(m, r)) = Cost(ReservedBy(m) \cap Reserved(r))
  <2> TAKE m \in Members
  <2>1. ReservedBy(m) \cap Reserved(r) \subseteq Items
    BY <1>1
  <2> QED
    BY <1>4, <2>1, CostCharged
<1>8. Cost(HoldsOf(System, r)) = 0
  BY <1>5, CostEmpty
<1>9. ActiveHolds(r) \subseteq Reserved(r)
  BY <1>3 DEF Charged
<1> QED
  BY <1>1, <1>6, <1>7, <1>8, <1>9

(* Completing a run moves the price of its reserved items from their       *)
(* owners' frozen balances to the platform.                                *)
LEMMA CompleteBalances ==
  ASSUME Inv, NEW r \in LiveRuns, CompleteLiveCourseRun(r)
  PROVE  /\ BalancesExplained'
         /\ available' \in [Accounts -> Int] /\ \A n \in Members : available'[n] >= 0
         /\ frozen' \in [Accounts -> Nat]
<1>1. /\ available \in [Accounts -> Int] /\ \A n \in Members : available[n] >= 0
      /\ frozen \in [Accounts -> Nat] /\ adjusted \in [Accounts -> Int]
      /\ Accounts = Members \cup {System} /\ System \notin Members
  BY AccountAssumption DEF Inv, TypeOK, Accounts
<1>2. /\ \A n \in Members : available[n] = adjusted[n] - Cost(Kept(n)) /\ frozen[n] = Cost(ReservedBy(n))
      /\ available[System] = adjusted[System] + Cost(Fulfilled)
      /\ frozen[System] = 0
  BY DEF Inv, BalancesExplained
<1>3. /\ frozen' = [a \in Accounts |-> frozen[a] - Cost(HoldsOf(a, r))]
      /\ available' = [available EXCEPT ![System] = @ + Cost(ActiveHolds(r))]
      /\ adjusted' = adjusted /\ buyer' = buyer
  BY DEF CompleteLiveCourseRun
<1>4. \A i \in Items : fulfilment'[i] = IF i \in Reserved(r) THEN "fulfilled" ELSE fulfilment[i]
  BY DEF CompleteLiveCourseRun, Mark
<1>5. \A i \in Reserved(r) : fulfilment[i] = "reserved"
  BY DEF Reserved
<1>6. \A m \in Members :
        /\ Kept(m)' = Kept(m)
        /\ ReservedBy(m)' = ReservedBy(m) \ (ReservedBy(m) \cap Reserved(r))
  BY <1>3, <1>4, <1>5 DEF Kept, ReservedBy, ItemsOf, Bought
<1>7. Fulfilled' = Fulfilled \cup Reserved(r) /\ Fulfilled \cap Reserved(r) = {}
  BY <1>4, <1>5, HoldFacts DEF Fulfilled
<1>8. /\ \A m \in Members : ReservedBy(m) \subseteq Items
      /\ Fulfilled \subseteq Items /\ Reserved(r) \subseteq Items
  BY SetFacts, HoldFacts
<1>9. Cost(Fulfilled') = Cost(Fulfilled) + Cost(ActiveHolds(r))
  BY <1>7, <1>8, CostAdd, HoldFacts
<1>10. \A m \in Members :
         /\ Cost(ReservedBy(m)') = Cost(ReservedBy(m)) - Cost(HoldsOf(m, r))
         /\ Cost(HoldsOf(m, r)) <= Cost(ReservedBy(m))
  <2> TAKE m \in Members
  <2>1. ReservedBy(m) \subseteq Items /\ ReservedBy(m) \cap Reserved(r) \subseteq ReservedBy(m)
    BY <1>8
  <2>2. /\ Cost(ReservedBy(m) \ (ReservedBy(m) \cap Reserved(r)))
             = Cost(ReservedBy(m)) - Cost(ReservedBy(m) \cap Reserved(r))
        /\ Cost(ReservedBy(m) \cap Reserved(r)) <= Cost(ReservedBy(m))
    BY <2>1, CostRemove
  <2>3. Cost(HoldsOf(m, r)) = Cost(ReservedBy(m) \cap Reserved(r))
    BY HoldFacts
  <2> QED
    BY <1>6, <2>2, <2>3
<1>11. /\ \A m \in Members : Cost(Kept(m)) \in Nat /\ Cost(ReservedBy(m)) \in Nat
       /\ Cost(Fulfilled) \in Nat
  BY SetFacts, CostType
<1>12. \A a \in Accounts : Cost(HoldsOf(a, r)) \in Nat
  <2> TAKE a \in Accounts
  <2>1. HoldsOf(a, r) \subseteq Items
    BY DEF HoldsOf, ActiveHolds, ItemsOfRun, Bought
  <2> QED
    BY <2>1, CostType
<1>13. Cost(ActiveHolds(r)) \in Nat
  BY <1>8, CostType, HoldFacts
<1>14. ASSUME NEW m \in Members
       PROVE  available'[m] = adjusted'[m] - Cost(Kept(m)') /\ frozen'[m] = Cost(ReservedBy(m)')
  <2>1. available'[m] = available[m] /\ frozen'[m] = frozen[m] - Cost(HoldsOf(m, r))
    BY <1>1, <1>3
  <2>2. Cost(Kept(m)') = Cost(Kept(m))
    BY <1>6
  <2>3. adjusted'[m] = adjusted[m]
    BY <1>3
  <2> QED
    BY <1>2, <1>10, <2>1, <2>2, <2>3
<1>15. available'[System] = adjusted'[System] + Cost(Fulfilled') /\ frozen'[System] = 0
  <2>1. /\ available'[System] = available[System] + Cost(ActiveHolds(r))
        /\ frozen'[System] = frozen[System] - 0
    BY <1>1, <1>3, HoldFacts
  <2>2. adjusted'[System] = adjusted[System]
    BY <1>3
  <2>3. available[System] \in Int /\ adjusted[System] \in Int
    BY <1>1
  <2> QED
    BY <1>2, <1>9, <1>11, <1>13, <2>1, <2>2, <2>3
<1>16. BalancesExplained'
  BY <1>14, <1>15 DEF BalancesExplained
<1>17. available' \in [Accounts -> Int] /\ \A n \in Members : available'[n] >= 0
  BY <1>1, <1>3, <1>13
<1>18. frozen' \in [Accounts -> Nat]
  <2>1. \A m \in Members : frozen[m] - Cost(HoldsOf(m, r)) \in Nat
    BY <1>1, <1>2, <1>10, <1>12
  <2>2. frozen[System] - Cost(HoldsOf(System, r)) \in Nat
    BY <1>2, HoldFacts
  <2> QED
    BY <1>1, <1>3, <2>1, <2>2
<1> QED
  BY <1>16, <1>17, <1>18

(* Cancelling a run gives every owner of a reserved item its price back.   *)
LEMMA CancelBalances ==
  ASSUME Inv, NEW r \in LiveRuns, CancelLiveCourseRun(r)
  PROVE  /\ BalancesExplained'
         /\ available' \in [Accounts -> Int] /\ \A n \in Members : available'[n] >= 0
         /\ frozen' \in [Accounts -> Nat]
<1>1. /\ available \in [Accounts -> Int] /\ \A n \in Members : available[n] >= 0
      /\ frozen \in [Accounts -> Nat] /\ adjusted \in [Accounts -> Int]
      /\ Accounts = Members \cup {System} /\ System \notin Members
  BY AccountAssumption DEF Inv, TypeOK, Accounts
<1>2. /\ \A n \in Members : available[n] = adjusted[n] - Cost(Kept(n)) /\ frozen[n] = Cost(ReservedBy(n))
      /\ available[System] = adjusted[System] + Cost(Fulfilled)
      /\ frozen[System] = 0
  BY DEF Inv, BalancesExplained
<1>3. /\ frozen' = [a \in Accounts |-> frozen[a] - Cost(HoldsOf(a, r))]
      /\ available' = [a \in Accounts |-> available[a] + Cost(HoldsOf(a, r))]
      /\ adjusted' = adjusted /\ buyer' = buyer
  BY DEF CancelLiveCourseRun
<1>4. \A i \in Items : fulfilment'[i] = IF i \in Reserved(r) THEN "refunded" ELSE fulfilment[i]
  BY DEF CancelLiveCourseRun, Mark
<1>5. \A i \in Reserved(r) : fulfilment[i] = "reserved" /\ i \in Bought
  BY DEF Reserved, ItemsOfRun
<1>6. \A m \in Members :
        /\ Kept(m)' = Kept(m) \ (ReservedBy(m) \cap Reserved(r))
        /\ ReservedBy(m)' = ReservedBy(m) \ (ReservedBy(m) \cap Reserved(r))
  BY <1>3, <1>4, <1>5 DEF Kept, ReservedBy, ItemsOf, Bought
<1>7. Fulfilled' = Fulfilled
  BY <1>4, <1>5 DEF Fulfilled
<1>8. \A m \in Members : ReservedBy(m) \subseteq Items /\ Kept(m) \subseteq Items /\ ReservedBy(m) \subseteq Kept(m)
  BY SetFacts
<1>9. \A m \in Members :
        /\ Cost(Kept(m)') = Cost(Kept(m)) - Cost(HoldsOf(m, r))
        /\ Cost(ReservedBy(m)') = Cost(ReservedBy(m)) - Cost(HoldsOf(m, r))
        /\ Cost(HoldsOf(m, r)) <= Cost(ReservedBy(m))
  <2> TAKE m \in Members
  <2> DEFINE T == ReservedBy(m) \cap Reserved(r)
  <2>1. /\ ReservedBy(m) \subseteq Items /\ T \subseteq ReservedBy(m)
        /\ Kept(m) \subseteq Items /\ T \subseteq Kept(m)
    BY <1>8
  <2>2. Cost(ReservedBy(m) \ T) = Cost(ReservedBy(m)) - Cost(T) /\ Cost(T) <= Cost(ReservedBy(m))
    BY <2>1, CostRemove
  <2>3. Cost(Kept(m) \ T) = Cost(Kept(m)) - Cost(T)
    BY <2>1, CostRemove
  <2>4. Cost(HoldsOf(m, r)) = Cost(T)
    BY HoldFacts
  <2> QED
    BY <1>6, <2>2, <2>3, <2>4
<1>10. /\ \A m \in Members : Cost(Kept(m)) \in Nat /\ Cost(ReservedBy(m)) \in Nat
       /\ Cost(Fulfilled) \in Nat
  BY SetFacts, CostType
<1>11. \A a \in Accounts : Cost(HoldsOf(a, r)) \in Nat
  <2> TAKE a \in Accounts
  <2>1. HoldsOf(a, r) \subseteq Items
    BY DEF HoldsOf, ActiveHolds, ItemsOfRun, Bought
  <2> QED
    BY <2>1, CostType
<1>12. ASSUME NEW m \in Members
       PROVE  available'[m] = adjusted'[m] - Cost(Kept(m)') /\ frozen'[m] = Cost(ReservedBy(m)')
  <2>1. available'[m] = available[m] + Cost(HoldsOf(m, r)) /\ frozen'[m] = frozen[m] - Cost(HoldsOf(m, r))
    BY <1>1, <1>3
  <2>2. adjusted'[m] = adjusted[m] /\ adjusted[m] \in Int /\ Cost(HoldsOf(m, r)) \in Nat
    BY <1>1, <1>3, <1>11
  <2> QED
    BY <1>2, <1>9, <1>10, <2>1, <2>2
<1>13. available'[System] = adjusted'[System] + Cost(Fulfilled') /\ frozen'[System] = 0
  <2>1. /\ available'[System] = available[System] + 0
        /\ frozen'[System] = frozen[System] - 0
    BY <1>1, <1>3, HoldFacts
  <2>2. adjusted'[System] = adjusted[System] /\ Cost(Fulfilled') = Cost(Fulfilled)
    BY <1>3, <1>7
  <2>3. available[System] \in Int
    BY <1>1
  <2> QED
    BY <1>2, <2>1, <2>2, <2>3
<1>14. BalancesExplained'
  BY <1>12, <1>13 DEF BalancesExplained
<1>15. available' \in [Accounts -> Int] /\ \A n \in Members : available'[n] >= 0
  BY <1>1, <1>3, <1>11
<1>16. frozen' \in [Accounts -> Nat]
  <2>1. \A m \in Members : frozen[m] - Cost(HoldsOf(m, r)) \in Nat
    BY <1>1, <1>2, <1>9, <1>11
  <2>2. frozen[System] - Cost(HoldsOf(System, r)) \in Nat
    BY <1>2, HoldFacts
  <2> QED
    BY <1>1, <1>3, <2>1, <2>2
<1> QED
  BY <1>14, <1>15, <1>16

-----------------------------------------------------------------------------
(* Adjustments, and the steps that move no points *)

LEMMA AdjustBalances ==
  ASSUME Inv, NEW m \in Members, NEW delta \in Adjustments, AdjustPoints(m, delta)
  PROVE  /\ BalancesExplained'
         /\ available' \in [Accounts -> Int] /\ \A n \in Members : available'[n] >= 0
         /\ frozen' \in [Accounts -> Nat]
         /\ adjusted' \in [Accounts -> Int]
<1>1. /\ available \in [Accounts -> Int] /\ \A n \in Members : available[n] >= 0
      /\ frozen \in [Accounts -> Nat] /\ adjusted \in [Accounts -> Int]
      /\ Members \subseteq Accounts /\ System \in Accounts /\ System \notin Members
      /\ delta \in Int
  BY AccountAssumption DEF Inv, TypeOK, Accounts
<1>2. /\ \A n \in Members : available[n] = adjusted[n] - Cost(Kept(n)) /\ frozen[n] = Cost(ReservedBy(n))
      /\ available[System] = adjusted[System] + Cost(Fulfilled)
      /\ frozen[System] = 0
  BY DEF Inv, BalancesExplained
<1>3. /\ available' = [available EXCEPT ![m] = @ + delta, ![System] = @ - delta]
      /\ adjusted' = [adjusted EXCEPT ![m] = @ + delta, ![System] = @ - delta]
      /\ available[m] + delta >= 0
      /\ frozen' = frozen /\ buyer' = buyer /\ fulfilment' = fulfilment
  BY DEF AdjustPoints, itemVars
<1>4. /\ \A n \in Members : Kept(n)' = Kept(n) /\ ReservedBy(n)' = ReservedBy(n)
      /\ Fulfilled' = Fulfilled
  BY <1>3 DEF Kept, ReservedBy, Fulfilled, ItemsOf, Bought
<1>5. \A n \in Members :
        /\ Cost(Kept(n)') = Cost(Kept(n)) /\ Cost(ReservedBy(n)') = Cost(ReservedBy(n))
        /\ Cost(Kept(n)) \in Nat
  BY <1>4, SetFacts, CostType
<1>6. Cost(Fulfilled') = Cost(Fulfilled) /\ Cost(Fulfilled) \in Nat
  BY <1>4, SetFacts, CostType
<1>7. ASSUME NEW n \in Members
      PROVE  available'[n] = adjusted'[n] - Cost(Kept(n)') /\ frozen'[n] = Cost(ReservedBy(n)')
  <2>1. \/ n = m /\ available'[n] = available[n] + delta /\ adjusted'[n] = adjusted[n] + delta
        \/ n # m /\ available'[n] = available[n] /\ adjusted'[n] = adjusted[n]
    BY <1>1, <1>3
  <2>2. adjusted[n] \in Int /\ frozen'[n] = frozen[n]
    BY <1>1, <1>3
  <2> QED
    BY <1>1, <1>2, <1>5, <2>1, <2>2
<1>8. available'[System] = adjusted'[System] + Cost(Fulfilled') /\ frozen'[System] = 0
  <2>1. available'[System] = available[System] - delta /\ adjusted'[System] = adjusted[System] - delta
    BY <1>1, <1>3
  <2> QED
    BY <1>1, <1>2, <1>3, <1>6, <2>1
<1>9. BalancesExplained'
  BY <1>7, <1>8 DEF BalancesExplained
<1>10. available' \in [Accounts -> Int] /\ adjusted' \in [Accounts -> Int]
  BY <1>1, <1>3
<1>11. \A n \in Members : available'[n] >= 0
  BY <1>1, <1>3
<1> QED
  BY <1>1, <1>3, <1>9, <1>10, <1>11

LEMMA StillBalances ==
  ASSUME Inv, UNCHANGED <<buyer, fulfilment, moneyVars>>
  PROVE  BalancesExplained'
<1>1. /\ available' = available /\ frozen' = frozen /\ adjusted' = adjusted
      /\ buyer' = buyer /\ fulfilment' = fulfilment
  BY DEF moneyVars
<1>2. /\ \A n \in Members : Kept(n)' = Kept(n) /\ ReservedBy(n)' = ReservedBy(n)
      /\ Fulfilled' = Fulfilled
  BY <1>1 DEF Kept, ReservedBy, Fulfilled, ItemsOf, Bought
<1> QED
  BY <1>1, <1>2 DEF Inv, BalancesExplained

-----------------------------------------------------------------------------
(* The inductive step *)

(* What Mark writes. *)
LEMMA MarkType ==
  ASSUME NEW f, NEW S, NEW v, NEW R, f \in [Items -> R], v \in R
  PROVE  Mark(f, S, v) \in [Items -> R]
BY DEF Mark

LEMMA CheckoutInv ==
  ASSUME Inv, NEW m \in Members, NEW o \in Orders, NEW basket \in SUBSET Products,
         Checkout(m, o, basket)
  PROVE  Inv'
<1> DEFINE lines == Lines(o, basket)
           reserved == ReservedLines(o, basket)
<1>1. /\ lines \subseteq Items /\ reserved \subseteq lines
      /\ \A i \in lines : fulfilment[i] = "none"
      /\ \A i \in Items :
           fulfilment'[i] = IF i \in reserved THEN "reserved"
                            ELSE IF i \in lines THEN "fulfilled" ELSE fulfilment[i]
      /\ \A i \in lines : buyer'[Order(i)] = m
      /\ \A i \in Items : fulfilment[i] # "none" => buyer'[Order(i)] = buyer[Order(i)]
  BY CheckoutSets DEF ReservedLines
<1>2. /\ buyer' = [buyer EXCEPT ![o] = m]
      /\ orderStatus' = [orderStatus EXCEPT ![o] = "paid"]
      /\ fulfilment' = Mark(Mark(fulfilment, reserved, "reserved"), lines \ reserved, "fulfilled")
      /\ access' = Mark(access, lines, "open")
      /\ allocation' = Mark(allocation, lines, "pending")
      /\ hold' = Mark(hold, Charged(reserved), "active")
      /\ UNCHANGED <<runStatus, phase, request, adjusted, checking, evidence, issued>>
      /\ \A p \in basket : Purchasable(m, p)
  BY DEF Checkout, Lines, ReservedLines, mediaVars
<1>3. \A i \in reserved : Product(i) \in LiveRuns /\ runStatus[Product(i)] = "published"
  <2> TAKE i \in reserved
  <2>1. Product(i) \in basket /\ Product(i) \in LiveRuns
    BY LineFacts DEF Lines, ReservedLines, IsLiveReservation
  <2> QED
    BY <1>2, <2>1 DEF Purchasable
<1> HIDE DEF lines, reserved
<1>4. TypeOK'
  <2>1. /\ fulfilment' \in [Items -> {"none", "reserved", "fulfilled", "refunded"}]
        /\ access' \in [Items -> {"none", "open", "closed"}]
        /\ allocation' \in [Items -> {"none", "pending", "settled", "reversed"}]
        /\ hold' \in [Items -> {"none", "active", "released", "cancelled"}]
    BY <1>2, MarkType DEF Inv, TypeOK
  <2>2. /\ available' \in [Accounts -> Int] /\ \A n \in Members : available'[n] >= 0
        /\ frozen' \in [Accounts -> Nat]
    BY CheckoutBalances
  <2> QED
    BY <1>2, <2>1, <2>2 DEF Inv, TypeOK
<1>5. ItemsHaveBuyers'
  BY <1>1, <1>2 DEF Inv, ItemsHaveBuyers
<1>6. HoldsBackReservations'
  <2> SUFFICES ASSUME NEW i \in Items
               PROVE  HoldMatches(i)'
    BY DEF HoldsBackReservations
  <2>1. HoldMatches(i)
    BY DEF Inv, HoldsBackReservations
  <2>2. hold'[i] = IF i \in reserved /\ ItemPrice[i] > 0 THEN "active" ELSE hold[i]
    BY <1>2 DEF Mark, Charged
  <2>3. runStatus' = runStatus
    BY <1>2
  <2>4. CASE i \in reserved
    BY <1>1, <1>3, <2>1, <2>2, <2>3, <2>4 DEF HoldMatches
  <2>5. CASE i \in lines \ reserved
    BY <1>1, <2>1, <2>2, <2>3, <2>5 DEF HoldMatches
  <2>6. CASE i \notin lines
    BY <1>1, <2>1, <2>2, <2>3, <2>6 DEF HoldMatches
  <2> QED
    BY <2>4, <2>5, <2>6
<1>7. BalancesExplained'
  BY CheckoutBalances
<1> QED
  BY <1>4, <1>5, <1>6, <1>7 DEF Inv

LEMMA ApproveInv ==
  ASSUME Inv, NEW i \in Items, ApproveRefund(i)
  PROVE  Inv'
<1>1. /\ fulfilment' = [fulfilment EXCEPT ![i] = "refunded"]
      /\ request' = [request EXCEPT ![i] = "approved"]
      /\ access' = [access EXCEPT ![i] = "closed"]
      /\ allocation' = [allocation EXCEPT ![i] = IF @ = "pending" THEN "reversed" ELSE @]
      /\ orderStatus' = [orderStatus EXCEPT ![Order(i)] = RefundedStatus(Order(i), fulfilment')]
      /\ UNCHANGED <<runStatus, phase, buyer, adjusted, checking, evidence, issued>>
      /\ Product(i) \in LiveRuns => fulfilment[i] = "reserved"
      /\ request[i] = "pending"
      /\ fulfilment[i] = "reserved" => hold' = Mark(hold, Charged({i}), "cancelled")
      /\ fulfilment[i] # "reserved" => hold' = hold
  BY DEF ApproveRefund, Decidable, Refundable, mediaVars
<1>2. TypeOK'
  <2>1. hold' \in [Items -> {"none", "active", "released", "cancelled"}]
    <3>1. hold \in [Items -> {"none", "active", "released", "cancelled"}]
      BY DEF Inv, TypeOK
    <3>2. Mark(hold, Charged({i}), "cancelled") \in [Items -> {"none", "active", "released", "cancelled"}]
      BY <3>1, MarkType
    <3> QED
      BY <1>1, <3>1, <3>2
  <2>2. /\ available' \in [Accounts -> Int] /\ \A n \in Members : available'[n] >= 0
        /\ frozen' \in [Accounts -> Nat]
    BY ApproveBalances
  <2>3. RefundedStatus(Order(i), fulfilment') \in {"refunded", "partially_refunded"}
    BY DEF RefundedStatus
  <2>4. orderStatus' \in [Orders -> {"none", "paid", "partially_refunded", "refunded"}]
    BY <1>1, <2>3 DEF Inv, TypeOK
  <2>5. /\ fulfilment' \in [Items -> {"none", "reserved", "fulfilled", "refunded"}]
        /\ access' \in [Items -> {"none", "open", "closed"}]
        /\ request' \in [Items -> {"none", "pending", "approved", "rejected", "cancelled"}]
    BY <1>1 DEF Inv, TypeOK
  <2>6. allocation' \in [Items -> {"none", "pending", "settled", "reversed"}]
    BY <1>1 DEF Inv, TypeOK
  <2> QED
    BY <1>1, <2>1, <2>2, <2>4, <2>5, <2>6 DEF Inv, TypeOK
<1>3. ItemsHaveBuyers'
  BY <1>1 DEF Inv, TypeOK, ItemsHaveBuyers
<1>4. HoldsBackReservations'
  <2>1. \A j \in Items : fulfilment'[j] = IF j = i THEN "refunded" ELSE fulfilment[j]
    BY <1>1 DEF Inv, TypeOK
  <2>2. /\ \A j \in Items : j # i => hold'[j] = hold[j]
        /\ hold'[i] = IF fulfilment[i] = "reserved" /\ ItemPrice[i] > 0 THEN "cancelled" ELSE hold[i]
    BY <1>1 DEF Mark, Charged, Inv, TypeOK
  <2>3. hold'[i] \notin {"active", "released"}
    BY <1>1, <2>2 DEF Inv, HoldsBackReservations, HoldMatches
  <2> QED
    BY <1>1, <2>1, <2>2, <2>3 DEF Inv, HoldsBackReservations, HoldMatches
<1>5. BalancesExplained'
  BY ApproveBalances
<1> QED
  BY <1>2, <1>3, <1>4, <1>5 DEF Inv

LEMMA CompleteInv ==
  ASSUME Inv, NEW r \in LiveRuns, CompleteLiveCourseRun(r)
  PROVE  Inv'
<1>1. /\ hold' = Mark(hold, ActiveHolds(r), "released")
      /\ fulfilment' = Mark(fulfilment, Reserved(r), "fulfilled")
      /\ allocation' = Mark(allocation, PendingEarnings(r), "settled")
      /\ runStatus' = [runStatus EXCEPT ![r] = "completed"]
      /\ UNCHANGED <<phase, buyer, orderStatus, access, request, adjusted, checking, evidence, issued>>
      /\ runStatus[r] = "published"
  BY DEF CompleteLiveCourseRun, mediaVars
<1>2. TypeOK'
  <2>1. /\ fulfilment' \in [Items -> {"none", "reserved", "fulfilled", "refunded"}]
        /\ allocation' \in [Items -> {"none", "pending", "settled", "reversed"}]
        /\ hold' \in [Items -> {"none", "active", "released", "cancelled"}]
    BY <1>1, MarkType DEF Inv, TypeOK
  <2>2. /\ available' \in [Accounts -> Int] /\ \A n \in Members : available'[n] >= 0
        /\ frozen' \in [Accounts -> Nat]
    BY CompleteBalances
  <2> QED
    BY <1>1, <2>1, <2>2 DEF Inv, TypeOK
<1>3. \A i \in Reserved(r) : i \in Items /\ fulfilment[i] = "reserved" /\ Product(i) = r
  BY DEF Reserved, ItemsOfRun, Bought
<1>4. ItemsHaveBuyers'
  BY <1>1, <1>3 DEF Mark, Inv, ItemsHaveBuyers
<1>5. HoldsBackReservations'
  <2> SUFFICES ASSUME NEW i \in Items
               PROVE  HoldMatches(i)'
    BY DEF HoldsBackReservations
  <2>1. HoldMatches(i)
    BY DEF Inv, HoldsBackReservations
  <2>2. /\ hold'[i] = IF i \in ActiveHolds(r) THEN "released" ELSE hold[i]
        /\ fulfilment'[i] = IF i \in Reserved(r) THEN "fulfilled" ELSE fulfilment[i]
    BY <1>1 DEF Mark
  <2>3. /\ i \in ActiveHolds(r) <=> Product(i) = r /\ hold[i] = "active"
        /\ i \in Reserved(r) <=> Product(i) = r /\ fulfilment[i] = "reserved"
    BY <2>1 DEF HoldMatches, ActiveHolds, Reserved, ItemsOfRun, Bought
  <2>4. /\ Product(i) = r => runStatus'[Product(i)] = "completed" /\ runStatus[Product(i)] = "published"
        /\ Product(i) # r => runStatus'[Product(i)] = runStatus[Product(i)]
    BY <1>1 DEF Inv, TypeOK
  <2>5. CASE Product(i) = r
    BY <2>1, <2>2, <2>3, <2>4, <2>5 DEF HoldMatches
  <2>6. CASE Product(i) # r
    BY <2>1, <2>2, <2>3, <2>4, <2>6 DEF HoldMatches
  <2> QED
    BY <2>5, <2>6
<1>6. BalancesExplained'
  BY CompleteBalances
<1> QED
  BY <1>2, <1>4, <1>5, <1>6 DEF Inv

LEMMA CancelInv ==
  ASSUME Inv, NEW r \in LiveRuns, CancelLiveCourseRun(r)
  PROVE  Inv'
<1>1. /\ hold' = Mark(hold, ActiveHolds(r), "cancelled")
      /\ fulfilment' = Mark(fulfilment, Reserved(r), "refunded")
      /\ access' = Mark(access, OpenSeats(r), "closed")
      /\ request' = Mark(request, {i \in ItemsOfRun(r) : request[i] = "pending"}, "cancelled")
      /\ allocation' = Mark(allocation, PendingEarnings(r), "reversed")
      /\ orderStatus' = [o \in Orders |->
           IF \E i \in ItemsOfRun(r) : Order(i) = o
           THEN RefundedStatus(o, fulfilment') ELSE orderStatus[o]]
      /\ runStatus' = [runStatus EXCEPT ![r] = "cancelled"]
      /\ UNCHANGED <<phase, buyer, adjusted, checking, evidence, issued>>
      /\ runStatus[r] = "published"
  BY DEF CancelLiveCourseRun, mediaVars
<1>2. TypeOK'
  <2>1. /\ fulfilment' \in [Items -> {"none", "reserved", "fulfilled", "refunded"}]
        /\ access' \in [Items -> {"none", "open", "closed"}]
        /\ request' \in [Items -> {"none", "pending", "approved", "rejected", "cancelled"}]
        /\ allocation' \in [Items -> {"none", "pending", "settled", "reversed"}]
        /\ hold' \in [Items -> {"none", "active", "released", "cancelled"}]
    BY <1>1, MarkType DEF Inv, TypeOK
  <2>2. /\ available' \in [Accounts -> Int] /\ \A n \in Members : available'[n] >= 0
        /\ frozen' \in [Accounts -> Nat]
    BY CancelBalances
  <2>3. \A o \in Orders : RefundedStatus(o, fulfilment') \in {"refunded", "partially_refunded"}
    BY DEF RefundedStatus
  <2>4. orderStatus' \in [Orders -> {"none", "paid", "partially_refunded", "refunded"}]
    BY <1>1, <2>3 DEF Inv, TypeOK
  <2> QED
    BY <1>1, <2>1, <2>2, <2>4 DEF Inv, TypeOK
<1>3. \A i \in Reserved(r) : i \in Items /\ fulfilment[i] = "reserved" /\ Product(i) = r
  BY DEF Reserved, ItemsOfRun, Bought
<1>4. ItemsHaveBuyers'
  BY <1>1, <1>3 DEF Mark, Inv, ItemsHaveBuyers
<1>5. HoldsBackReservations'
  <2> SUFFICES ASSUME NEW i \in Items
               PROVE  HoldMatches(i)'
    BY DEF HoldsBackReservations
  <2>1. HoldMatches(i)
    BY DEF Inv, HoldsBackReservations
  <2>2. /\ hold'[i] = IF i \in ActiveHolds(r) THEN "cancelled" ELSE hold[i]
        /\ fulfilment'[i] = IF i \in Reserved(r) THEN "refunded" ELSE fulfilment[i]
    BY <1>1 DEF Mark
  <2>3. /\ i \in ActiveHolds(r) <=> Product(i) = r /\ hold[i] = "active"
        /\ i \in Reserved(r) <=> Product(i) = r /\ fulfilment[i] = "reserved"
    BY <2>1 DEF HoldMatches, ActiveHolds, Reserved, ItemsOfRun, Bought
  <2>4. /\ Product(i) = r => runStatus[Product(i)] = "published"
        /\ Product(i) # r => runStatus'[Product(i)] = runStatus[Product(i)]
    BY <1>1 DEF Inv, TypeOK
  <2>5. CASE Product(i) = r
    BY <2>1, <2>2, <2>3, <2>4, <2>5 DEF HoldMatches
  <2>6. CASE Product(i) # r
    BY <2>1, <2>2, <2>3, <2>4, <2>6 DEF HoldMatches
  <2> QED
    BY <2>5, <2>6
<1>6. BalancesExplained'
  BY CancelBalances
<1> QED
  BY <1>2, <1>4, <1>5, <1>6 DEF Inv

LEMMA AdjustInv ==
  ASSUME Inv, NEW m \in Members, NEW delta \in Adjustments, AdjustPoints(m, delta)
  PROVE  Inv'
<1>1. UNCHANGED <<runStatus, phase, itemVars, request, mediaVars>>
  BY DEF AdjustPoints
<1>2. TypeOK'
  BY <1>1, AdjustBalances DEF Inv, TypeOK, itemVars, mediaVars
<1>3. ItemsHaveBuyers'
  BY <1>1 DEF Inv, ItemsHaveBuyers, itemVars
<1>4. HoldsBackReservations'
  BY <1>1 DEF Inv, HoldsBackReservations, HoldMatches, itemVars
<1>5. BalancesExplained'
  BY AdjustBalances
<1> QED
  BY <1>2, <1>3, <1>4, <1>5 DEF Inv

(* A step that changes neither the items nor the balances.                 *)
LEMMA StillInv ==
  ASSUME Inv, UNCHANGED <<runStatus, itemVars, moneyVars>>, TypeOK',
         \A i \in Items : request'[i] = "pending" => fulfilment[i] # "none"
  PROVE  Inv'
<1>1. ItemsHaveBuyers'
  BY DEF Inv, ItemsHaveBuyers, itemVars
<1>2. HoldsBackReservations'
  BY DEF Inv, HoldsBackReservations, HoldMatches, itemVars
<1>3. BalancesExplained'
  BY StillBalances DEF itemVars
<1> QED
  BY <1>1, <1>2, <1>3 DEF Inv

LEMMA NextInv == Inv /\ [Next]_vars => Inv'
<1> SUFFICES ASSUME Inv, [Next]_vars
             PROVE  Inv'
  OBVIOUS
<1>a. TypeOK /\ ItemsHaveBuyers
  BY DEF Inv
<1>1. ASSUME NEW m \in Members, NEW o \in Orders, NEW basket \in SUBSET Products, Checkout(m, o, basket)
      PROVE  Inv'
  BY <1>1, CheckoutInv
<1>2. ASSUME NEW i \in Items, CreateRefundRequest(i)
      PROVE  Inv'
  <2>1. TypeOK'
    BY <1>a, <1>2 DEF CreateRefundRequest, TypeOK, itemVars, moneyVars, mediaVars
  <2>2. \A j \in Items : request'[j] = "pending" => fulfilment[j] # "none"
    BY <1>a, <1>2 DEF CreateRefundRequest, TypeOK, ItemsHaveBuyers
  <2> QED
    BY <1>2, <2>1, <2>2, StillInv DEF CreateRefundRequest
<1>3. ASSUME NEW i \in Items, RejectRefund(i)
      PROVE  Inv'
  <2>1. TypeOK'
    BY <1>a, <1>3 DEF RejectRefund, TypeOK, itemVars, moneyVars, mediaVars
  <2>2. \A j \in Items : request'[j] = "pending" => fulfilment[j] # "none"
    BY <1>a, <1>3 DEF RejectRefund, TypeOK, ItemsHaveBuyers
  <2> QED
    BY <1>3, <2>1, <2>2, StillInv DEF RejectRefund
<1>4. ASSUME NEW i \in Items, ApproveRefund(i)
      PROVE  Inv'
  BY <1>4, ApproveInv
<1>5. ASSUME NEW r \in LiveRuns, CompleteLiveCourseRun(r)
      PROVE  Inv'
  BY <1>5, CompleteInv
<1>6. ASSUME NEW r \in LiveRuns, CancelLiveCourseRun(r)
      PROVE  Inv'
  BY <1>6, CancelInv
<1>7. ASSUME NEW m \in Members, NEW delta \in Adjustments, AdjustPoints(m, delta)
      PROVE  Inv'
  BY <1>7, AdjustInv
<1>8. ASSUME NEW i \in Items, BeginDownload(i) \/ FinishDownload(i) \/ Watch(i)
      PROVE  Inv'
  <2>1. /\ UNCHANGED <<runStatus, phase, itemVars, request, moneyVars>>
        /\ checking' \subseteq Items /\ evidence' \subseteq Items /\ issued' \subseteq Items
    BY <1>a, <1>8 DEF BeginDownload, FinishDownload, Watch, TypeOK
  <2>2. TypeOK'
    BY <1>a, <2>1 DEF TypeOK, itemVars, moneyVars
  <2>3. \A j \in Items : request'[j] = "pending" => fulfilment[j] # "none"
    BY <1>a, <2>1 DEF ItemsHaveBuyers
  <2> QED
    BY <2>1, <2>2, <2>3, StillInv
<1>9. ASSUME NEW r \in SelfArranged, PassTime(r)
      PROVE  Inv'
  <2>1. UNCHANGED <<runStatus, itemVars, request, moneyVars, mediaVars>>
    BY <1>9 DEF PassTime
  <2>2. TypeOK'
    BY <1>a, <1>9, <2>1 DEF PassTime, TypeOK, itemVars, moneyVars, mediaVars
  <2>3. \A j \in Items : request'[j] = "pending" => fulfilment[j] # "none"
    BY <1>a, <2>1 DEF ItemsHaveBuyers
  <2> QED
    BY <2>1, <2>2, <2>3, StillInv
<1>10. CASE UNCHANGED vars
  <2>1. UNCHANGED <<runStatus, phase, itemVars, request, moneyVars, mediaVars>>
    BY <1>10 DEF vars
  <2>2. TypeOK'
    BY <1>a, <2>1 DEF TypeOK, itemVars, moneyVars, mediaVars
  <2>3. \A j \in Items : request'[j] = "pending" => fulfilment[j] # "none"
    BY <1>a, <2>1 DEF ItemsHaveBuyers
  <2> QED
    BY <2>1, <2>2, <2>3, StillInv
<1> QED
  BY <1>1, <1>2, <1>3, <1>4, <1>5, <1>6, <1>7, <1>8, <1>9, <1>10 DEF Next

-----------------------------------------------------------------------------
(* The inductive invariant holds of every reachable state. *)
THEOREM Invariance == Spec => []Inv
<1>1. Init => Inv
  BY InitInv
<1>2. Inv /\ [Next]_vars => Inv'
  BY NextInv
<1> QED
  BY <1>1, <1>2, PTL DEF Spec

(* Every variable keeps its type; in particular no member's balance is     *)
(* ever negative and nobody's frozen points are.                           *)
THEOREM TypeCorrect == Spec => []TypeOK
<1>1. Inv => TypeOK
  BY DEF Inv
<1> QED
  BY <1>1, Invariance, PTL

(* Every balance is explained by the items, for any number of members,     *)
(* orders and products and any prices.                                     *)
THEOREM BalancesAlwaysExplained == Spec => []BalancesExplained
<1>1. Inv => BalancesExplained
  BY DEF Inv
<1> QED
  BY <1>1, Invariance, PTL

(* Holds and reservations never come apart. *)
THEOREM HoldsAlwaysBackReservations == Spec => []HoldsBackReservations
<1>1. Inv => HoldsBackReservations
  BY DEF Inv
<1> QED
  BY <1>1, Invariance, PTL

-----------------------------------------------------------------------------
(* Sellers, buyers, requests and evidence: what belongs to one item         *)

(* Together with the hold, these facts about one item are inductive: an     *)
(* item whose earning is settled can no longer be refunded, one bought on a *)
(* live run after the start or completed is not reserved again, and a file  *)
(* is being handed out only for an item that was fulfilled.                 *)
EarningFits(i) ==
  /\ fulfilment[i] # "none" => allocation[i] # "none"
  /\ allocation[i] = "settled" =>
       /\ fulfilment[i] = "fulfilled"
       /\ Product(i) \in LiveRuns /\ runStatus[Product(i)] = "completed"
  /\ fulfilment[i] = "refunded" => allocation[i] = "reversed"
  /\ allocation[i] = "reversed" /\ fulfilment[i] # "refunded" =>
       Product(i) \in LiveRuns /\ runStatus[Product(i)] = "cancelled"

AccessFits(i) ==
  /\ fulfilment[i] = "refunded" => access[i] = "closed"
  /\ fulfilment[i] = "reserved" => access[i] = "open"
  /\ fulfilment[i] = "fulfilled" /\ access[i] # "open" =>
       Product(i) \in LiveRuns /\ runStatus[Product(i)] = "cancelled"
  /\ fulfilment[i] = "fulfilled" /\ Product(i) \in LiveRuns => phase[Product(i)] = "started"

RequestFits(i) ==
  /\ request[i] = "pending" =>
       /\ fulfilment[i] \in {"reserved", "fulfilled"} /\ access[i] = "open"
       /\ fulfilment[i] = "fulfilled" /\ Product(i) \in LiveRuns =>
            runStatus[Product(i)] = "completed"
  /\ request[i] \in {"approved", "cancelled"} => fulfilment[i] = "refunded"

EvidenceFits(i) ==
  /\ i \in checking => fulfilment[i] \in {"fulfilled", "refunded"} /\ Product(i) \in Media
  /\ i \in issued \ evidence => Product(i) \in Contents /\ fulfilment[i] = "refunded"

ItemFits(i) == EarningFits(i) /\ AccessFits(i) /\ RequestFits(i) /\ EvidenceFits(i)

ItemsFit == \A i \in Items : ItemFits(i)

LEMMA ItemTypes ==
  ASSUME Inv, NEW i \in Items
  PROVE  /\ fulfilment[i] \in {"none", "reserved", "fulfilled", "refunded"}
         /\ access[i] \in {"none", "open", "closed"}
         /\ allocation[i] \in {"none", "pending", "settled", "reversed"}
         /\ request[i] \in {"none", "pending", "approved", "rejected", "cancelled"}
         /\ HoldMatches(i)
BY DEF Inv, TypeOK, HoldsBackReservations

(* An item of which nothing changed but its buyer, on a run that did not    *)
(* end or whose items it is not.                                            *)
LEMMA ItemStays ==
  ASSUME NEW i, ItemFits(i),
         fulfilment'[i] = fulfilment[i], access'[i] = access[i], allocation'[i] = allocation[i],
         request'[i] = request[i], UNCHANGED mediaVars,
         Product(i) \in LiveRuns => /\ runStatus'[Product(i)] = runStatus[Product(i)]
                                    /\ phase[Product(i)] = "started" => phase'[Product(i)] = "started"
  PROVE  ItemFits(i)'
BY DEF ItemFits, EarningFits, AccessFits, RequestFits, EvidenceFits, mediaVars

LEMMA CheckoutFits ==
  ASSUME Inv, ItemsFit, NEW m \in Members, NEW o \in Orders, NEW basket \in SUBSET Products,
         Checkout(m, o, basket)
  PROVE  ItemsFit'
<1> SUFFICES ASSUME NEW i \in Items PROVE ItemFits(i)'
  BY DEF ItemsFit
<1> DEFINE lines == Lines(o, basket)
           reserved == ReservedLines(o, basket)
<1>1. /\ i \in lines => fulfilment[i] = "none"
      /\ fulfilment'[i] = IF i \in reserved THEN "reserved"
                          ELSE IF i \in lines THEN "fulfilled" ELSE fulfilment[i]
      /\ reserved \subseteq lines
  BY CheckoutSets DEF ReservedLines
<1>2. /\ access' = Mark(access, lines, "open")
      /\ allocation' = Mark(allocation, lines, "pending")
      /\ UNCHANGED <<runStatus, phase, request, mediaVars>>
      /\ i \in lines /\ i \notin reserved /\ Product(i) \in LiveRuns => phase[Product(i)] = "started"
  BY DEF Checkout, Lines, ReservedLines, IsLiveReservation
<1> HIDE DEF lines, reserved
<1>3. /\ access'[i] = IF i \in lines THEN "open" ELSE access[i]
      /\ allocation'[i] = IF i \in lines THEN "pending" ELSE allocation[i]
      /\ request'[i] = request[i] /\ ItemFits(i)
  BY <1>2 DEF Mark, ItemsFit
<1>4. CASE i \notin lines
  BY <1>1, <1>2, <1>3, <1>4, ItemStays
<1>5. CASE i \in lines
  <2>1. EarningFits(i)' /\ AccessFits(i)'
    BY <1>1, <1>2, <1>3, <1>5 DEF EarningFits, AccessFits
  <2>2. request[i] \notin {"pending", "approved", "cancelled"} /\ i \notin checking /\ i \notin issued \ evidence
    BY <1>1, <1>3, <1>5 DEF ItemFits, RequestFits, EvidenceFits
  <2>3. RequestFits(i)' /\ EvidenceFits(i)'
    BY <1>2, <1>3, <2>2 DEF RequestFits, EvidenceFits, mediaVars
  <2> QED
    BY <2>1, <2>3 DEF ItemFits
<1> QED
  BY <1>4, <1>5

LEMMA RequestStepFits ==
  ASSUME Inv, ItemsFit, NEW j \in Items, CreateRefundRequest(j) \/ RejectRefund(j)
  PROVE  ItemsFit'
<1> SUFFICES ASSUME NEW i \in Items PROVE ItemFits(i)'
  BY DEF ItemsFit
<1>1. /\ UNCHANGED <<runStatus, phase, mediaVars>> /\ fulfilment'[i] = fulfilment[i]
      /\ access'[i] = access[i] /\ allocation'[i] = allocation[i]
      /\ ItemFits(i) /\ request \in [Items -> {"none", "pending", "approved", "rejected", "cancelled"}]
  BY DEF CreateRefundRequest, RejectRefund, itemVars, ItemsFit, Inv, TypeOK
<1>2. CASE request'[i] = request[i]
  BY <1>1, <1>2, ItemStays
<1>3. CASE request'[i] = "rejected"
  BY <1>1, <1>3 DEF ItemFits, EarningFits, AccessFits, RequestFits, EvidenceFits, mediaVars
<1>4. CASE CreateRefundRequest(i) /\ request'[i] = "pending"
  <2>1. fulfilment[i] \in {"reserved", "fulfilled"} /\ (Product(i) \in LiveRuns => phase[Product(i)] = "early")
    BY <1>4 DEF CreateRefundRequest, Eligible, SelfArranged
  <2>2. ~(fulfilment[i] = "fulfilled" /\ Product(i) \in LiveRuns)
    BY <1>1, <2>1 DEF ItemFits, AccessFits
  <2>3. access[i] = "open"
    BY <1>1, <2>1, <2>2 DEF ItemFits, AccessFits
  <2> QED
    BY <1>1, <1>4, <2>1, <2>2, <2>3 DEF ItemFits, EarningFits, AccessFits, RequestFits, EvidenceFits, mediaVars
<1>5. request'[i] = request[i] \/ request'[i] = "rejected" \/ (CreateRefundRequest(i) /\ request'[i] = "pending")
  BY <1>1 DEF CreateRefundRequest, RejectRefund
<1> QED
  BY <1>2, <1>3, <1>4, <1>5

LEMMA ApproveFits ==
  ASSUME Inv, ItemsFit, NEW j \in Items, ApproveRefund(j)
  PROVE  ItemsFit'
<1> SUFFICES ASSUME NEW i \in Items PROVE ItemFits(i)'
  BY DEF ItemsFit
<1>1. /\ fulfilment' = [fulfilment EXCEPT ![j] = "refunded"]
      /\ request' = [request EXCEPT ![j] = "approved"]
      /\ access' = [access EXCEPT ![j] = "closed"]
      /\ allocation' = [allocation EXCEPT ![j] = IF @ = "pending" THEN "reversed" ELSE @]
      /\ UNCHANGED <<runStatus, phase, mediaVars>>
      /\ Product(j) \in LiveRuns => fulfilment[j] = "reserved"
      /\ request[j] = "pending" /\ ItemFits(i)
  BY DEF ApproveRefund, Decidable, Refundable, ItemsFit
<1>2. CASE i # j
  <2>1. /\ fulfilment'[i] = fulfilment[i] /\ access'[i] = access[i]
        /\ allocation'[i] = allocation[i] /\ request'[i] = request[i]
    BY <1>1, <1>2 DEF Inv, TypeOK
  <2> QED
    BY <1>1, <2>1, ItemStays
<1>3. CASE i = j
  <2>1. /\ fulfilment'[i] = "refunded" /\ access'[i] = "closed" /\ request'[i] = "approved"
        /\ allocation'[i] = IF allocation[i] = "pending" THEN "reversed" ELSE allocation[i]
    BY <1>1, <1>3 DEF Inv, TypeOK
  <2>2. allocation[i] \in {"pending", "reversed"}
    BY <1>1, <1>3, ItemTypes DEF ItemFits, EarningFits, RequestFits
  <2> QED
    BY <1>1, <2>1, <2>2 DEF ItemFits, EarningFits, AccessFits, RequestFits, EvidenceFits, mediaVars
<1> QED
  BY <1>2, <1>3

(* What the end of a run does to its items.                                 *)
LEMMA EndFacts ==
  ASSUME Inv, NEW r \in LiveRuns, runStatus[r] = "published", NEW i \in Items, NEW end,
         runStatus' = [runStatus EXCEPT ![r] = end]
  PROVE  /\ i \in Reserved(r) <=> Product(i) = r /\ fulfilment[i] = "reserved"
         /\ i \in ItemsOfRun(r) <=> Product(i) = r /\ fulfilment[i] # "none"
         /\ i \in PendingEarnings(r) <=>
              Product(i) = r /\ fulfilment[i] # "none" /\ allocation[i] = "pending"
         /\ i \in OpenSeats(r) <=> Product(i) = r /\ fulfilment[i] # "none" /\ access[i] = "open"
         /\ Product(i) = r => runStatus'[Product(i)] = end /\ runStatus[Product(i)] = "published"
         /\ Product(i) # r => runStatus'[Product(i)] = runStatus[Product(i)]
BY DEF Inv, TypeOK, Reserved, PendingEarnings, OpenSeats, ItemsOfRun, Bought

LEMMA CompleteFits ==
  ASSUME Inv, ItemsFit, NEW r \in LiveRuns, CompleteLiveCourseRun(r)
  PROVE  ItemsFit'
<1> SUFFICES ASSUME NEW i \in Items PROVE ItemFits(i)'
  BY DEF ItemsFit
<1>1. /\ fulfilment' = Mark(fulfilment, Reserved(r), "fulfilled")
      /\ allocation' = Mark(allocation, PendingEarnings(r), "settled")
      /\ runStatus' = [runStatus EXCEPT ![r] = "completed"]
      /\ UNCHANGED <<phase, access, request, mediaVars>>
      /\ runStatus[r] = "published" /\ phase[r] = "started" /\ ItemFits(i)
  BY DEF CompleteLiveCourseRun, ItemsFit
<1>2. /\ fulfilment'[i] = IF i \in Reserved(r) THEN "fulfilled" ELSE fulfilment[i]
      /\ allocation'[i] = IF i \in PendingEarnings(r) THEN "settled" ELSE allocation[i]
      /\ access'[i] = access[i] /\ request'[i] = request[i]
  BY <1>1 DEF Mark
<1>3. /\ i \in Reserved(r) <=> Product(i) = r /\ fulfilment[i] = "reserved"
      /\ i \in ItemsOfRun(r) <=> Product(i) = r /\ fulfilment[i] # "none"
      /\ i \in PendingEarnings(r) <=>
           Product(i) = r /\ fulfilment[i] # "none" /\ allocation[i] = "pending"
      /\ i \in OpenSeats(r) <=> Product(i) = r /\ fulfilment[i] # "none" /\ access[i] = "open"
      /\ Product(i) = r => runStatus'[Product(i)] = "completed" /\ runStatus[Product(i)] = "published"
      /\ Product(i) # r => runStatus'[Product(i)] = runStatus[Product(i)]
  BY <1>1, EndFacts
<1>4. CASE Product(i) # r
  BY <1>1, <1>2, <1>3, <1>4, ItemStays
<1>5. CASE Product(i) = r
  <2>1. EarningFits(i)'
    BY <1>1, <1>2, <1>3, <1>5, ItemTypes DEF ItemFits, EarningFits
  <2>2. AccessFits(i)'
    BY <1>1, <1>2, <1>3, <1>5, ItemTypes DEF ItemFits, AccessFits
  <2>3. RequestFits(i)'
    BY <1>1, <1>2, <1>3, <1>5, ItemTypes DEF ItemFits, RequestFits
  <2>4. EvidenceFits(i)'
    BY <1>1, <1>2, <1>3, <1>5, ItemTypes DEF ItemFits, EvidenceFits, mediaVars
  <2> QED
    BY <2>1, <2>2, <2>3, <2>4 DEF ItemFits
<1> QED
  BY <1>4, <1>5

LEMMA CancelFits ==
  ASSUME Inv, ItemsFit, NEW r \in LiveRuns, CancelLiveCourseRun(r)
  PROVE  ItemsFit'
<1> SUFFICES ASSUME NEW i \in Items PROVE ItemFits(i)'
  BY DEF ItemsFit
<1>1. /\ fulfilment' = Mark(fulfilment, Reserved(r), "refunded")
      /\ access' = Mark(access, OpenSeats(r), "closed")
      /\ request' = Mark(request, {k \in ItemsOfRun(r) : request[k] = "pending"}, "cancelled")
      /\ allocation' = Mark(allocation, PendingEarnings(r), "reversed")
      /\ runStatus' = [runStatus EXCEPT ![r] = "cancelled"]
      /\ UNCHANGED <<phase, mediaVars>>
      /\ runStatus[r] = "published" /\ ItemFits(i)
  BY DEF CancelLiveCourseRun, ItemsFit
<1>2. /\ fulfilment'[i] = IF i \in Reserved(r) THEN "refunded" ELSE fulfilment[i]
      /\ allocation'[i] = IF i \in PendingEarnings(r) THEN "reversed" ELSE allocation[i]
      /\ access'[i] = IF i \in OpenSeats(r) THEN "closed" ELSE access[i]
      /\ request'[i] = IF i \in ItemsOfRun(r) /\ request[i] = "pending" THEN "cancelled" ELSE request[i]
  BY <1>1 DEF Mark
<1>3. /\ i \in Reserved(r) <=> Product(i) = r /\ fulfilment[i] = "reserved"
      /\ i \in ItemsOfRun(r) <=> Product(i) = r /\ fulfilment[i] # "none"
      /\ i \in PendingEarnings(r) <=>
           Product(i) = r /\ fulfilment[i] # "none" /\ allocation[i] = "pending"
      /\ i \in OpenSeats(r) <=> Product(i) = r /\ fulfilment[i] # "none" /\ access[i] = "open"
      /\ Product(i) = r => runStatus'[Product(i)] = "cancelled" /\ runStatus[Product(i)] = "published"
      /\ Product(i) # r => runStatus'[Product(i)] = runStatus[Product(i)]
  BY <1>1, EndFacts
<1>4. CASE Product(i) # r
  BY <1>1, <1>2, <1>3, <1>4, ItemStays
<1>5. CASE Product(i) = r
  <2>1. EarningFits(i)'
    BY <1>1, <1>2, <1>3, <1>5, ItemTypes DEF ItemFits, EarningFits
  <2>2. AccessFits(i)'
    BY <1>1, <1>2, <1>3, <1>5, ItemTypes DEF ItemFits, AccessFits
  <2>3. RequestFits(i)'
    BY <1>1, <1>2, <1>3, <1>5, ItemTypes DEF ItemFits, RequestFits
  <2>4. EvidenceFits(i)'
    BY <1>1, <1>2, <1>3, <1>5, ItemTypes DEF ItemFits, EvidenceFits, mediaVars
  <2> QED
    BY <2>1, <2>2, <2>3, <2>4 DEF ItemFits
<1> QED
  BY <1>4, <1>5

LEMMA DownloadFits ==
  ASSUME Inv, ItemsFit, NEW j \in Items, BeginDownload(j) \/ FinishDownload(j) \/ Watch(j)
  PROVE  ItemsFit'
<1> SUFFICES ASSUME NEW i \in Items PROVE ItemFits(i)'
  BY DEF ItemsFit
<1>1. /\ UNCHANGED <<runStatus, phase, itemVars, request>> /\ ItemFits(i)
  BY DEF BeginDownload, FinishDownload, Watch, ItemsFit
<1>2. EarningFits(i)' /\ AccessFits(i)' /\ RequestFits(i)'
  BY <1>1 DEF ItemFits, EarningFits, AccessFits, RequestFits, itemVars
<1>3. EvidenceFits(i)'
  <2>1. i \in checking' => fulfilment'[i] \in {"fulfilled", "refunded"} /\ Product(i) \in Media
    BY <1>1 DEF BeginDownload, FinishDownload, Watch, ItemFits, EvidenceFits, itemVars
  <2>2. CASE BeginDownload(j) \/ Watch(j)
    BY <1>1, <2>1, <2>2 DEF BeginDownload, Watch, ItemFits, EvidenceFits, itemVars
  <2>3. CASE FinishDownload(j)
    <3>1. CASE i # j
      BY <1>1, <2>1, <2>3, <3>1 DEF FinishDownload, ItemFits, EvidenceFits, itemVars
    <3>2. CASE i = j
      <4>1. /\ i \in checking
            /\ evidence' = IF Product(i) \in Contents /\ access[i] # "open"
                           THEN evidence ELSE evidence \cup {i}
        BY <2>3, <3>2 DEF FinishDownload
      <4>2. Product(i) \in Contents => Product(i) \notin LiveRuns
        BY ProductAssumption DEF Media, SelfArranged
      <4>3. i \notin evidence' => Product(i) \in Contents /\ fulfilment[i] = "refunded"
        BY <1>1, <4>1, <4>2 DEF ItemFits, EvidenceFits, AccessFits
      <4> QED
        BY <1>1, <2>1, <4>3 DEF EvidenceFits, itemVars
    <3> QED
      BY <3>1, <3>2
  <2> QED
    BY <2>2, <2>3
<1> QED
  BY <1>2, <1>3 DEF ItemFits

LEMMA FitsStep ==
  ASSUME Inv, ItemsFit, [Next]_vars
  PROVE  ItemsFit'
<1>1. ASSUME UNCHANGED <<runStatus, itemVars, request, mediaVars>>,
             \A r \in LiveRuns : phase[r] = "started" => phase'[r] = "started"
      PROVE  ItemsFit'
  BY <1>1, ItemStays DEF ItemsFit, itemVars
<1>2. CASE \E m \in Members, delta \in Adjustments : AdjustPoints(m, delta)
  BY <1>1, <1>2 DEF AdjustPoints
<1>3. ASSUME NEW r \in SelfArranged, PassTime(r) PROVE ItemsFit'
  BY <1>1, <1>3 DEF PassTime, Inv, TypeOK, SelfArranged
<1>4. CASE UNCHANGED vars
  BY <1>1, <1>4 DEF vars
<1> QED
  BY <1>2, <1>3, <1>4, CheckoutFits, RequestStepFits, ApproveFits, CompleteFits, CancelFits, DownloadFits
     DEF Next

-----------------------------------------------------------------------------
(* Orders                                                                   *)

LEMMA OrdersStep ==
  ASSUME Inv, ItemsFit, OrderStatusSummarises, [Next]_vars
  PROVE  OrderStatusSummarises'
<1>a. /\ fulfilment \in [Items -> {"none", "reserved", "fulfilled", "refunded"}]
      /\ access \in [Items -> {"none", "open", "closed"}]
      /\ orderStatus \in [Orders -> {"none", "paid", "partially_refunded", "refunded"}]
      /\ buyer \in [Orders -> Members \cup {NoMember}]
  BY DEF Inv, TypeOK
<1> DEFINE Summarised(o) ==
             /\ orderStatus'[o] = "refunded" =>
                  \A i \in Items : Order(i) = o /\ fulfilment'[i] # "none" => fulfilment'[i] = "refunded"
             /\ orderStatus'[o] = "paid" =>
                  \A i \in Items : Order(i) = o /\ fulfilment'[i] # "none" => fulfilment'[i] # "refunded"
             /\ orderStatus'[o] = "partially_refunded" =>
                  /\ \E i \in Items : /\ Order(i) = o /\ fulfilment'[i] # "none"
                                      /\ fulfilment'[i] # "refunded"
                  /\ \E i \in Items : /\ Order(i) = o /\ fulfilment'[i] # "none"
                                      /\ access'[i] = "closed"
<1>b. (\A o \in Orders : Summarised(o)) => OrderStatusSummarises'
  BY DEF OrderStatusSummarises, Bought
<1>c. \A o \in Orders :
        /\ orderStatus[o] = "refunded" =>
             \A i \in Items : Order(i) = o /\ fulfilment[i] # "none" => fulfilment[i] = "refunded"
        /\ orderStatus[o] = "paid" =>
             \A i \in Items : Order(i) = o /\ fulfilment[i] # "none" => fulfilment[i] # "refunded"
        /\ orderStatus[o] = "partially_refunded" =>
             /\ \E i \in Items : Order(i) = o /\ fulfilment[i] # "none" /\ fulfilment[i] # "refunded"
             /\ \E i \in Items : Order(i) = o /\ fulfilment[i] # "none" /\ access[i] = "closed"
  BY DEF OrderStatusSummarises, Bought
(* A line whose refund was the last one, and one that was refunded. *)
<1>d. ASSUME NEW o \in Orders, fulfilment' \in [Items -> {"none", "reserved", "fulfilled", "refunded"}],
             orderStatus'[o] = RefundedStatus(o, fulfilment'),
             \E i \in Items : Order(i) = o /\ fulfilment'[i] # "none" /\ access'[i] = "closed"
      PROVE  Summarised(o)
  <2>1. CASE \A i \in Items : Order(i) = o => fulfilment'[i] \in {"none", "refunded"}
    <3>1. orderStatus'[o] = "refunded"
      BY <1>d, <2>1 DEF RefundedStatus
    <3> QED
      BY <2>1, <3>1
  <2>2. CASE \E i \in Items : Order(i) = o /\ fulfilment'[i] \notin {"none", "refunded"}
    <3>1. orderStatus'[o] = "partially_refunded"
      BY <1>d, <2>2 DEF RefundedStatus
    <3> QED
      BY <1>d, <2>2, <3>1
  <2> QED
    BY <2>1, <2>2
(* An order of which no line was refunded or closed, or was bought.         *)
<1>e. ASSUME NEW o \in Orders, orderStatus'[o] = orderStatus[o],
             \A i \in Items : Order(i) = o =>
               /\ access'[i] = access[i]
               /\ \/ fulfilment'[i] = fulfilment[i]
                  \/ fulfilment[i] = "reserved" /\ fulfilment'[i] = "fulfilled"
      PROVE  Summarised(o)
  BY <1>c, <1>e
<1>1. ASSUME NEW m \in Members, NEW o \in Orders, NEW basket \in SUBSET Products, Checkout(m, o, basket)
      PROVE  OrderStatusSummarises'
  <2>1. /\ \A i \in Lines(o, basket) : fulfilment[i] = "none" /\ Order(i) = o
        /\ \A i \in Items : fulfilment'[i] = IF i \in ReservedLines(o, basket) THEN "reserved"
                                             ELSE IF i \in Lines(o, basket) THEN "fulfilled"
                                             ELSE fulfilment[i]
        /\ \A i \in Items : access'[i] = IF i \in Lines(o, basket) THEN "open" ELSE access[i]
        /\ ReservedLines(o, basket) \subseteq Lines(o, basket)
        /\ orderStatus' = [orderStatus EXCEPT ![o] = "paid"]
    <3>1. /\ \A i \in Lines(o, basket) : fulfilment[i] = "none"
          /\ \A i \in Items : fulfilment'[i] = IF i \in ReservedLines(o, basket) THEN "reserved"
                                               ELSE IF i \in Lines(o, basket) THEN "fulfilled"
                                               ELSE fulfilment[i]
      BY <1>1, CheckoutSets
    <3>2. \A i \in Lines(o, basket) : Order(i) = o
      BY LineFacts DEF Lines
    <3>3. access' = Mark(access, Lines(o, basket), "open") /\ orderStatus' = [orderStatus EXCEPT ![o] = "paid"]
      BY <1>1 DEF Checkout, Lines
    <3>4. \A i \in Items : access'[i] = IF i \in Lines(o, basket) THEN "open" ELSE access[i]
      BY <3>3 DEF Mark
    <3>5. ReservedLines(o, basket) \subseteq Lines(o, basket)
      BY DEF ReservedLines
    <3> QED
      BY <3>1, <3>2, <3>3, <3>4, <3>5
  <2>2. \A i \in Items : Order(i) = o => fulfilment[i] = "none"
    BY <1>1, AccountAssumption DEF Inv, ItemsHaveBuyers, Checkout
  <2>3. Summarised(o)
    BY <1>a, <2>1, <2>2
  <2>4. \A q \in Orders : q # o => Summarised(q)
    <3> SUFFICES ASSUME NEW q \in Orders, q # o PROVE Summarised(q)
      OBVIOUS
    <3>1. /\ orderStatus'[q] = orderStatus[q]
          /\ \A i \in Items : Order(i) = q => access'[i] = access[i] /\ fulfilment'[i] = fulfilment[i]
      BY <1>a, <2>1
    <3> HIDE DEF Summarised
    <3> QED
      BY <1>e, <3>1
  <2> QED
    BY <1>b, <2>3, <2>4
<1>2. ASSUME NEW j \in Items, ApproveRefund(j)
      PROVE  OrderStatusSummarises'
  <2>1. /\ fulfilment' = [fulfilment EXCEPT ![j] = "refunded"] /\ access' = [access EXCEPT ![j] = "closed"]
        /\ orderStatus' = [orderStatus EXCEPT ![Order(j)] = RefundedStatus(Order(j), fulfilment')]
    BY <1>2 DEF ApproveRefund
  <2>2. /\ fulfilment' \in [Items -> {"none", "reserved", "fulfilled", "refunded"}]
        /\ fulfilment'[j] = "refunded" /\ access'[j] = "closed" /\ Order(j) \in Orders
        /\ orderStatus'[Order(j)] = RefundedStatus(Order(j), fulfilment')
    BY <1>a, <2>1, ItemFacts
  <2> HIDE DEF Summarised
  <2>3. Summarised(Order(j))
    BY <1>d, <2>2
  <2>4. \A q \in Orders : q # Order(j) => Summarised(q)
    <3> SUFFICES ASSUME NEW q \in Orders, q # Order(j) PROVE Summarised(q)
      OBVIOUS
    <3>1. /\ orderStatus'[q] = orderStatus[q]
          /\ \A i \in Items : Order(i) = q => access'[i] = access[i] /\ fulfilment'[i] = fulfilment[i]
      BY <1>a, <2>1
    <3> QED
      BY <1>e, <3>1
  <2> QED
    BY <1>b, <2>3, <2>4
<1>3. ASSUME NEW r \in LiveRuns, CompleteLiveCourseRun(r)
      PROVE  OrderStatusSummarises'
  <2> SUFFICES ASSUME NEW o \in Orders PROVE Summarised(o)
    BY <1>b
  <2>1. /\ orderStatus'[o] = orderStatus[o]
        /\ \A i \in Items : access'[i] = access[i]
        /\ \A i \in Items : fulfilment'[i] = IF i \in Reserved(r) THEN "fulfilled" ELSE fulfilment[i]
        /\ \A i \in Reserved(r) : fulfilment[i] = "reserved"
    BY <1>3 DEF CompleteLiveCourseRun, Mark, Reserved
  <2> HIDE DEF Summarised
  <2> QED
    BY <1>e, <2>1
<1>4. ASSUME NEW r \in LiveRuns, CancelLiveCourseRun(r)
      PROVE  OrderStatusSummarises'
  <2> SUFFICES ASSUME NEW o \in Orders PROVE Summarised(o)
    BY <1>b
  <2>1. /\ \A i \in Items : fulfilment'[i] = IF i \in Reserved(r) THEN "refunded" ELSE fulfilment[i]
        /\ \A i \in Items : access'[i] = IF i \in OpenSeats(r) THEN "closed" ELSE access[i]
        /\ orderStatus'[o] = IF \E i \in ItemsOfRun(r) : Order(i) = o
                             THEN RefundedStatus(o, fulfilment') ELSE orderStatus[o]
        /\ runStatus[r] = "published"
        /\ fulfilment' = Mark(fulfilment, Reserved(r), "refunded")
    BY <1>4 DEF CancelLiveCourseRun, Mark
  <2>2. /\ Reserved(r) \subseteq ItemsOfRun(r) /\ OpenSeats(r) \subseteq ItemsOfRun(r)
        /\ ItemsOfRun(r) \subseteq Items
        /\ \A i \in ItemsOfRun(r) : Product(i) = r /\ fulfilment[i] # "none"
    BY DEF Reserved, OpenSeats, ItemsOfRun, Bought
  <2>3. CASE ~\E i \in ItemsOfRun(r) : Order(i) = o
    <3>1. /\ orderStatus'[o] = orderStatus[o]
          /\ \A i \in Items : Order(i) = o => access'[i] = access[i] /\ fulfilment'[i] = fulfilment[i]
      BY <2>1, <2>2, <2>3
    <3> HIDE DEF Summarised
    <3> QED
      BY <1>e, <3>1
  <2>4. CASE \E i \in ItemsOfRun(r) : Order(i) = o
    <3>1. PICK i \in ItemsOfRun(r) : Order(i) = o
      BY <2>4
    <3>2. i \in Items /\ Product(i) = r /\ fulfilment[i] # "none" /\ ItemFits(i)
      BY <2>2 DEF ItemsFit
    <3>3. access[i] = "open" \/ access[i] = "closed"
      BY <1>a, <2>1, <3>2 DEF ItemFits, AccessFits
    <3>4. access[i] = "open" => i \in OpenSeats(r)
      BY <3>1 DEF OpenSeats
    <3>5. access'[i] = "closed" /\ fulfilment'[i] # "none"
      BY <2>1, <3>2, <3>3, <3>4
    <3>6. fulfilment' \in [Items -> {"none", "reserved", "fulfilled", "refunded"}]
      BY <1>a, <2>1, MarkType
    <3> HIDE DEF Summarised
    <3> QED
      BY <1>d, <2>1, <2>4, <3>1, <3>2, <3>5, <3>6
  <2> QED
    BY <2>3, <2>4
<1>5. CASE UNCHANGED itemVars
  BY <1>5 DEF OrderStatusSummarises, Bought, itemVars
<1>6. CASE UNCHANGED vars
  BY <1>5, <1>6 DEF vars
<1> QED
  BY <1>1, <1>2, <1>3, <1>4, <1>5, <1>6
     DEF Next, CreateRefundRequest, RejectRefund, AdjustPoints, BeginDownload, FinishDownload, Watch, PassTime

-----------------------------------------------------------------------------
(* Seats                                                                    *)

(* Nothing but a checkout opens an enrolment.                               *)
LEMMA SeatsOnlyClose ==
  ASSUME Inv, [Next]_vars, NEW r \in Courses,
         ~\E m \in Members, o \in Orders, basket \in SUBSET Products : Checkout(m, o, basket)
  PROVE  OpenSeats(r)' \subseteq OpenSeats(r) /\ buyer' = buyer
<1>a. /\ fulfilment \in [Items -> {"none", "reserved", "fulfilled", "refunded"}]
      /\ access \in [Items -> {"none", "open", "closed"}]
  BY DEF Inv, TypeOK
<1>b. ASSUME buyer' = buyer,
             \A i \in Items : /\ fulfilment[i] = "none" => fulfilment'[i] = "none"
                              /\ access'[i] = "open" => access[i] = "open"
      PROVE  OpenSeats(r)' \subseteq OpenSeats(r)
  BY <1>b DEF OpenSeats, ItemsOfRun, Bought
<1>1. ASSUME NEW j \in Items, ApproveRefund(j)
      PROVE  OpenSeats(r)' \subseteq OpenSeats(r) /\ buyer' = buyer
  <2>1. /\ fulfilment' = [fulfilment EXCEPT ![j] = "refunded"] /\ access' = [access EXCEPT ![j] = "closed"]
        /\ fulfilment[j] # "none" /\ buyer' = buyer
    BY <1>1 DEF ApproveRefund, Decidable, Inv, ItemsHaveBuyers
  <2> QED
    BY <1>a, <1>b, <2>1
<1>2. ASSUME NEW q \in LiveRuns, CompleteLiveCourseRun(q)
      PROVE  OpenSeats(r)' \subseteq OpenSeats(r) /\ buyer' = buyer
  <2>1. /\ fulfilment' = Mark(fulfilment, Reserved(q), "fulfilled") /\ access' = access /\ buyer' = buyer
        /\ \A i \in Reserved(q) : fulfilment[i] = "reserved"
    BY <1>2 DEF CompleteLiveCourseRun, Reserved
  <2> QED
    BY <1>b, <2>1 DEF Mark
<1>3. ASSUME NEW q \in LiveRuns, CancelLiveCourseRun(q)
      PROVE  OpenSeats(r)' \subseteq OpenSeats(r) /\ buyer' = buyer
  <2>1. /\ fulfilment' = Mark(fulfilment, Reserved(q), "refunded") /\ buyer' = buyer
        /\ access' = Mark(access, OpenSeats(q), "closed")
        /\ \A i \in Reserved(q) : fulfilment[i] = "reserved"
    BY <1>3 DEF CancelLiveCourseRun, Reserved
  <2> QED
    BY <1>b, <2>1 DEF Mark
<1>4. CASE UNCHANGED itemVars
  BY <1>4 DEF OpenSeats, ItemsOfRun, Bought, itemVars
<1>5. CASE UNCHANGED vars
  BY <1>4, <1>5 DEF vars
<1> QED
  BY <1>1, <1>2, <1>3, <1>4, <1>5
     DEF Next, CreateRefundRequest, RejectRefund, AdjustPoints, BeginDownload, FinishDownload, Watch, PassTime

LEMMA SeatsStep ==
  ASSUME Inv, SeatsRespected, [Next]_vars
  PROVE  SeatsRespected'
<1> SUFFICES ASSUME NEW r \in Courses
             PROVE  /\ r \notin Uncapped => Cardinality(OpenSeats(r)') <= Capacity[r]
                    /\ \A i, j \in OpenSeats(r)' : buyer'[Order(i)] = buyer'[Order(j)] => i = j
  BY DEF SeatsRespected
<1>1. /\ OpenSeats(r) \subseteq Items /\ IsFiniteSet(OpenSeats(r)) /\ Cardinality(OpenSeats(r)) \in Nat
      /\ r \notin Uncapped => Cardinality(OpenSeats(r)) <= Capacity[r] /\ Capacity[r] \in Nat
      /\ \A i, j \in OpenSeats(r) : buyer[Order(i)] = buyer[Order(j)] => i = j
  <2>1. OpenSeats(r) \subseteq Items
    BY DEF OpenSeats, ItemsOfRun, Bought
  <2>2. IsFiniteSet(OpenSeats(r)) /\ Cardinality(OpenSeats(r)) \in Nat
    BY <2>1, ItemsFinite, FS_Subset, FS_CardinalityType
  <2> QED
    BY <2>1, <2>2, ProductAssumption DEF SeatsRespected
<1>2. CASE ~\E m \in Members, o \in Orders, basket \in SUBSET Products : Checkout(m, o, basket)
  <2>1. OpenSeats(r)' \subseteq OpenSeats(r) /\ buyer' = buyer
    BY <1>2, SeatsOnlyClose
  <2>2. Cardinality(OpenSeats(r)') <= Cardinality(OpenSeats(r)) /\ Cardinality(OpenSeats(r)') \in Nat
    BY <1>1, <2>1, FS_Subset, FS_CardinalityType
  <2> QED
    BY <1>1, <2>1, <2>2
<1>3. ASSUME NEW m \in Members, NEW o \in Orders, NEW basket \in SUBSET Products, Checkout(m, o, basket)
      PROVE  /\ r \notin Uncapped => Cardinality(OpenSeats(r)') <= Capacity[r]
             /\ \A i, j \in OpenSeats(r)' : buyer'[Order(i)] = buyer'[Order(j)] => i = j
  <2> DEFINE lines == Lines(o, basket)
             seat == <<o, r>>
  <2>1. /\ lines \subseteq Items
        /\ \A i \in lines : fulfilment[i] = "none" /\ Order(i) = o /\ buyer'[Order(i)] = m
        /\ \A i \in Items : i \notin lines => fulfilment'[i] = fulfilment[i] /\ access'[i] = access[i]
        /\ \A i \in Items : fulfilment[i] # "none" => buyer'[Order(i)] = buyer[Order(i)]
    <3>1. /\ lines \subseteq Items /\ \A i \in lines : fulfilment[i] = "none" /\ buyer'[Order(i)] = m
          /\ \A i \in Items : fulfilment'[i] = IF i \in ReservedLines(o, basket) THEN "reserved"
                                               ELSE IF i \in lines THEN "fulfilled"
                                               ELSE fulfilment[i]
          /\ \A i \in Items : fulfilment[i] # "none" => buyer'[Order(i)] = buyer[Order(i)]
      BY <1>3, CheckoutSets
    <3>2. \A i \in lines : Order(i) = o
      BY LineFacts DEF Lines
    <3>3. access' = Mark(access, lines, "open")
      BY <1>3 DEF Checkout, Lines
    <3>4. \A i \in Items : access'[i] = IF i \in lines THEN "open" ELSE access[i]
      BY <3>3 DEF Mark
    <3>5. ReservedLines(o, basket) \subseteq lines
      BY DEF ReservedLines
    <3> QED
      BY <3>1, <3>2, <3>4, <3>5
  <2>2. \A i \in lines : Product(i) = r => i = seat /\ r \in basket
    BY DEF Lines, Order, Product
  <2>3. \A i \in OpenSeats(r)' : i \in OpenSeats(r) \/ (i = seat /\ i \in lines /\ r \in basket)
    <3> TAKE i \in OpenSeats(r)'
    <3>1. i \in Items /\ fulfilment'[i] # "none" /\ Product(i) = r /\ access'[i] = "open"
      BY DEF OpenSeats, ItemsOfRun, Bought
    <3>2. CASE i \in lines
      BY <2>2, <3>1, <3>2
    <3>3. CASE i \notin lines
      BY <2>1, <3>1, <3>3 DEF OpenSeats, ItemsOfRun, Bought
    <3> QED
      BY <3>2, <3>3
  <2>4. \A i \in OpenSeats(r) : i \notin lines /\ buyer'[Order(i)] = buyer[Order(i)]
    BY <2>1 DEF OpenSeats, ItemsOfRun, Bought
  <2>5. CASE r \notin basket \/ seat \notin lines
    <3>1. OpenSeats(r)' \subseteq OpenSeats(r)
      BY <2>3, <2>5
    <3>2. Cardinality(OpenSeats(r)') <= Cardinality(OpenSeats(r)) /\ Cardinality(OpenSeats(r)') \in Nat
      BY <1>1, <3>1, FS_Subset, FS_CardinalityType
    <3> QED
      BY <1>1, <2>4, <3>1, <3>2
  <2>6. CASE r \in basket /\ seat \in lines
    <3>1. /\ \A i \in OpenSeats(r) : buyer[Order(i)] # m
          /\ r \notin Uncapped => Cardinality(OpenSeats(r)) < Capacity[r]
      BY <1>3, <2>6 DEF Checkout, Purchasable
    <3>2. OpenSeats(r)' \subseteq OpenSeats(r) \cup {seat}
      BY <2>3
    <3>3. /\ IsFiniteSet(OpenSeats(r) \cup {seat})
          /\ Cardinality(OpenSeats(r) \cup {seat}) <= Cardinality(OpenSeats(r)) + 1
          /\ Cardinality(OpenSeats(r) \cup {seat}) \in Nat
      <4> HIDE DEF seat
      <4>1. /\ IsFiniteSet(OpenSeats(r) \cup {seat})
            /\ Cardinality(OpenSeats(r) \cup {seat}) =
                 IF seat \in OpenSeats(r) THEN Cardinality(OpenSeats(r)) ELSE Cardinality(OpenSeats(r)) + 1
        BY <1>1, FS_AddElement
      <4> QED
        BY <1>1, <4>1
    <3>4. /\ Cardinality(OpenSeats(r)') <= Cardinality(OpenSeats(r) \cup {seat})
          /\ Cardinality(OpenSeats(r)') \in Nat
      BY <3>2, <3>3, FS_Subset, FS_CardinalityType
    <3>5. r \notin Uncapped => Cardinality(OpenSeats(r)') <= Capacity[r]
      BY <1>1, <3>1, <3>3, <3>4
    <3>6. buyer'[Order(seat)] = m
      BY <2>1, <2>6
    <3>7. \A i, j \in OpenSeats(r)' : buyer'[Order(i)] = buyer'[Order(j)] => i = j
      BY <1>1, <2>4, <3>1, <3>2, <3>6
    <3> QED
      BY <3>5, <3>7
  <2> QED
    BY <2>5, <2>6
<1> QED
  BY <1>2, <1>3

-----------------------------------------------------------------------------
FullInv == Inv /\ ItemsFit /\ OrderStatusSummarises /\ SeatsRespected

LEMMA FullInvariance == Spec => []FullInv
<1>1. Init => FullInv
  <2> SUFFICES ASSUME Init PROVE FullInv
    OBVIOUS
  <2>1. Inv
    BY InitInv
  <2>2. ItemsFit
    BY DEF Init, ItemsFit, ItemFits, EarningFits, AccessFits, RequestFits, EvidenceFits
  <2>3. OrderStatusSummarises
    BY DEF Init, OrderStatusSummarises
  <2>4. SeatsRespected
    <3> SUFFICES ASSUME NEW r \in Courses
                 PROVE  /\ r \notin Uncapped => Cardinality(OpenSeats(r)) <= Capacity[r]
                        /\ \A i, j \in OpenSeats(r) : buyer[Order(i)] = buyer[Order(j)] => i = j
      BY DEF SeatsRespected
    <3>1. OpenSeats(r) = {}
      BY DEF Init, OpenSeats, ItemsOfRun, Bought
    <3>2. Cardinality(OpenSeats(r)) = 0 /\ (r \notin Uncapped => Capacity[r] \in Nat)
      BY <3>1, FS_EmptySet, ProductAssumption
    <3> QED
      BY <3>1, <3>2
  <2> QED
    BY <2>1, <2>2, <2>3, <2>4 DEF FullInv
<1>2. FullInv /\ [Next]_vars => FullInv'
  BY NextInv, FitsStep, OrdersStep, SeatsStep DEF FullInv
<1> QED
  BY <1>1, <1>2, PTL DEF Spec

(* For any members, orders, products and prices, whatever settles, closes   *)
(* or refunds an item does so for its buyer and its seller alike            *)
(* (refunds/service.ts:236-237, admin/operations.ts:182-237).               *)
THEOREM SettlementsAlwaysAgree == Spec => []SettlementsAgree
<1>1. FullInv => SettlementsAgree
  BY DEF FullInv, ItemsFit, ItemFits, EarningFits, AccessFits, SettlementsAgree, EarningsFollowItems,
         AccessFollowsPayment
<1> QED
  BY <1>1, FullInvariance, PTL

(* Orders, refund requests and evidence tell the same, however the lines of *)
(* any number of orders are refunded (refunds/service.ts:188-240).          *)
THEOREM OrdersAlwaysAgree == Spec => []OrdersAgree
<1>1. FullInv => OrdersAgree
  <2> SUFFICES ASSUME FullInv PROVE OrdersAgree
    OBVIOUS
  <2>1. issued \subseteq Items /\ OrderStatusSummarises /\ \A i \in Items : RequestFits(i) /\ EvidenceFits(i)
    BY DEF FullInv, Inv, TypeOK, ItemsFit, ItemFits
  <2>2. RequestsMatchItems
    BY <2>1 DEF RequestFits, RequestsMatchItems
  <2>3. DownloadsLeaveEvidence
    BY <2>1 DEF EvidenceFits, DownloadsLeaveEvidence
  <2> QED
    BY <2>1, <2>2, <2>3 DEF OrdersAgree
<1> QED
  BY <1>1, FullInvariance, PTL

(* For any capacities no run is overbooked, and no member has two seats on  *)
(* one (orders/commerce.ts:145-154).                                        *)
THEOREM SeatsAlwaysRespected == Spec => []SeatsRespected
<1>1. FullInv => SeatsRespected
  BY DEF FullInv
<1> QED
  BY <1>1, FullInvariance, PTL
-----------------------------------------------------------------------------
(* The escrow                                                               *)

OwnerMap == [i \in Items |-> IF fulfilment[i] = "none" THEN NoMember ELSE buyer[Order(i)]]
PlaceMap == [i \in Items |-> PlaceOf(i)]
GrantMap == [m \in Members |-> adjusted[m]]

(* The escrow counts points as the handlers do. *)
LEMMA SamePoints == \A S, p : Escrow!PointsOf(S, p) = PointsOf(S, p)
BY DEF Escrow!PointsOf, Escrow!Units, PointsOf, Units,
       Escrow!Cardinality, Cardinality, Escrow!IsFiniteSet, IsFiniteSet

(* What the escrow calls spendable is the available balance.                *)
LEMMA SpendableIsAvailable ==
  ASSUME Inv, NEW m \in Members
  PROVE  Escrow!Spendable(m) = available[m]
<1>1. Escrow!In(m, {"held", "platform", "settled"}) = Kept(m)
  BY AccountAssumption DEF Escrow!In, Kept, ItemsOf, Bought, PlaceOf, Inv, TypeOK
<1>2. available[m] = adjusted[m] - Cost(Kept(m))
  BY DEF Inv, BalancesExplained
<1>3. Escrow!PointsOf(Kept(m), ItemPrice) = Cost(Kept(m))
  BY SamePoints DEF Cost
<1> QED
  BY <1>1, <1>2, <1>3 DEF Escrow!Spendable

(* Where nothing is bought for the first time, owners stay. *)
LEMMA OwnersStay ==
  ASSUME buyer' = buyer, \A i \in Items : fulfilment'[i] = "none" <=> fulfilment[i] = "none"
  PROVE  OwnerMap' = OwnerMap
BY DEF OwnerMap

LEMMA MoveStep ==
  ASSUME NEW from, NEW to, OwnerMap' = OwnerMap, GrantMap' = GrantMap,
         \A i \in Items : PlaceOf(i)' # PlaceOf(i) => PlaceOf(i) \in from /\ PlaceOf(i)' = to
  PROVE  Escrow!Move(from, to)
BY DEF Escrow!Move, OwnerMap, GrantMap

LEMMA EscrowInit == Init => Escrow!Init
BY AccountAssumption DEF Init, Escrow!Init, PlaceOf, Accounts

LEMMA CheckoutBuys ==
  ASSUME Inv, NEW m \in Members, NEW o \in Orders, NEW basket \in SUBSET Products,
         Checkout(m, o, basket)
  PROVE  Escrow!Buy(m)
<1> DEFINE lines == Lines(o, basket)
           new == {x \in Items : OwnerMap'[x] # OwnerMap[x]}
<1>1. /\ lines \subseteq Items /\ \A i \in lines : fulfilment[i] = "none" /\ buyer'[Order(i)] = m
      /\ \A i \in Items : fulfilment'[i] = IF i \in ReservedLines(o, basket) THEN "reserved"
                                           ELSE IF i \in lines THEN "fulfilled"
                                           ELSE fulfilment[i]
      /\ \A i \in Items : fulfilment[i] # "none" => buyer'[Order(i)] = buyer[Order(i)]
  BY CheckoutSets
<1>2. /\ ReservedLines(o, basket) \subseteq lines
      /\ available[m] >= Cost(lines) /\ adjusted' = adjusted
  BY DEF Checkout, Lines, ReservedLines
<1>3. \A i \in Items : /\ i \in lines => OwnerMap[i] = NoMember /\ OwnerMap'[i] = m
                       /\ i \notin lines => OwnerMap'[i] = OwnerMap[i] /\ PlaceMap'[i] = PlaceMap[i]
  BY <1>1, <1>2 DEF OwnerMap, PlaceMap, PlaceOf
<1>4. \A i \in lines : PlaceMap'[i] \in {"held", "platform", "settled"}
  BY <1>1, <1>2 DEF PlaceMap, PlaceOf
<1>5. m # NoMember
  BY AccountAssumption
<1>6. new = lines
  BY <1>1, <1>3, <1>5
<1>7. Escrow!Spendable(m) = available[m]
  BY SpendableIsAvailable
<1>8. Escrow!PointsOf(new, ItemPrice) <= Escrow!Spendable(m)
  BY <1>2, <1>6, <1>7, SamePoints DEF Cost
<1>9. /\ OwnerMap' = [x \in Items |-> IF x \in new THEN m ELSE OwnerMap[x]]
      /\ PlaceMap' = [x \in Items |-> IF x \in new THEN PlaceMap'[x] ELSE PlaceMap[x]]
  <2>1. /\ \A x \in Items : OwnerMap'[x] = IF x \in new THEN m ELSE OwnerMap[x]
        /\ \A x \in Items : PlaceMap'[x] = IF x \in new THEN PlaceMap'[x] ELSE PlaceMap[x]
    BY <1>3, <1>6
  <2> QED
    BY <2>1 DEF OwnerMap, PlaceMap
<1>10. /\ \A x \in new : OwnerMap[x] = NoMember
       /\ \A x \in new : PlaceMap'[x] \in {"held", "platform", "settled"}
       /\ GrantMap' = GrantMap
  BY <1>1, <1>2, <1>3, <1>4, <1>6 DEF GrantMap
<1> QED
  BY <1>8, <1>9, <1>10 DEF Escrow!Buy, OwnerMap, PlaceMap, GrantMap

LEMMA AdjustmentGrants ==
  ASSUME Inv, NEW m \in Members, NEW delta \in Adjustments, AdjustPoints(m, delta)
  PROVE  Escrow!Grant(m, delta)
<1>1. /\ available[m] + delta >= 0 /\ UNCHANGED <<runStatus, phase, itemVars>>
      /\ adjusted' = [adjusted EXCEPT ![m] = @ + delta, ![System] = @ - delta]
      /\ adjusted \in [Accounts -> Int] /\ System \notin Members
  BY AccountAssumption DEF AdjustPoints, Inv, TypeOK
<1>2. GrantMap' = [GrantMap EXCEPT ![m] = @ + delta]
  BY <1>1 DEF GrantMap, Accounts
<1>3. OwnerMap' = OwnerMap /\ PlaceMap' = PlaceMap
  BY <1>1 DEF OwnerMap, PlaceMap, PlaceOf, itemVars
<1> QED
  BY <1>1, <1>2, <1>3, SpendableIsAvailable DEF Escrow!Grant, OwnerMap, PlaceMap, GrantMap

(* Every step of Commerce is a step of the escrow, or none.                 *)
LEMMA EscrowStep ==
  ASSUME Inv, [Next]_vars
  PROVE  [Escrow!Next]_(Escrow!vars)
<1>a. /\ fulfilment \in [Items -> {"none", "reserved", "fulfilled", "refunded"}]
  BY DEF Inv, TypeOK
<1>1. ASSUME NEW m \in Members, NEW o \in Orders, NEW basket \in SUBSET Products, Checkout(m, o, basket)
      PROVE  Escrow!Next
  BY <1>1, CheckoutBuys DEF Escrow!Next
<1>2. ASSUME NEW j \in Items, ApproveRefund(j)
      PROVE  Escrow!Next
  <2>1. /\ fulfilment' = [fulfilment EXCEPT ![j] = "refunded"] /\ UNCHANGED <<buyer, adjusted>>
        /\ fulfilment[j] \in {"reserved", "fulfilled"}
        /\ Product(j) \in LiveRuns => fulfilment[j] = "reserved"
    BY <1>2, <1>a DEF ApproveRefund, Decidable, Refundable, Inv, ItemsHaveBuyers
  <2>2. OwnerMap' = OwnerMap /\ GrantMap' = GrantMap
    BY <1>a, <2>1, OwnersStay DEF GrantMap
  <2>3. \A i \in Items : PlaceOf(i)' # PlaceOf(i) => PlaceOf(i) \in {"held", "platform"} /\ PlaceOf(i)' = "returned"
    BY <1>a, <2>1 DEF PlaceOf
  <2> QED
    BY <2>2, <2>3, MoveStep DEF Escrow!Next, Escrow!Return
<1>3. ASSUME NEW r \in LiveRuns, CompleteLiveCourseRun(r) \/ CancelLiveCourseRun(r)
      PROVE  Escrow!Next
  <2>1. PICK end \in {"fulfilled", "refunded"} :
          /\ fulfilment' = Mark(fulfilment, Reserved(r), end) /\ UNCHANGED <<buyer, adjusted>>
    BY <1>3 DEF CompleteLiveCourseRun, CancelLiveCourseRun
  <2>2. /\ \A i \in Items : fulfilment'[i] = IF i \in Reserved(r) THEN end ELSE fulfilment[i]
        /\ \A i \in Reserved(r) : fulfilment[i] = "reserved" /\ Product(i) \in LiveRuns
    BY <2>1 DEF Mark, Reserved, ItemsOfRun
  <2>3. OwnerMap' = OwnerMap /\ GrantMap' = GrantMap
    BY <2>1, <2>2, OwnersStay DEF GrantMap
  <2>4. CASE end = "fulfilled"
    <3>1. \A i \in Items : PlaceOf(i)' # PlaceOf(i) => PlaceOf(i) \in {"held"} /\ PlaceOf(i)' = "settled"
      BY <2>2, <2>4 DEF PlaceOf
    <3> QED
      BY <2>3, <3>1, MoveStep DEF Escrow!Next, Escrow!Settle
  <2>5. CASE end = "refunded"
    <3>1. \A i \in Items : PlaceOf(i)' # PlaceOf(i) => PlaceOf(i) \in {"held", "platform"} /\ PlaceOf(i)' = "returned"
      BY <2>2, <2>5 DEF PlaceOf
    <3> QED
      BY <2>3, <3>1, MoveStep DEF Escrow!Next, Escrow!Return
  <2> QED
    BY <2>4, <2>5
<1>4. ASSUME NEW m \in Members, NEW delta \in Adjustments, AdjustPoints(m, delta)
      PROVE  Escrow!Next
  BY <1>4, AdjustmentGrants DEF Escrow!Next
<1>5. CASE UNCHANGED <<itemVars, adjusted>>
  BY <1>5 DEF Escrow!vars, PlaceOf, itemVars
<1>6. CASE UNCHANGED vars
  BY <1>5, <1>6 DEF vars, moneyVars
<1> QED
  BY <1>1, <1>2, <1>3, <1>4, <1>5, <1>6
     DEF Next, CreateRefundRequest, RejectRefund, BeginDownload, FinishDownload, Watch, PassTime, moneyVars

(* Checkout, refunds, completion, cancellation and adjustments implement    *)
(* the escrow for any members, orders, products and prices: every price is  *)
(* in one place, and the place only moves forward (orders/commerce.ts:207,  *)
(* refunds/service.ts:164, admin/operations.ts:106).                        *)
THEOREM EscrowImplemented == Spec => ImplementsEscrow
<1>1. Inv /\ [Next]_vars => [Escrow!Next]_(Escrow!vars)
  BY EscrowStep
<1> QED
  BY <1>1, EscrowInit, Invariance, PTL DEF Spec, ImplementsEscrow, Escrow!Spec
=============================================================================
