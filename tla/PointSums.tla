----------------------------- MODULE PointSums -----------------------------
(***************************************************************************)
(* Totals of points.  The handlers add prices in loops                     *)
(* (orders/commerce.ts:216) or post one ledger entry after another         *)
(* (points/ledger.ts:82-113).  Here a total is counted point by point: a   *)
(* priced thing x contributes the price[x] pairs <<x, 1>> .. <<x,          *)
(* price[x]>>, and the total of a set is the number of its pairs.  The     *)
(* form needs no recursion, so the proofs reason about totals with the     *)
(* library's theorems on cardinalities; MCCommerce checks it against the   *)
(* fold of the community modules.                                          *)
(***************************************************************************)
EXTENDS Naturals, FiniteSets

(* The individual points that the things in S cost. *)
Units(S, price) == UNION {{x} \X (1 .. price[x]) : x \in S}

(* The points that the things in S cost together. *)
PointsOf(S, price) == Cardinality(Units(S, price))
=============================================================================
