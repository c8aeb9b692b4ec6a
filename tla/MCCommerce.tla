----------------------------- MODULE MCCommerce -----------------------------
(***************************************************************************)
(* Small instances of Commerce for TLC, and the conservation of points,    *)
(* stated with the fold of the community modules.                          *)
(***************************************************************************)
EXTENDS Commerce, TLC
LOCAL INSTANCE FiniteSetsExt

CONSTANTS alice, bob, carol, o1, o2, o3, live, gratis, local, video, ebook

TwoMembers == {alice, bob}

(* alice and bob buy; bob owns the content, carol teaches the courses. *)
SellerOf == [p \in Products |-> IF p \in Contents THEN bob ELSE carol]

PriceOf == [p \in Products |-> CASE p \in LiveRuns -> IF p = gratis THEN 0 ELSE 2
                                 [] OTHER -> 1]
OneSeat == [r \in Courses \ Uncapped |-> 1]

(* What an administrator grants, and takes back. *)
Deltas == {2, -1}

OrderSymmetry == Permutations(Orders)

(* Counting point by point is the same as adding up prices. *)
ASSUME \A S \in SUBSET Items : Cost(S) = MapThenSumSet(LAMBDA i : ItemPrice[i], S)
=============================================================================
