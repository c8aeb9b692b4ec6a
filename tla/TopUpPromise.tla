---------------------------- MODULE TopUpPromise ----------------------------
(***************************************************************************)
(* What a top-up promises: a payment that the customer has made is         *)
(* credited once, not before it was made, and not never.                   *)
(***************************************************************************)
CONSTANT Payments

VARIABLE state

Init == state = [p \in Payments |-> "unpaid"]

Pay(p) == state[p] = "unpaid" /\ state' = [state EXCEPT ![p] = "paid"]
Credit(p) == state[p] = "paid" /\ state' = [state EXCEPT ![p] = "credited"]

Next == \E p \in Payments : Pay(p) \/ Credit(p)

Safety == Init /\ [][Next]_state
Spec == Safety /\ \A p \in Payments : WF_state(Credit(p))
=============================================================================
