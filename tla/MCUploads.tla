----------------------------- MODULE MCUploads -----------------------------
(* Small accounts: a content item, a course, and up to two files. *)
EXTENDS Uploads, TLC

Symmetry == Permutations(Assets) \cup Permutations(Requests)

Busy == {r \in Requests : request[r] # Idle}
Held == {a \in Assets : asset[a] # Unused}

(* One file with any bytes, and two completions that race.                 *)
OneFile == Cardinality(Held) <= 1

(* Two files of one listing with clean bytes, one completion at a time.    *)
TwoFiles ==
  /\ Cardinality(Busy) <= 1
  /\ \E l \in Listings :
       /\ \A a \in Held : asset[a].of = l
       /\ \A k \in Listings \ {l} : Draft(k)
  /\ \A a \in Assets :
       /\ asset[a].state # "quarantined"
       /\ \A n \in Copies : store[a][n] \in {IF n < MaxCopies THEN "clean" ELSE Absent, Absent}
  /\ \A r \in Busy : request[r].copy # MaxCopies /\ request[r].tag \in {"clean", Absent}
=============================================================================
