----------------------------- MODULE MCAccounts -----------------------------
(***************************************************************************)
(* One account: registering it, the guesses at its factors, its sessions,  *)
(* the roles that administrators give and take, and the jobs that look     *)
(* over what accounts did.  The five components share no state here, so a  *)
(* behaviour of this module is a behaviour of one of them, which `part'    *)
(* names, while the others stay in their initial state.                    *)
(***************************************************************************)
EXTENDS Sessions, Registration, SignIn, Roles, SecurityJobs, TLC

(* Two requests in flight: every race of two handlers on one account. *)
Symmetry == Permutations(Requests)

(* Two files of one kind and one of the other: a full page, a short one, and a *)
(* second kind; the third query of the risk sweep shows nobody new.            *)
GroupOf == [s \in Audited |-> IF s < 3 THEN 1 ELSE 2]

VARIABLE part

(* Three sessions and no reset link, or two and a link: who resets a password *)
(* ends the sessions there are, one or two.                                   *)
Few == part = "sessions" => created + link.number <= 3

AccountsInit ==
  /\ part \in {"registration", "sign-in", "sessions", "roles", "jobs"}
  /\ Init /\ RegInit /\ SignInit /\ RolesInit
  /\ JobsInit /\ (part # "jobs" => kind = "ledger" /\ unclean = {})

AccountsNext ==
  /\ UNCHANGED part
  /\ \/ part = "sessions" /\ Next /\ UNCHANGED <<regVars, signVars, roleVars, jobVars>>
     \/ part = "registration" /\ RegNext /\ UNCHANGED <<vars, signVars, roleVars, jobVars>>
     \/ part = "sign-in" /\ SignNext /\ UNCHANGED <<vars, regVars, roleVars, jobVars>>
     \/ part = "roles" /\ RolesNext /\ UNCHANGED <<vars, regVars, signVars, jobVars>>
     \/ part = "jobs" /\ JobsNext /\ UNCHANGED <<vars, regVars, signVars, roleVars>>

AccountsSpec ==
  AccountsInit /\ [][AccountsNext]_<<part, vars, regVars, signVars, roleVars, jobVars>>
=============================================================================
