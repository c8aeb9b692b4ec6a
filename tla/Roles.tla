---- MODULE Roles ----
(* Accounts, their roles, and the administrators who change them: suspending,   *)
(* reinstating and deleting accounts, granting and revoking roles, deciding     *)
(* applications and certifications (admin/users.ts, governance/governance.ts,    *)
(* account/privacy.ts).  An administrator is authenticated before the            *)
(* transaction of the request begins; the transaction locks the row of its       *)
(* target, decides, and at the end names the administrator in the log, whose     *)
(* foreign key waits for a transaction that has locked the administrator's row.  *)
EXTENDS Integers, FiniteSets

CONSTANTS
  Users,
  AdminRequests,  \* requests of administrators in progress at a time
  FirstAdmins,  \* administrators at the start
  Members,      \* users who apply for roles and file requests
  AppliedRoles, \* roles that can be applied for: trainer, creator
  PrivacyTypes, \* data_export, account_deletion
  MaxCertificates \* bound on the pending certifications of a trainer

ASSUME RolesAssumption ==
  FirstAdmins \subseteq Users /\ Members \subseteq Users /\ MaxCertificates \in Nat

VARIABLES
  userRow,      \* users, user_roles and the live sessions
  application,  \* role_applications: the latest of each applicant and role
  certificate,  \* the pending trainer_certifications of each trainer
  privacy,      \* open privacy_requests
  roleRequest   \* the requests of administrators

roleVars == <<userRow, application, certificate, privacy, roleRequest>>

-----------------------------------------------------------------------------
GrantedRoles == AppliedRoles \cup {"admin"}
ReviewStatus == {"none", "pending", "approved", "rejected"}
RoleIdle == [step |-> "idle"]

RolesInit ==
  /\ userRow = [u \in Users |-> [status |-> "active", session |-> u \in FirstAdmins,
                                 roles |-> IF u \in FirstAdmins THEN {"admin"} ELSE {}]]
  /\ application = [u \in Users |-> [r \in AppliedRoles |-> "none"]]
  /\ certificate = [u \in Users |-> 0]
  /\ privacy = [u \in Users |-> {}]
  /\ roleRequest = [r \in AdminRequests |-> RoleIdle]

ActiveAdmins == {u \in Users : userRow[u].status = "active" /\ "admin" \in userRow[u].roles}
Authenticated(u) == userRow[u].session /\ userRow[u].status = "active"

(* Row locks: an administrator's transaction holds its target's row. *)
InTransaction(r) == roleRequest[r].step = "locked"
RowLocked(u) == \E r \in AdminRequests : InTransaction(r) /\ roleRequest[r].target = u

StatusOps == {"suspend", "reinstate", "delete"}
AdminOps == StatusOps \cup {"grant", "revoke", "approve", "reject"}

(* authenticate and requireRole. *)
StartAdminRequest(r, a, op, target, role) ==
  /\ roleRequest[r] = RoleIdle
  /\ Authenticated(a) /\ "admin" \in userRow[a].roles
  /\ op \in {"approve", "reject"} => role \in AppliedRoles
  /\ op \in StatusOps => role = "admin"   \* they name no role
  /\ roleRequest' = [roleRequest EXCEPT ![r] =
       [step |-> "ready", admin |-> a, op |-> op, target |-> target, role |-> role]]
  /\ UNCHANGED <<userRow, application, certificate, privacy>>

(* The conditions of updateAccountStatus, deleteUser, changeUserRole and        *)
(* decideRoleApplication, read after the target's row is locked.  The remaining  *)
(* administrators are counted over rows that are not.                            *)
StatusAllowed(op, user) ==
  /\ "admin" \notin user.roles
  /\ \/ op = "suspend" /\ user.status = "active"
     \/ op = "reinstate" /\ user.status = "suspended"
     \/ op = "delete" /\ user.status # "deleted"

RoleAllowed(op, user, role) ==
  /\ user.status = "active"
  /\ IF op = "grant" THEN role \notin user.roles
     ELSE role \in user.roles /\ (role = "admin" => Cardinality(ActiveAdmins) > 1)

DecisionAllowed(op, u, role) ==
  /\ application[u][role] = "pending"
  /\ op = "approve" => userRow[u].status = "active"

Allowed(req) ==
  /\ req.target # req.admin
  /\ \/ req.op \in StatusOps /\ StatusAllowed(req.op, userRow[req.target])
     \/ req.op \in {"grant", "revoke"} /\ RoleAllowed(req.op, userRow[req.target], req.role)
     \/ req.op \in {"approve", "reject"} /\ DecisionAllowed(req.op, req.target, req.role)

(* Mutant: the target is read without FOR UPDATE. *)
ReadTarget(r) ==
  /\ roleRequest[r].step = "ready"
  /\ roleRequest' = [roleRequest EXCEPT ![r] =
       IF Allowed(@) THEN [@ EXCEPT !.step = "locked"] ELSE RoleIdle]
  /\ UNCHANGED <<userRow, application, certificate, privacy>>

LockTarget(r) ==
  /\ roleRequest[r].step = "ready"
  /\ ~RowLocked(roleRequest[r].target)
  /\ roleRequest' = [roleRequest EXCEPT ![r] =
       IF Allowed(@) THEN [@ EXCEPT !.step = "locked"] ELSE RoleIdle]
  /\ UNCHANGED <<userRow, application, certificate, privacy>>

(* What each operation leaves of the target's account: losing access, or a     *)
(* changed role, ends its sessions; an approval does not.                       *)
RolesAfter(req, roles) ==
  IF req.op \in {"grant", "approve"} THEN roles \cup {req.role}
  ELSE IF req.op = "revoke" THEN roles \ {req.role}
  ELSE IF req.op = "delete" THEN {} ELSE roles

StatusAfter(op, status) ==
  IF op = "suspend" THEN "suspended" ELSE IF op = "reinstate" THEN "active"
  ELSE IF op = "delete" THEN "deleted" ELSE status

AccountAfter(req, user) ==
  [status |-> StatusAfter(req.op, user.status), roles |-> RolesAfter(req, user.roles),
   session |-> user.session /\ req.op \in {"reinstate", "approve", "reject"}]

CommitAdminRequest(r) ==
  /\ InTransaction(r) /\ ~RowLocked(roleRequest[r].admin)
  /\ LET req == roleRequest[r] IN
     /\ userRow' = [userRow EXCEPT ![req.target] = AccountAfter(req, @)]
     /\ application' = IF req.op \notin {"approve", "reject"} THEN application
                       ELSE [application EXCEPT ![req.target] = [@ EXCEPT ![req.role] =
                               IF req.op = "approve" THEN "approved" ELSE "rejected"]]
  /\ roleRequest' = [roleRequest EXCEPT ![r] = RoleIdle]
  /\ UNCHANGED <<certificate, privacy>>

(* PostgreSQL aborts one of several transactions that wait for each other. *)
Deadlocked(S) ==
  \A r \in S : InTransaction(r) /\ \E q \in S :
    InTransaction(q) /\ roleRequest[q].target = roleRequest[r].admin

AbortDeadlocked(r) ==
  /\ \E S \in SUBSET AdminRequests : r \in S /\ Deadlocked(S)
  /\ roleRequest' = [roleRequest EXCEPT ![r] = RoleIdle]
  /\ UNCHANGED <<userRow, application, certificate, privacy>>

-----------------------------------------------------------------------------
(* createRoleApplication: not for a role the user has, nor while one is pending *)
(* (the partial unique index).                                                  *)
CreateRoleApplication(u, role) ==
  /\ Authenticated(u) /\ role \notin userRow[u].roles
  /\ application[u][role] # "pending"
  /\ ~RowLocked(u)
  /\ application' = [application EXCEPT ![u] = [@ EXCEPT ![role] = "pending"]]
  /\ UNCHANGED <<userRow, certificate, privacy, roleRequest>>

(* createTrainerCertification and its decision, which looks at the certification *)
(* alone.                                                                         *)
CreateTrainerCertification(u) ==
  /\ Authenticated(u) /\ "trainer" \in userRow[u].roles /\ ~RowLocked(u)
  /\ certificate[u] < MaxCertificates
  /\ certificate' = [certificate EXCEPT ![u] = @ + 1]
  /\ UNCHANGED <<userRow, application, privacy, roleRequest>>

DecideTrainerCertification(a, u) ==
  /\ Authenticated(a) /\ "admin" \in userRow[a].roles /\ ~RowLocked(a)
  /\ certificate[u] > 0
  /\ certificate' = [certificate EXCEPT ![u] = @ - 1]
  /\ UNCHANGED <<userRow, application, privacy, roleRequest>>

(* createPrivacyRequest: under the lock of the user's row, one open request of  *)
(* a type; nothing in the code closes one yet.                                   *)
CreatePrivacyRequest(u, type) ==
  /\ Authenticated(u) /\ ~RowLocked(u) /\ type \notin privacy[u]
  /\ privacy' = [privacy EXCEPT ![u] = @ \cup {type}]
  /\ UNCHANGED <<userRow, application, certificate, roleRequest>>

(* A sign-in, which checks the account and then waits for its row. *)
OpenSession(u) ==
  /\ userRow[u].status = "active" /\ ~userRow[u].session /\ ~RowLocked(u)
  /\ userRow' = [userRow EXCEPT ![u] = [@ EXCEPT !.session = TRUE]]
  /\ UNCHANGED <<application, certificate, privacy, roleRequest>>

RolesNext ==
  \/ \E a, u \in Users :
       \/ \E r \in AdminRequests, op \in AdminOps, role \in GrantedRoles :
            StartAdminRequest(r, a, op, u, role)
       \/ DecideTrainerCertification(a, u)
  \/ \E r \in AdminRequests : LockTarget(r) \/ CommitAdminRequest(r) \/ AbortDeadlocked(r)
  \/ \E u \in Members :
       \/ \E role \in AppliedRoles : CreateRoleApplication(u, role)
       \/ CreateTrainerCertification(u)
       \/ \E type \in PrivacyTypes : CreatePrivacyRequest(u, type)
  \/ \E u \in Users : OpenSession(u)

RolesSpec == RolesInit /\ [][RolesNext]_roleVars

-----------------------------------------------------------------------------
UserRow == [status : {"active", "suspended", "deleted"}, session : BOOLEAN,
            roles : SUBSET GrantedRoles]
AdminRequest == [step : {"ready", "locked"}, admin : Users, op : AdminOps, target : Users,
                 role : GrantedRoles]

RolesTypeOK ==
  /\ userRow \in [Users -> UserRow]
  /\ application \in [Users -> [AppliedRoles -> ReviewStatus]]
  /\ certificate \in [Users -> 0..MaxCertificates]
  /\ privacy \in [Users -> SUBSET PrivacyTypes]
  /\ roleRequest \in [AdminRequests -> {RoleIdle} \cup AdminRequest]

(* Whatever order administrators grant, revoke, decide, suspend and delete in,  *)
(* and whoever was authenticated before another one's decision: an               *)
(* administrator's account is active, and a deleted account holds no role         *)
(* (users.ts:116-237, governance.ts:104-133).                                     *)
RolesFitAccounts ==
  \A u \in Users :
    /\ "admin" \in userRow[u].roles => userRow[u].status = "active"
    /\ userRow[u].status = "deleted" => userRow[u].roles = {}

(* docs/API.md:94: removal of the last active administrator is blocked. *)
AdminRemains == ActiveAdmins # {}

====
