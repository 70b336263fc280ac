------------------------------ MODULE Accounts ------------------------------
(* Accounts and roles: employees.service.ts, users.service.ts (setStatus),     *)
(* roles.service.ts and the registration of auth.service.ts, together with the *)
(* sessions of the accounts. Calls interleave at every statement they await.   *)
(*                                                                            *)
(* The guards read the account of the caller anew for each call (JwtStrategy,  *)
(* PermissionsGuard); they and the first read of a handler are one step.       *)
EXTENDS Sessions

CONSTANTS
    SystemRoles,   \* roles.isSystem: seeded, never deleted
    OWNER,
    CUSTOMER,
    OwnerOnly,     \* OWNER_ONLY_ROLE_NAMES
    granted        \* role_permissions: the permissions of each role

Permissions == {"employees.create", "employees.update", "users.update",
                "roles.create", "roles.delete"}

ASSUME AccountsAssumption ==
    /\ SystemRoles \subseteq Roles
    /\ {OWNER, CUSTOMER} \subseteq SystemRoles
    /\ OWNER \in OwnerOnly
    /\ granted \in [Roles -> SUBSET Permissions]

VARIABLES
    roles,      \* user_roles
    role        \* rows of roles; an id that was deleted never comes back

allVars == <<sessionVars, roles, role>>
accountVars == <<userStatus, roles, role>>

-----------------------------------------------------------------------------
isOwner(a) == OWNER \in roles[a]
owners == {u \in Users : isOwner(u)}
activeOwners == {u \in owners : isActive(u)}
permissionsOf(a) == UNION {granted[x] : x \in roles[a]}

hasPermission(a, p) == isOwner(a) \/ p \in permissionsOf(a)
mayCall(a, p) == isActive(a) /\ hasPermission(a, p)
canGrant(a, x) ==
    /\ x \in OwnerOnly => isOwner(a)
    /\ isOwner(a) \/ granted[x] \subseteq permissionsOf(a)

\* Only an owner touches the account of an owner.
manageable(a, u) == isOwner(u) => isOwner(a)

\* A faulty variant: staff may work on their own account.
isAnyone(a, u) == exists(u)

\* The account a call of staff works on is someone else's.
isAnother(a, u) == exists(u) /\ a # u

reads(r, call) ==
    /\ begin(r, call)
    /\ UNCHANGED <<accountVars, session, resetToken, interrupted>>
staffRefused(r) ==
    /\ finish(r)
    /\ UNCHANGED <<accountVars, session, resetToken, interrupted>>

-----------------------------------------------------------------------------
(* New accounts.                                                              *)

\* POST /auth/register: the account, then its first session.
register(r, u) ==
    /\ ~ exists(u)
    /\ req[r].pc = "idle"
    /\ userStatus' = [userStatus EXCEPT ![u] = "ACTIVE"]
    /\ roles' = [roles EXCEPT ![u] = {CUSTOMER}]
    /\ req' = outdateReads(r, callOf("login", u, NoToken, "mint"))
    /\ UNCHANGED <<session, resetToken, interrupted, role>>

\* POST /employees: the role is read first, by id or by name.
createEmployee(r, a, u, x) ==
    /\ mayCall(a, "employees.create")
    /\ ~ exists(u)
    /\ role[x] = "EXISTS"
    /\ x # OWNER
    /\ canGrant(a, x)
    /\ reads(r, staffCall("create", u, x, "write"))

\* Account and role in one transaction: it fails on the foreign key when the role
\* is gone, and on the unique phone number when the account is there.
writesEmployee(r) ==
    /\ writing(r, "create")
    /\ role[req[r].role] = "EXISTS"
    /\ ~ exists(req[r].user)
    /\ userStatus' = [userStatus EXCEPT ![req[r].user] = "ACTIVE"]
    /\ roles' = [roles EXCEPT ![req[r].user] = {req[r].role}]
    /\ req' = outdateReads(r, Idle)
    /\ UNCHANGED <<session, resetToken, interrupted, role>>

employeeRefused(r) ==
    /\ writing(r, "create")
    /\ role[req[r].role] # "EXISTS" \/ exists(req[r].user)
    /\ staffRefused(r)

-----------------------------------------------------------------------------
(* Who may enable and disable whom.                                           *)

setEmployeeStatus(r, a, u, op) ==
    /\ mayCall(a, "employees.update")
    /\ isAnother(a, u)
    /\ manageable(a, u)
    /\ reads(r, staffCall(op, u, NoRole,
                          IF op = "disable" /\ isOwner(u) THEN "count" ELSE "write"))

setUserStatus(r, a, u, op) ==
    /\ mayCall(a, "users.update") \/ mayCall(a, "employees.update")
    /\ isAnother(a, u)
    /\ roles[u] \cap OwnerOnly # {} => isOwner(a)
    /\ reads(r, staffCall(op, u, NoRole, "write"))

\* assertNotLastOwner(): suspended owners count.
counts(r) ==
    /\ req[r].pc = "count"
    /\ IF Cardinality(owners) <= 1 THEN finish(r) ELSE goto(r, "write")
    /\ UNCHANGED <<accountVars, session, resetToken, interrupted>>

-----------------------------------------------------------------------------
(* POST /employees/:id/roles and DELETE /employees/:id/roles/:roleId.         *)

assignRole(r, a, u, x) ==
    /\ mayCall(a, "employees.update")
    /\ isAnother(a, u)
    /\ manageable(a, u)
    /\ role[x] = "EXISTS"
    /\ x \notin roles[u]
    /\ canGrant(a, x)
    /\ reads(r, staffCall("assign", u, x, "write"))

\* The insert fails on the foreign key or on the primary key of user_roles.
assigns(r) ==
    /\ writing(r, "assign")
    /\ role[req[r].role] = "EXISTS"
    /\ req[r].role \notin roles[req[r].user]
    /\ roles' = [roles EXCEPT ![req[r].user] = @ \cup {req[r].role}]
    /\ req' = outdateReads(r, Idle)
    /\ UNCHANGED <<session, resetToken, interrupted, userStatus, role>>

assignRefused(r) ==
    /\ writing(r, "assign")
    /\ role[req[r].role] # "EXISTS" \/ req[r].role \in roles[req[r].user]
    /\ staffRefused(r)

\* A faulty variant: the last role may go.
anyRole(u) == TRUE

\* The role that is taken is not the last one.
hasOtherRoles(u) == Cardinality(roles[u]) > 1

\* The count of owners comes before the check for other roles; both refuse.
revokeRole(r, a, u, x) ==
    /\ mayCall(a, "employees.update")
    /\ isAnother(a, u)
    /\ manageable(a, u)
    /\ x \in roles[u]
    /\ x \in OwnerOnly => isOwner(a)
    /\ hasOtherRoles(u)
    /\ reads(r, staffCall("revoke", u, x, IF x = OWNER THEN "count" ELSE "write"))

\* The delete fails when the row is gone.
revokes(r) ==
    /\ writing(r, "revoke")
    /\ req[r].role \in roles[req[r].user]
    /\ roles' = [roles EXCEPT ![req[r].user] = @ \ {req[r].role}]
    /\ req' = outdateReads(r, Idle)
    /\ UNCHANGED <<session, resetToken, interrupted, userStatus, role>>

revokeRefused(r) ==
    /\ writing(r, "revoke")
    /\ req[r].role \notin roles[req[r].user]
    /\ staffRefused(r)

-----------------------------------------------------------------------------
(* POST /roles and DELETE /roles/:id.                                         *)

\* The unique name decides, whatever was read before the transaction.
createRole(a, x) ==
    /\ mayCall(a, "roles.create")
    /\ x \notin SystemRoles
    /\ role[x] = "NONE"
    /\ canGrant(a, x)
    /\ role' = [role EXCEPT ![x] = "EXISTS"]
    /\ UNCHANGED <<sessionVars, roles>>

\* Nobody has the role when it is read.
removeRole(r, a, x) ==
    /\ mayCall(a, "roles.delete")
    /\ role[x] = "EXISTS"
    /\ x \notin SystemRoles
    /\ \A u \in Users : x \notin roles[u]
    /\ reads(r, staffCall("remove", NoUser, x, "write"))

\* A faulty variant: the assignments stay.
removesRoleOnly(r) ==
    /\ writing(r, "remove")
    /\ role[req[r].role] = "EXISTS"
    /\ role' = [role EXCEPT ![req[r].role] = "DELETED"]
    /\ req' = outdateReads(r, Idle)
    /\ UNCHANGED <<session, resetToken, interrupted, userStatus, roles>>

\* The delete takes every assignment of the role with it.
removes(r) ==
    /\ writing(r, "remove")
    /\ role[req[r].role] = "EXISTS"
    /\ role' = [role EXCEPT ![req[r].role] = "DELETED"]
    /\ roles' = [u \in Users |-> roles[u] \ {req[r].role}]
    /\ req' = outdateReads(r, Idle)
    /\ UNCHANGED <<session, resetToken, interrupted, userStatus>>

removeRefused(r) ==
    /\ writing(r, "remove")
    /\ role[req[r].role] # "EXISTS"
    /\ staffRefused(r)

-----------------------------------------------------------------------------
\* The seed leaves an active owner; other accounts may be there already.
AccountsInit ==
    /\ role \in [Roles -> {"NONE", "EXISTS"}]
    /\ \A x \in SystemRoles : role[x] = "EXISTS"
    /\ userStatus \in [Users -> {"NONE", "ACTIVE", "SUSPENDED"}]
    /\ roles \in [Users -> SUBSET {x \in Roles : role[x] = "EXISTS"}]
    /\ \A u \in Users : exists(u) <=> roles[u] # {}
    /\ activeOwners # {}
    /\ session = [t \in Tokens |-> NoSession]
    /\ resetToken = [x \in ResetTokens |-> [user |-> NoUser, used |-> FALSE]]
    /\ req = [r \in Requests |-> Idle]
    /\ interrupted = {}

staffCalls(r) ==
    \E a, u \in Users :
        \/ \E x \in Roles : \/ createEmployee(r, a, u, x)
                            \/ assignRole(r, a, u, x)
                            \/ revokeRole(r, a, u, x)
        \/ \E op \in {"enable", "disable"} : setEmployeeStatus(r, a, u, op)
                                               \/ setUserStatus(r, a, u, op)

staffSteps(r) ==
    \/ writesEmployee(r) \/ employeeRefused(r)
    \/ counts(r)
    \/ assigns(r) \/ assignRefused(r)
    \/ revokes(r) \/ revokeRefused(r)
    \/ removes(r) \/ removeRefused(r)

AccountsNext ==
    \/ \E r \in Requests :
          \/ (clientCalls(r) \/ sessionSteps(r) \/ enables(r) \/ disables(r))
             /\ UNCHANGED <<roles, role>>
          \/ \E u \in Clients : register(r, u)
          \/ \E a \in Users, x \in Roles : removeRole(r, a, x)
          \/ staffCalls(r) \/ staffSteps(r)
    \/ \E a \in Users, x \in Roles : createRole(a, x)
    \/ crash /\ UNCHANGED <<roles, role>>

AccountsSpec == AccountsInit /\ [][AccountsNext]_allVars

-----------------------------------------------------------------------------
(* What must hold.                                                            *)

\* Every table, every call and what a call holds keep their types; every role that
\* is assigned exists, as the foreign key of user_roles demands.
AccountsTypeOK ==
    /\ SessionsTypeOK
    /\ roles \in [Users -> SUBSET {x \in Roles : role[x] = "EXISTS"}]
    /\ role \in [Roles -> {"NONE", "EXISTS", "DELETED"}]

\* A write of a call that holds what has changed since it was read.
staleWrite == \E r \in Requests : req[r].pc = "write" /\ req[r].stale /\ req'[r] # req[r]

\* Calls of staff that do not overlap leave an owner who can sign in, whoever
\* disables or demotes whom (employees.service.ts:262-268, 332-348).
OwnersRemain == [][activeOwners # {} /\ activeOwners' = {} => staleWrite]_allVars

\* Calls of staff that do not overlap leave every account a role, though a role
\* that is deleted takes its assignments with it (employees.service.ts:349,
\* roles.service.ts:178).
EveryoneKeepsARole ==
    [][\A u \in Users : roles[u] # {} /\ roles[u]' = {} => staleWrite]_allVars
=============================================================================
