------------------------------- MODULE AdminAccess -------------------------------
(***************************************************************************)
(* Administrators, their access roles and the mutations of both            *)
(* (lib/server/admin-access/authority-service.ts, mutation-lock.ts,        *)
(* lib/admin-access/authorization.ts), with the operator's tools           *)
(* (scripts/deploy/lib/admin.ts) that freeze, demote and provision.        *)
(*                                                                         *)
(* Every mutation runs in a transaction that first takes one advisory lock *)
(* and reads the freeze; the rest of it is one step, for the lock is kept  *)
(* to its end.  A request passed the route's own check earlier, so an      *)
(* active user's may get the lock; a refused request changes nothing.      *)
(* Revisions, names and e-mail addresses are left out: a stale revision is *)
(* one more way to be refused.                                             *)
(***************************************************************************)

CONSTANTS
  User,        \* accounts that may come to exist
  CustomRole,  \* roles that may be created
  Resource,    \* the resources of the catalogue that are considered
  Permissions  \* what an administrator may save as a role's permissions

FULL_ACCESS_ROLE_ID == "system-full-access"
NO_ACCESS_ROLE_ID == "system-no-access"
SystemRole == {FULL_ACCESS_ROLE_ID, NO_ACCESS_ROLE_ID}
Role == CustomRole \cup SystemRole

\* The catalogue: what can be done with each resource.
Action == {"VIEW", "CREATE", "UPDATE", "DELETE"}
RequiresAdminUser == {"users", "password-reset-requests", "role-assignments"}
SupportedActions(r) ==
  IF r \in {"users", "roles", "zaad"} THEN Action ELSE {"VIEW", "UPDATE"}
Cell == {c \in Resource \X Action : c[2] \in SupportedActions(c[1])}

CriticalRecoveryCells ==
  ({"users"} \X Action) \cup ({"roles", "role-assignments"} \X {"VIEW", "UPDATE"})

ASSUME ResourceAssumption ==
  /\ {"users", "password-reset-requests", "roles", "role-assignments"} \subseteq Resource
  /\ Resource \subseteq
       {"users", "password-reset-requests", "roles", "role-assignments", "phone-settings",
        "chat-settings", "language-settings", "maintenance-settings", "developer-api",
        "reservations", "zaad"}
ASSUME RoleAssumption == CustomRole \cap SystemRole = {}
ASSUME UserAssumption == User \cap {"free", "session"} = {}
ASSUME PermissionsAssumption ==
  \A p \in Permissions : /\ p.allow \subseteq Cell /\ p.deny \subseteq Cell
                         /\ p.allow \cap p.deny = {}

VARIABLES
  user,    \* user and admin_access_role_assignments
  role,    \* admin_access_roles and their permissions
  mutex,   \* who holds the advisory lock: a user's request or the operator's session
  freeze,  \* the freeze row; "unguarded" if it was set after the session lost the lock
  rollback \* where the operator's session is

accounts == <<user, role>>
operator == <<freeze, rollback>>
vars == <<user, role, mutex, freeze, rollback>>

SystemKey == {"FULL_ACCESS", "NO_ACCESS", "none"}
UserRow == [exists : BOOLEAN, admin : BOOLEAN, banned : BOOLEAN, mustChangePassword : BOOLEAN,
            roles : SUBSET Role]
RoleRow == [exists : BOOLEAN, systemKey : SystemKey, allow : SUBSET Cell, deny : SUBSET Cell]

NoUser == [exists |-> FALSE, admin |-> FALSE, banned |-> FALSE, mustChangePassword |-> FALSE,
           roles |-> {}]
EmptyRole(exists, key) == [exists |-> exists, systemKey |-> key, allow |-> {}, deny |-> {}]

\* What the migrations and the seed leave behind.
SeedAdmin == [exists |-> TRUE, admin |-> TRUE, banned |-> FALSE, mustChangePassword |-> FALSE,
              roles |-> {FULL_ACCESS_ROLE_ID}]
Init ==
  /\ \E u \in User : user = [v \in User |-> IF v = u THEN SeedAdmin ELSE NoUser]
  /\ role = [r \in Role |->
               CASE r = FULL_ACCESS_ROLE_ID -> EmptyRole(TRUE, "FULL_ACCESS")
                 [] r = NO_ACCESS_ROLE_ID -> EmptyRole(TRUE, "NO_ACCESS")
                 [] OTHER -> EmptyRole(FALSE, "none")]
  /\ mutex = "free" /\ freeze = "none" /\ rollback = "idle"

-----------------------------------------------------------------------------
(* Authorization.                                                          *)

AccessActor(row, sources) ==
  [admin |-> row.admin, banned |-> row.banned, mustChangePassword |-> row.mustChangePassword,
   roles |-> sources]

GetAdminAccessActor(u) == AccessActor(user[u], {role[r] : r \in user[u].roles})

\* The member as it would be with these permissions of the role.
ActorFromUserRecord(u, r, permissions) ==
  AccessActor(user[u],
    {IF s = r THEN [role[s] EXCEPT !.allow = permissions.allow, !.deny = permissions.deny]
              ELSE role[s] : s \in user[u].roles})

\* A denial by any role wins; FULL_ACCESS allows everything.
EvaluateWithoutViewDependency(actor, c) ==
  /\ \A s \in actor.roles : c \notin s.deny
  /\ \E s \in actor.roles : c \in s.allow \/ s.systemKey = "FULL_ACCESS"
  /\ c[1] \in RequiresAdminUser => actor.admin

CanAdminAccess(actor, c) ==
  /\ ~actor.banned /\ ~actor.mustChangePassword
  /\ EvaluateWithoutViewDependency(actor, c)
  /\ EvaluateWithoutViewDependency(actor, <<c[1], "VIEW">>)

GetAllowedAdminPermissionSet(actor) == {c \in Cell : CanAdminAccess(actor, c)}

AsPotentiallyActive(actor) ==
  [actor EXCEPT !.banned = FALSE, !.mustChangePassword = FALSE]

Can(u, resource, action) ==
  user[u].exists /\ CanAdminAccess(GetAdminAccessActor(u), <<resource, action>>)

HasSystemFullAccessRole(actor) == \E s \in actor.roles : s.systemKey = "FULL_ACCESS"

\* assertActorPermissionSubset
Covers(actor, target) ==
  LET active == AsPotentiallyActive(target)
  IN  \A c \in Cell : CanAdminAccess(active, c) => CanAdminAccess(actor, c)

\* Mutant of WithinAuthority: only what the target becomes is compared.
WithinAuthorityAfterwards(actor, current, proposed) == Covers(actor, proposed)

WithinAuthority(actor, current, proposed) ==
  Covers(actor, current) /\ Covers(actor, proposed)

\* Mutant of FullAccessGuarded: a role that allows everything is as good.
AllPermissionsGuarded(actor, current, proposed) == TRUE

\* requireSystemFullActorForFullAccessTarget
FullAccessGuarded(actor, current, proposed) ==
  HasSystemFullAccessRole(current) \/ HasSystemFullAccessRole(proposed) =>
    HasSystemFullAccessRole(actor)

RecoveryAdminExists ==
  \E u \in User :
    /\ user[u].exists /\ user[u].admin /\ ~user[u].banned
    /\ \E r \in user[u].roles : role[r].systemKey = "FULL_ACCESS"
    /\ \A r \in user[u].roles :
         role[r].systemKey = "FULL_ACCESS" \/ role[r].deny \cap CriticalRecoveryCells = {}

-----------------------------------------------------------------------------
(* The transaction of a request.                                           *)

\* Any other request is refused, whatever it asks.
Active(u) == user[u].exists /\ ~user[u].banned /\ ~user[u].mustChangePassword

\* Mutant of BeginMutation: the freeze is not read.
BeginUnchecked(a) ==
  /\ mutex = "free"
  /\ Active(a)
  /\ mutex' = a
  /\ UNCHANGED <<accounts, operator>>

BeginMutation(a) ==
  /\ mutex = "free"
  /\ Active(a)
  /\ freeze = "none"
  /\ mutex' = a
  /\ UNCHANGED <<accounts, operator>>

\* Refused, failed, or without effect on authority (names, e-mail addresses).
Refuse(a) ==
  /\ mutex = a
  /\ mutex' = "free"
  /\ UNCHANGED <<accounts, operator>>

Commits(a) == mutex = a /\ mutex' = "free" /\ UNCHANGED operator

WriteUser(t, row) == user' = [user EXCEPT ![t] = row] /\ UNCHANGED role
WriteRole(r, row) == role' = [role EXCEPT ![r] = row] /\ UNCHANGED user

CreateAdminRole(a, r) ==
  /\ Commits(a)
  /\ Can(a, "roles", "CREATE")
  /\ ~role[r].exists
  /\ WriteRole(r, EmptyRole(TRUE, "none"))

\* requireMutableRole: no system role and none of the actor's own.
MutableRole(a, r) ==
  /\ role[r].exists
  /\ role[r].systemKey = "none"
  /\ r \notin user[a].roles

Members(r) == {u \in User : user[u].exists /\ r \in user[u].roles}

ReplaceAdminRolePermissions(a, r, permissions) ==
  LET actor == GetAdminAccessActor(a)
  IN  /\ Commits(a)
      /\ MutableRole(a, r)
      /\ Can(a, "roles", "UPDATE")
      /\ permissions.allow \subseteq GetAllowedAdminPermissionSet(actor)
      /\ \A u \in Members(r) :
           WithinAuthority(actor, GetAdminAccessActor(u), ActorFromUserRecord(u, r, permissions))
      /\ WriteRole(r, [role[r] EXCEPT !.allow = permissions.allow, !.deny = permissions.deny])
      /\ RecoveryAdminExists'

DeleteAdminRole(a, r) ==
  /\ Commits(a)
  /\ Can(a, "roles", "DELETE")
  /\ MutableRole(a, r)
  /\ Members(r) = {}
  /\ WriteRole(r, EmptyRole(FALSE, "none"))

\* Mutant of CanonicalRoles: no access is no role.
UncanonicalRoles(requested) == requested

\* resolveCanonicalAdminAccessRoles
CanonicalRoles(requested) == IF requested = {} THEN {NO_ACCESS_ROLE_ID} ELSE requested

\* At most one role; none stands for NO_ACCESS.
Requestable == {{}} \cup {{r} : r \in Role}

ReplaceUserAdminAccessRoles(a, t, requested) ==
  LET actor == GetAdminAccessActor(a)
      target == GetAdminAccessActor(t)
      roles == CanonicalRoles(requested)
      proposed == [target EXCEPT !.roles = {role[r] : r \in roles}]
  IN  /\ Commits(a)
      /\ a # t
      /\ user[t].exists
      /\ \A r \in roles : role[r].exists
      /\ Can(a, "role-assignments", "UPDATE") /\ Can(a, "role-assignments", "VIEW")
      /\ Can(a, "users", "VIEW") /\ Can(a, "roles", "VIEW")
      /\ WithinAuthority(actor, target, proposed)
      /\ FullAccessGuarded(actor, target, proposed)
      /\ WriteUser(t, [user[t] EXCEPT !.roles = roles])
      /\ RecoveryAdminExists'

\* The insert's trigger gives FULL_ACCESS or NO_ACCESS, which the same
\* transaction then replaces; the password is temporary.
CreateUser(a, t, admin, requested) ==
  LET actor == GetAdminAccessActor(a)
      roles == CanonicalRoles(requested)
      row == [exists |-> TRUE, admin |-> admin, banned |-> FALSE, mustChangePassword |-> TRUE,
              roles |-> roles]
      proposed == AccessActor(row, {role[r] : r \in roles})
  IN  /\ Commits(a)
      /\ ~user[t].exists
      /\ \A r \in roles : role[r].exists
      /\ Can(a, "users", "CREATE")
      /\ requested # {} =>
           /\ Can(a, "users", "VIEW") /\ Can(a, "roles", "VIEW")
           /\ Can(a, "role-assignments", "VIEW") /\ Can(a, "role-assignments", "UPDATE")
      /\ WithinAuthority(actor, proposed, proposed)
      /\ FullAccessGuarded(actor, proposed, proposed)
      /\ WriteUser(t, row)
      /\ RecoveryAdminExists'

\* requireManageableAdminUserTarget
Manageable(a, t, resource, action, row) ==
  /\ user[t].exists
  /\ Can(a, resource, action)
  /\ WithinAuthority(GetAdminAccessActor(a), GetAdminAccessActor(t),
                     AccessActor(row, {role[r] : r \in user[t].roles}))

UpdateProtectedAdminUserRole(a, t, admin) ==
  LET row == [user[t] EXCEPT !.admin = admin]
  IN  /\ Commits(a)
      /\ a = t => admin
      /\ Manageable(a, t, "users", "UPDATE", row)
      /\ WriteUser(t, row)
      /\ RecoveryAdminExists'

\* Mutant of SuspendProtectedAdminUser: as ReactivateAdminUser, without the last check.
SuspendAnyAdminUser(a, t) ==
  LET row == [user[t] EXCEPT !.banned = TRUE]
  IN  /\ Commits(a)
      /\ a # t
      /\ Manageable(a, t, "users", "UPDATE", row)
      /\ WriteUser(t, row)

SuspendProtectedAdminUser(a, t) ==
  LET row == [user[t] EXCEPT !.banned = TRUE]
  IN  /\ Commits(a)
      /\ a # t
      /\ Manageable(a, t, "users", "UPDATE", row)
      /\ WriteUser(t, row)
      /\ RecoveryAdminExists'

ReactivateAdminUser(a, t) ==
  LET row == [user[t] EXCEPT !.banned = FALSE]
  IN  /\ Commits(a)
      /\ Manageable(a, t, "users", "UPDATE", row)
      /\ WriteUser(t, row)

DeleteProtectedAdminUser(a, t) ==
  /\ Commits(a)
  /\ a # t
  /\ Manageable(a, t, "users", "DELETE", user[t])
  /\ WriteUser(t, NoUser)
  /\ RecoveryAdminExists'

\* An administrator sets a password, or approves a request for a new one.
ResetPassword(a, t, temporary) ==
  /\ Commits(a)
  /\ a # t
  /\ Manageable(a, t, "users", "UPDATE", user[t])
  /\ FullAccessGuarded(GetAdminAccessActor(a), GetAdminAccessActor(t), GetAdminAccessActor(t))
  /\ WriteUser(t, [user[t] EXCEPT !.mustChangePassword = temporary])

ApprovePasswordResetRequest(a, t) ==
  /\ Commits(a)
  /\ Manageable(a, t, "password-reset-requests", "UPDATE", user[t])
  /\ FullAccessGuarded(GetAdminAccessActor(a), GetAdminAccessActor(t), GetAdminAccessActor(t))
  /\ WriteUser(t, [user[t] EXCEPT !.mustChangePassword = TRUE])

\* The account's owner; this transaction takes no lock.
ChangePassword(u) ==
  /\ user[u].exists /\ ~user[u].banned
  /\ WriteUser(u, [user[u] EXCEPT !.mustChangePassword = FALSE])
  /\ UNCHANGED <<mutex, operator>>

-----------------------------------------------------------------------------
(* The operator.                                                           *)

\* Also the seed, and convergeRecoveryAdminAccess of an existing administrator.
ProvisionAdmin(u) ==
  /\ mutex = "free" /\ freeze = "none"
  /\ WriteUser(u, SeedAdmin)
  /\ UNCHANGED <<mutex, operator>>

\* Mutant of ConvergeRecoveryAdminAccess: the role's key is taken for its id.
ConvergeByKey(u) ==
  /\ mutex = "free" /\ freeze = "none"
  /\ user[u].exists
  /\ WriteUser(u, [user[u] EXCEPT !.roles = {role[FULL_ACCESS_ROLE_ID].systemKey}])
  /\ UNCHANGED <<mutex, operator>>

ConvergeRecoveryAdminAccess(u) ==
  /\ mutex = "free" /\ freeze = "none"
  /\ user[u].exists
  /\ WriteUser(u, [user[u] EXCEPT !.roles = {FULL_ACCESS_ROLE_ID}])
  /\ UNCHANGED <<mutex, operator>>

AcquireSessionLock ==
  /\ mutex = "free" /\ rollback = "idle"
  /\ mutex' = "session" /\ rollback' = "held"
  /\ UNCHANGED <<accounts, freeze>>

\* The connection drops, and the server frees the lock.
LoseSessionLock ==
  /\ mutex = "session"
  /\ mutex' = "free"
  /\ UNCHANGED <<accounts, operator>>

\* assertAdminAccessSessionLockHeld asks the server; what relies on it commits later.
CheckSessionLock ==
  /\ rollback = "held" /\ mutex = "session"
  /\ rollback' = "checked"
  /\ UNCHANGED <<accounts, mutex, freeze>>

FreezeAdminAccessMutations ==
  /\ rollback = "checked"
  /\ freeze = "none"
  /\ freeze' = (IF mutex = "session" THEN "guarded" ELSE "unguarded")
  /\ rollback' = "held"
  /\ UNCHANGED <<accounts, mutex>>

CanRetain(u) ==
  /\ \E r \in user[u].roles : role[r].systemKey = "FULL_ACCESS"
  /\ \A r \in user[u].roles : role[r].systemKey = "none" => role[r].deny = {}

\* The reviewed plan must still be true; it needs the freeze, not the lock.
PrepareLegacyRollbackAdmins ==
  /\ rollback = "held"
  /\ freeze # "none"
  /\ \E u \in User : /\ user[u].exists /\ user[u].admin /\ ~user[u].banned
                     /\ ~user[u].mustChangePassword /\ CanRetain(u)
  /\ user' = [u \in User |-> [user[u] EXCEPT !.admin = @ /\ CanRetain(u)]]
  /\ UNCHANGED <<role, mutex, operator>>

UnfreezeAdminAccessMutations ==
  /\ rollback = "checked"
  /\ freeze # "none"
  /\ freeze' = "none"
  /\ rollback' = "held"
  /\ UNCHANGED <<accounts, mutex>>

EndSession ==
  /\ rollback # "idle"
  /\ rollback' = "idle"
  /\ mutex' = (IF mutex = "session" THEN "free" ELSE mutex)
  /\ UNCHANGED <<accounts, freeze>>

Mutation(a) ==
  \/ \E r \in CustomRole : CreateAdminRole(a, r) \/ DeleteAdminRole(a, r)
  \/ \E r \in Role, p \in Permissions : ReplaceAdminRolePermissions(a, r, p)
  \/ \E t \in User, R \in Requestable : ReplaceUserAdminAccessRoles(a, t, R)
  \/ \E t \in User, admin \in BOOLEAN, R \in Requestable : CreateUser(a, t, admin, R)
  \/ \E t \in User, admin \in BOOLEAN : UpdateProtectedAdminUserRole(a, t, admin)
  \/ \E t \in User : \/ SuspendProtectedAdminUser(a, t) \/ ReactivateAdminUser(a, t)
                     \/ DeleteProtectedAdminUser(a, t)
  \/ \E t \in User, temporary \in BOOLEAN : ResetPassword(a, t, temporary)
  \/ \E t \in User : ApprovePasswordResetRequest(a, t)

Next ==
  \/ \E a \in User : BeginMutation(a) \/ Mutation(a) \/ Refuse(a)
  \/ \E u \in User : ChangePassword(u) \/ ProvisionAdmin(u) \/ ConvergeRecoveryAdminAccess(u)
  \/ AcquireSessionLock \/ LoseSessionLock \/ CheckSessionLock \/ FreezeAdminAccessMutations
  \/ PrepareLegacyRollbackAdmins \/ UnfreezeAdminAccessMutations \/ EndSession

Spec == Init /\ [][Next]_vars

-----------------------------------------------------------------------------
(* Properties.                                                             *)

\* Accounts, roles, lock and freeze keep the shape of their tables.
TypeOK ==
  /\ user \in [User -> UserRow]
  /\ role \in [Role -> RoleRow]
  /\ mutex \in User \cup {"free", "session"}
  /\ freeze \in {"none", "guarded", "unguarded"}
  /\ rollback \in {"idle", "held", "checked"}

\* Every account has exactly one role, and one that exists: the deferred
\* trigger of the database never has to refuse a commit.
OneRoleEach ==
  \A u \in User : user[u].exists =>
    \E r \in Role : user[u].roles = {r} /\ role[r].exists

\* What a user may do as soon as it is neither suspended nor due to change its password.
Authority(u) ==
  IF user[u].exists
    THEN UNION {GetAllowedAdminPermissionSet(actor) :
                  actor \in {AsPotentiallyActive(GetAdminAccessActor(u))}}
    ELSE {}

HoldsFullAccess(u) == FULL_ACCESS_ROLE_ID \in user[u].roles

\* However roles are rewritten and accounts demoted, suspended, deleted and reassigned,
\* some account is left that is not suspended, holds the built-in role and may do everything.
RecoveryAdminRemains ==
  \E u \in User : HoldsFullAccess(u) /\ ~user[u].banned /\ Authority(u) = Cell

\* A request changes what any account may do only if its actor may do all of it
\* already, before and after: nobody gains authority the actor lacks, his own
\* included, and nobody loses authority to an actor below him.
AuthorityFromAbove ==
  [][\A a, t \in User :
       mutex = a /\ mutex' # a /\ accounts' # accounts /\ Authority(t)' # Authority(t) =>
         Authority(t) \cup Authority(t)' \subseteq
           GetAllowedAdminPermissionSet(GetAdminAccessActor(a))]_vars

\* The built-in role is given only by a request of one who holds it, and taken from
\* an account that stays only by such a one: a copy of its permissions is not enough.
FullAccessFromFullAccess ==
  [][\A a, t \in User :
       mutex = a /\ mutex' # a /\ HoldsFullAccess(t)' # HoldsFullAccess(t) /\ user'[t].exists =>
         HoldsFullAccess(a)]_vars

\* Once the authority is frozen by a session that held the lock, nothing but the
\* demotion of administrators changes it, even if the session loses the lock later.
FrozenMeansStill ==
  [][freeze = "guarded" =>
       /\ role' = role
       /\ \A u \in User : /\ user'[u].exists = user[u].exists
                          /\ user'[u].roles = user[u].roles
                          /\ user'[u].banned = user[u].banned
                          /\ user'[u].admin => user[u].admin]_vars
=============================================================================
