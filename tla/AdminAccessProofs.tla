--------------------------- MODULE AdminAccessProofs ---------------------------
(***************************************************************************)
(* Proofs about AdminAccess: a recovery administrator is always left,      *)
(* authority comes from above, and a guarded freeze holds, for any         *)
(* accounts, roles and permissions.                                        *)
(***************************************************************************)
EXTENDS AdminAccess, TLAPS

RowsOK == user \in [User -> UserRow] /\ role \in [Role -> RoleRow]

\* The two built-in roles are what the migrations made them, and no other role has a key.
SystemRolesStand ==
  /\ role[FULL_ACCESS_ROLE_ID] = EmptyRole(TRUE, "FULL_ACCESS")
  /\ role[NO_ACCESS_ROLE_ID] = EmptyRole(TRUE, "NO_ACCESS")
  /\ \A r \in CustomRole : role[r].systemKey = "none"

AbsentHasNothing == \A u \in User : ~user[u].exists => user[u].roles = {}

Shape == RowsOK /\ OneRoleEach /\ SystemRolesStand /\ AbsentHasNothing

\* RecoveryAdminExists, said of the one role an account has.
Recovers(u) ==
  /\ user[u].exists /\ user[u].admin /\ ~user[u].banned
  /\ user[u].roles = {FULL_ACCESS_ROLE_ID}
RecoveryKept == \E u \in User : Recovers(u)

\* A guarded freeze was set by a session that had the lock, and no request begins after it.
NobodyMutates == freeze = "guarded" => mutex \notin User

Inv == TypeOK /\ Shape /\ RecoveryKept /\ NobodyMutates

-----------------------------------------------------------------------------
LEMMA SystemIds ==
  /\ FULL_ACCESS_ROLE_ID \in Role /\ NO_ACCESS_ROLE_ID \in Role
  /\ FULL_ACCESS_ROLE_ID # NO_ACCESS_ROLE_ID
  /\ FULL_ACCESS_ROLE_ID \notin CustomRole /\ NO_ACCESS_ROLE_ID \notin CustomRole
  BY RoleAssumption DEF Role, SystemRole, FULL_ACCESS_ROLE_ID, NO_ACCESS_ROLE_ID

LEMMA KeyIsId ==
  ASSUME Shape, NEW r \in Role, role[r].systemKey = "FULL_ACCESS"
  PROVE  r = FULL_ACCESS_ROLE_ID
<1>1. r \in CustomRole \/ r = FULL_ACCESS_ROLE_ID \/ r = NO_ACCESS_ROLE_ID
  BY DEF Role, SystemRole
<1> QED
  BY <1>1 DEF Shape, SystemRolesStand, EmptyRole

LEMMA KeyIsIdAfter ==
  ASSUME Shape', NEW r \in Role, role'[r].systemKey = "FULL_ACCESS"
  PROVE  r = FULL_ACCESS_ROLE_ID
<1>1. r \in CustomRole \/ r = FULL_ACCESS_ROLE_ID \/ r = NO_ACCESS_ROLE_ID
  BY DEF Role, SystemRole
<1> QED
  BY <1>1 DEF Shape, SystemRolesStand, EmptyRole

\* The check at the end of a mutation means that a recovery administrator is left.
LEMMA CheckedRecovery ==
  ASSUME Shape', RecoveryAdminExists'
  PROVE  RecoveryKept'
<1>1. PICK u \in User : /\ user'[u].exists /\ user'[u].admin /\ ~user'[u].banned
                        /\ \E r \in user'[u].roles : role'[r].systemKey = "FULL_ACCESS"
  BY DEF RecoveryAdminExists
<1>2. PICK r \in user'[u].roles : role'[r].systemKey = "FULL_ACCESS"
  BY <1>1
<1>3. PICK s \in Role : user'[u].roles = {s}
  BY <1>1 DEF Shape, OneRoleEach
<1>4. r = s /\ r = FULL_ACCESS_ROLE_ID
  BY <1>2, <1>3, KeyIsIdAfter
<1> QED
  BY <1>1, <1>3, <1>4 DEF RecoveryKept, Recovers

-----------------------------------------------------------------------------
(* Rows that are written.                                                  *)

\* An account that is written has one role that exists, or is gone.
LEMMA WriteUserKeepsShape ==
  ASSUME Shape, NEW t \in User, NEW row \in UserRow, WriteUser(t, row),
         row.exists => \E r \in Role : row.roles = {r} /\ role[r].exists,
         ~row.exists => row.roles = {}
  PROVE  Shape'
<1>1. user' = [user EXCEPT ![t] = row] /\ role' = role
  BY DEF WriteUser
<1>2. user'[t] = row /\ \A u \in User : u # t => user'[u] = user[u]
  BY <1>1 DEF Shape, RowsOK
<1>3. RowsOK'
  BY <1>1 DEF Shape, RowsOK
<1>4. OneRoleEach'
  BY <1>1, <1>2 DEF Shape, OneRoleEach
<1>5. SystemRolesStand'
  BY <1>1 DEF Shape, SystemRolesStand
<1>6. AbsentHasNothing'
  BY <1>2 DEF Shape, AbsentHasNothing
<1> QED
  BY <1>3, <1>4, <1>5, <1>6 DEF Shape

\* The same account with other marks keeps its role.
LEMMA RemarkKeepsShape ==
  ASSUME Shape, NEW t \in User, user[t].exists, NEW row \in UserRow, WriteUser(t, row),
         row.exists, row.roles = user[t].roles
  PROVE  Shape'
<1>1. \E r \in Role : row.roles = {r} /\ role[r].exists
  BY DEF Shape, OneRoleEach
<1> QED
  BY <1>1, WriteUserKeepsShape

\* A role of an administrator's own making that is written exists, or nobody has it.
LEMMA WriteRoleKeepsShape ==
  ASSUME Shape, NEW r \in CustomRole, NEW row \in RoleRow, WriteRole(r, row),
         row.systemKey = "none", row.exists \/ Members(r) = {}
  PROVE  Shape'
<1>1. role' = [role EXCEPT ![r] = row] /\ user' = user
  BY DEF WriteRole
<1>2. r \in Role
  BY DEF Role
<1>3. role'[r] = row /\ \A s \in Role : s # r => role'[s] = role[s]
  BY <1>1, <1>2 DEF Shape, RowsOK
<1>4. RowsOK'
  BY <1>1, <1>2 DEF Shape, RowsOK
<1>5. ASSUME NEW u \in User, user'[u].exists
      PROVE  \E s \in Role : user'[u].roles = {s} /\ role'[s].exists
  <2>1. PICK s \in Role : user[u].roles = {s} /\ role[s].exists
    BY <1>1, <1>5 DEF Shape, OneRoleEach
  <2>2. s = r => row.exists
    BY <2>1, <1>1, <1>5 DEF Members
  <2> QED
    BY <2>1, <2>2, <1>1, <1>3
<1>6. OneRoleEach'
  BY <1>5 DEF OneRoleEach
<1>7. SystemRolesStand'
  BY <1>3, SystemIds DEF Shape, SystemRolesStand, Role
<1>8. AbsentHasNothing'
  BY <1>1 DEF Shape, AbsentHasNothing
<1> QED
  BY <1>4, <1>6, <1>7, <1>8 DEF Shape

\* A recovery administrator whose row keeps what makes it one remains one.
LEMMA WriteUserKeepsRecovery ==
  ASSUME Shape, RecoveryKept, NEW t \in User, NEW row \in UserRow, WriteUser(t, row),
         Recovers(t) => /\ row.exists /\ row.admin /\ ~row.banned
                        /\ row.roles = {FULL_ACCESS_ROLE_ID}
  PROVE  RecoveryKept'
<1>1. user' = [user EXCEPT ![t] = row]
  BY DEF WriteUser
<1>2. PICK u \in User : Recovers(u)
  BY DEF RecoveryKept
<1>3. user'[t] = row /\ (u # t => user'[u] = user[u])
  BY <1>1 DEF Shape, RowsOK
<1> QED
  BY <1>2, <1>3 DEF RecoveryKept, Recovers

LEMMA WriteRoleKeepsRecovery ==
  ASSUME RecoveryKept, NEW r, NEW row, WriteRole(r, row)
  PROVE  RecoveryKept'
<1>1. user' = user
  BY DEF WriteRole
<1> QED
  BY <1>1 DEF RecoveryKept, Recovers

-----------------------------------------------------------------------------
(* One lemma per operation: rows keep their shape, and a recovery          *)
(* administrator is left.                                                  *)

LEMMA RowFacts ==
  ASSUME Shape, NEW t \in User
  PROVE  user[t] \in UserRow
  BY DEF Shape, RowsOK

LEMMA CreateAdminRoleKeeps ==
  ASSUME Inv, NEW a \in User, NEW r \in CustomRole, CreateAdminRole(a, r)
  PROVE  Shape' /\ RecoveryKept'
<1> DEFINE row == EmptyRole(TRUE, "none")
<1>1. row \in RoleRow /\ row.systemKey = "none" /\ row.exists
  BY DEF EmptyRole, RoleRow, SystemKey
<1>2. WriteRole(r, row)
  BY DEF CreateAdminRole
<1> QED
  BY <1>1, <1>2, WriteRoleKeepsShape, WriteRoleKeepsRecovery DEF Inv

LEMMA DeleteAdminRoleKeeps ==
  ASSUME Inv, NEW a \in User, NEW r \in CustomRole, DeleteAdminRole(a, r)
  PROVE  Shape' /\ RecoveryKept'
<1> DEFINE row == EmptyRole(FALSE, "none")
<1>1. row \in RoleRow /\ row.systemKey = "none"
  BY DEF EmptyRole, RoleRow, SystemKey
<1>2. WriteRole(r, row) /\ Members(r) = {}
  BY DEF DeleteAdminRole
<1> QED
  BY <1>1, <1>2, WriteRoleKeepsShape, WriteRoleKeepsRecovery DEF Inv

LEMMA ReplacePermissionsKeeps ==
  ASSUME Inv, NEW a \in User, NEW r \in Role, NEW p \in Permissions,
         ReplaceAdminRolePermissions(a, r, p)
  PROVE  Shape' /\ RecoveryKept'
<1> DEFINE row == [role[r] EXCEPT !.allow = p.allow, !.deny = p.deny]
<1>1. /\ WriteRole(r, row) /\ RecoveryAdminExists'
      /\ role[r].exists /\ role[r].systemKey = "none"
  BY DEF ReplaceAdminRolePermissions, MutableRole
<1>2. r \in CustomRole
  <2>1. r # FULL_ACCESS_ROLE_ID /\ r # NO_ACCESS_ROLE_ID
    BY <1>1 DEF Inv, Shape, SystemRolesStand, EmptyRole
  <2> QED
    BY <2>1 DEF Role, SystemRole
<1>3. p.allow \in SUBSET Cell /\ p.deny \in SUBSET Cell
  BY PermissionsAssumption
<1>4. role[r] \in RoleRow
  BY DEF Inv, Shape, RowsOK
<1>5. row \in RoleRow /\ row.systemKey = "none" /\ row.exists
  BY <1>1, <1>3, <1>4 DEF RoleRow
<1> HIDE DEF row
<1>6. Shape'
  BY <1>1, <1>2, <1>5, WriteRoleKeepsShape DEF Inv
<1> QED
  BY <1>1, <1>6, CheckedRecovery

LEMMA CanonicalIsOne ==
  ASSUME NEW R \in Requestable
  PROVE  \E r \in Role : CanonicalRoles(R) = {r}
  BY SystemIds DEF Requestable, CanonicalRoles

LEMMA ReplaceUserRolesKeeps ==
  ASSUME Inv, NEW a \in User, NEW t \in User, NEW R \in Requestable,
         ReplaceUserAdminAccessRoles(a, t, R)
  PROVE  Shape' /\ RecoveryKept'
<1> DEFINE roles == CanonicalRoles(R)
<1> DEFINE row == [user[t] EXCEPT !.roles = roles]
<1>1. /\ user[t].exists /\ WriteUser(t, row) /\ RecoveryAdminExists'
      /\ \A r \in roles : role[r].exists
  BY DEF ReplaceUserAdminAccessRoles
<1>2. PICK r \in Role : roles = {r}
  BY CanonicalIsOne
<1> HIDE DEF roles
<1>3. row \in UserRow /\ row.exists /\ row.roles = roles
  BY <1>1, <1>2, RowFacts DEF Inv, UserRow
<1> HIDE DEF row
<1>4. Shape'
  BY <1>1, <1>2, <1>3, WriteUserKeepsShape DEF Inv
<1> QED
  BY <1>1, <1>4, CheckedRecovery

LEMMA CreateUserKeeps ==
  ASSUME Inv, NEW a \in User, NEW t \in User, NEW admin \in BOOLEAN, NEW R \in Requestable,
         CreateUser(a, t, admin, R)
  PROVE  Shape' /\ RecoveryKept'
<1> DEFINE roles == CanonicalRoles(R)
<1> DEFINE row == [exists |-> TRUE, admin |-> admin, banned |-> FALSE,
                   mustChangePassword |-> TRUE, roles |-> roles]
<1>1. /\ WriteUser(t, row) /\ RecoveryAdminExists'
      /\ \A r \in roles : role[r].exists
  BY DEF CreateUser
<1>2. PICK r \in Role : roles = {r}
  BY CanonicalIsOne
<1> HIDE DEF roles
<1>3. row \in UserRow /\ row.exists /\ row.roles = roles
  BY <1>2 DEF UserRow
<1> HIDE DEF row
<1>4. Shape'
  BY <1>1, <1>2, <1>3, WriteUserKeepsShape DEF Inv
<1> QED
  BY <1>1, <1>4, CheckedRecovery

LEMMA UpdateUserRoleKeeps ==
  ASSUME Inv, NEW a \in User, NEW t \in User, NEW admin \in BOOLEAN,
         UpdateProtectedAdminUserRole(a, t, admin)
  PROVE  Shape' /\ RecoveryKept'
<1> DEFINE row == [user[t] EXCEPT !.admin = admin]
<1>1. user[t].exists /\ WriteUser(t, row) /\ RecoveryAdminExists'
  BY DEF UpdateProtectedAdminUserRole, Manageable
<1>2. row \in UserRow /\ row.exists /\ row.roles = user[t].roles
  BY <1>1, RowFacts DEF Inv, UserRow
<1> HIDE DEF row
<1> QED
  BY <1>1, <1>2, RemarkKeepsShape, CheckedRecovery DEF Inv

LEMMA SuspendKeeps ==
  ASSUME Inv, NEW a \in User, NEW t \in User, SuspendProtectedAdminUser(a, t)
  PROVE  Shape' /\ RecoveryKept'
<1> DEFINE row == [user[t] EXCEPT !.banned = TRUE]
<1>1. user[t].exists /\ WriteUser(t, row) /\ RecoveryAdminExists'
  BY DEF SuspendProtectedAdminUser, Manageable
<1>2. row \in UserRow /\ row.exists /\ row.roles = user[t].roles
  BY <1>1, RowFacts DEF Inv, UserRow
<1> HIDE DEF row
<1> QED
  BY <1>1, <1>2, RemarkKeepsShape, CheckedRecovery DEF Inv

LEMMA ReactivateKeeps ==
  ASSUME Inv, NEW a \in User, NEW t \in User, ReactivateAdminUser(a, t)
  PROVE  Shape' /\ RecoveryKept'
<1> DEFINE row == [user[t] EXCEPT !.banned = FALSE]
<1>1. user[t].exists /\ WriteUser(t, row)
  BY DEF ReactivateAdminUser, Manageable
<1>2. /\ row \in UserRow /\ row.exists /\ row.roles = user[t].roles
      /\ row.admin = user[t].admin /\ row.banned = FALSE
  BY <1>1, RowFacts DEF Inv, UserRow
<1> HIDE DEF row
<1> QED
  BY <1>1, <1>2, RemarkKeepsShape, WriteUserKeepsRecovery DEF Inv, Recovers

LEMMA DeleteUserKeeps ==
  ASSUME Inv, NEW a \in User, NEW t \in User, DeleteProtectedAdminUser(a, t)
  PROVE  Shape' /\ RecoveryKept'
<1>1. WriteUser(t, NoUser) /\ RecoveryAdminExists'
  BY DEF DeleteProtectedAdminUser
<1>2. NoUser \in UserRow /\ ~NoUser.exists /\ NoUser.roles = {}
  BY DEF NoUser, UserRow
<1> QED
  BY <1>1, <1>2, WriteUserKeepsShape, CheckedRecovery DEF Inv

\* New passwords, given or chosen, change one mark of an account.
LEMMA PasswordKeeps ==
  ASSUME Inv, NEW t \in User, user[t].exists, NEW temporary \in BOOLEAN,
         WriteUser(t, [user[t] EXCEPT !.mustChangePassword = temporary])
  PROVE  Shape' /\ RecoveryKept'
<1> DEFINE row == [user[t] EXCEPT !.mustChangePassword = temporary]
<1>1. WriteUser(t, row)
  OBVIOUS
<1>2. /\ row \in UserRow /\ row.exists /\ row.roles = user[t].roles
      /\ row.admin = user[t].admin /\ row.banned = user[t].banned
  BY RowFacts DEF Inv, UserRow
<1> HIDE DEF row
<1> QED
  BY <1>1, <1>2, RemarkKeepsShape, WriteUserKeepsRecovery DEF Inv, Recovers

LEMMA ProvisionKeeps ==
  ASSUME Inv, NEW u \in User, ProvisionAdmin(u)
  PROVE  Shape' /\ RecoveryKept'
<1>1. WriteUser(u, SeedAdmin)
  BY DEF ProvisionAdmin
<1>2. /\ SeedAdmin \in UserRow /\ SeedAdmin.exists /\ SeedAdmin.admin /\ ~SeedAdmin.banned
      /\ SeedAdmin.roles = {FULL_ACCESS_ROLE_ID}
  BY SystemIds DEF SeedAdmin, UserRow
<1>3. \E r \in Role : SeedAdmin.roles = {r} /\ role[r].exists
  BY <1>2, SystemIds DEF Inv, Shape, SystemRolesStand, EmptyRole
<1> QED
  BY <1>1, <1>2, <1>3, WriteUserKeepsShape, WriteUserKeepsRecovery DEF Inv

LEMMA ConvergeKeeps ==
  ASSUME Inv, NEW u \in User, ConvergeRecoveryAdminAccess(u)
  PROVE  Shape' /\ RecoveryKept'
<1> DEFINE row == [user[u] EXCEPT !.roles = {FULL_ACCESS_ROLE_ID}]
<1>1. user[u].exists /\ WriteUser(u, row)
  BY DEF ConvergeRecoveryAdminAccess
<1>2. /\ row \in UserRow /\ row.exists /\ row.roles = {FULL_ACCESS_ROLE_ID}
      /\ row.admin = user[u].admin /\ row.banned = user[u].banned
  BY <1>1, RowFacts, SystemIds DEF Inv, UserRow
<1> HIDE DEF row
<1>3. \E r \in Role : row.roles = {r} /\ role[r].exists
  BY <1>2, SystemIds DEF Inv, Shape, SystemRolesStand, EmptyRole
<1> QED
  BY <1>1, <1>2, <1>3, WriteUserKeepsShape, WriteUserKeepsRecovery DEF Inv, Recovers

\* The operator demotes every administrator but those who can retain their rights, and
\* there is one, with the built-in role.
LEMMA DemotionKeeps ==
  ASSUME Inv, PrepareLegacyRollbackAdmins
  PROVE  Shape' /\ RecoveryKept'
<1>1. /\ user' = [u \in User |-> [user[u] EXCEPT !.admin = @ /\ CanRetain(u)]]
      /\ role' = role
  BY DEF PrepareLegacyRollbackAdmins
<1>2. \A u \in User : CanRetain(u) \in BOOLEAN
  BY DEF CanRetain
<1>3. ASSUME NEW u \in User
      PROVE  /\ user'[u] \in UserRow /\ user'[u].exists = user[u].exists
             /\ user'[u].banned = user[u].banned /\ user'[u].roles = user[u].roles
             /\ user'[u].admin = (user[u].admin /\ CanRetain(u))
  <2> DEFINE b == user[u].admin /\ CanRetain(u)
  <2>1. user[u] \in UserRow
    BY RowFacts DEF Inv
  <2>2. user'[u] = [user[u] EXCEPT !.admin = b]
    BY <1>1
  <2>3. b \in BOOLEAN
    OBVIOUS
  <2>4. user'[u].admin = b
    BY <2>1, <2>2 DEF UserRow
  <2> HIDE DEF b
  <2>5. /\ user'[u] \in UserRow /\ user'[u].exists = user[u].exists
        /\ user'[u].banned = user[u].banned /\ user'[u].roles = user[u].roles
    BY <2>1, <2>2, <2>3 DEF UserRow
  <2> QED
    BY <2>4, <2>5 DEF b
<1>4. DOMAIN user' = User /\ user' = [u \in User |-> user'[u]]
  BY <1>1
<1>5. RowsOK'
  BY <1>1, <1>3, <1>4 DEF Inv, Shape, RowsOK
<1>6. OneRoleEach' /\ SystemRolesStand' /\ AbsentHasNothing'
  <2>1. OneRoleEach'
    BY <1>1, <1>3 DEF Inv, Shape, OneRoleEach
  <2>2. SystemRolesStand'
    BY <1>1 DEF Inv, Shape, SystemRolesStand
  <2>3. AbsentHasNothing'
    BY <1>3 DEF Inv, Shape, AbsentHasNothing
  <2> QED
    BY <2>1, <2>2, <2>3
<1>7. PICK u \in User : /\ user[u].exists /\ user[u].admin /\ ~user[u].banned
                        /\ CanRetain(u)
  BY DEF PrepareLegacyRollbackAdmins
<1>8. user[u].roles = {FULL_ACCESS_ROLE_ID}
  <2>1. PICK r \in user[u].roles : role[r].systemKey = "FULL_ACCESS"
    BY <1>7 DEF CanRetain
  <2>2. PICK s \in Role : user[u].roles = {s}
    BY <1>7 DEF Inv, Shape, OneRoleEach
  <2> QED
    BY <2>1, <2>2, KeyIsId DEF Inv
<1>9. Recovers(u)'
  BY <1>3, <1>7, <1>8 DEF Recovers
<1> QED
  BY <1>5, <1>6, <1>9 DEF Shape, RecoveryKept

-----------------------------------------------------------------------------
(* The invariant.                                                          *)

OperatorOK ==
  /\ mutex \in User \cup {"free", "session"}
  /\ freeze \in {"none", "guarded", "unguarded"}
  /\ rollback \in {"idle", "held", "checked"}
  /\ NobodyMutates

LEMMA Parts == Inv <=> Shape /\ RecoveryKept /\ OperatorOK
  BY DEF Inv, TypeOK, Shape, RowsOK, OperatorOK

LEMMA PartsAfter == Shape' /\ RecoveryKept' /\ OperatorOK' => Inv'
  BY DEF Inv, TypeOK, Shape, RowsOK, OperatorOK

LEMMA InitInv == Init => Inv
<1> SUFFICES ASSUME Init PROVE Inv
  OBVIOUS
<1>1. PICK u \in User : user = [v \in User |-> IF v = u THEN SeedAdmin ELSE NoUser]
  BY DEF Init
<1>2. SeedAdmin \in UserRow /\ NoUser \in UserRow
  BY SystemIds DEF SeedAdmin, NoUser, UserRow
<1>3. user \in [User -> UserRow]
  BY <1>1, <1>2
<1>4. SystemRolesStand /\ role \in [Role -> RoleRow]
  <2>1. role = [r \in Role |->
                  CASE r = FULL_ACCESS_ROLE_ID -> EmptyRole(TRUE, "FULL_ACCESS")
                    [] r = NO_ACCESS_ROLE_ID -> EmptyRole(TRUE, "NO_ACCESS")
                    [] OTHER -> EmptyRole(FALSE, "none")]
    BY DEF Init
  <2>2. /\ EmptyRole(TRUE, "FULL_ACCESS") \in RoleRow /\ EmptyRole(TRUE, "NO_ACCESS") \in RoleRow
        /\ EmptyRole(FALSE, "none") \in RoleRow /\ EmptyRole(FALSE, "none").systemKey = "none"
    BY DEF EmptyRole, RoleRow, SystemKey
  <2>3. role \in [Role -> RoleRow]
    BY <2>1, <2>2
  <2>4. \A r \in CustomRole : role[r] = EmptyRole(FALSE, "none")
    BY <2>1, SystemIds DEF Role
  <2>5. /\ role[FULL_ACCESS_ROLE_ID] = EmptyRole(TRUE, "FULL_ACCESS")
        /\ role[NO_ACCESS_ROLE_ID] = EmptyRole(TRUE, "NO_ACCESS")
    BY <2>1, SystemIds
  <2> QED
    BY <2>2, <2>3, <2>4, <2>5 DEF SystemRolesStand
<1>5. OneRoleEach
  BY <1>1, <1>4, SystemIds DEF OneRoleEach, SystemRolesStand, EmptyRole, SeedAdmin, NoUser
<1>6. AbsentHasNothing /\ RecoveryKept
  BY <1>1 DEF AbsentHasNothing, RecoveryKept, Recovers, SeedAdmin, NoUser
<1>7. OperatorOK
  BY DEF Init, OperatorOK, NobodyMutates
<1> QED
  BY <1>3, <1>4, <1>5, <1>6, <1>7, Parts DEF Shape, RowsOK

LEMMA MutationKeeps ==
  ASSUME Inv, NEW a \in User, Mutation(a)
  PROVE  Shape' /\ RecoveryKept'
<1>1. CASE \E r \in CustomRole : CreateAdminRole(a, r) \/ DeleteAdminRole(a, r)
  BY <1>1, CreateAdminRoleKeeps, DeleteAdminRoleKeeps
<1>2. CASE \E r \in Role, p \in Permissions : ReplaceAdminRolePermissions(a, r, p)
  BY <1>2, ReplacePermissionsKeeps
<1>3. CASE \E t \in User, R \in Requestable : ReplaceUserAdminAccessRoles(a, t, R)
  BY <1>3, ReplaceUserRolesKeeps
<1>4. CASE \E t \in User, admin \in BOOLEAN, R \in Requestable : CreateUser(a, t, admin, R)
  BY <1>4, CreateUserKeeps
<1>5. CASE \E t \in User, admin \in BOOLEAN : UpdateProtectedAdminUserRole(a, t, admin)
  BY <1>5, UpdateUserRoleKeeps
<1>6. CASE \E t \in User : \/ SuspendProtectedAdminUser(a, t) \/ ReactivateAdminUser(a, t)
                           \/ DeleteProtectedAdminUser(a, t)
  BY <1>6, SuspendKeeps, ReactivateKeeps, DeleteUserKeeps
<1>7. CASE \E t \in User, temporary \in BOOLEAN : ResetPassword(a, t, temporary)
  BY <1>7, PasswordKeeps DEF ResetPassword, Manageable
<1>8. CASE \E t \in User : ApprovePasswordResetRequest(a, t)
  BY <1>8, PasswordKeeps DEF ApprovePasswordResetRequest, Manageable
<1> QED
  BY <1>1, <1>2, <1>3, <1>4, <1>5, <1>6, <1>7, <1>8 DEF Mutation

\* Every mutation ends with the lock, and leaves the operator alone.
LEMMA MutationCommits ==
  ASSUME NEW a \in User, Mutation(a)
  PROVE  Commits(a)
  BY DEF Mutation, CreateAdminRole, DeleteAdminRole, ReplaceAdminRolePermissions,
         ReplaceUserAdminAccessRoles, CreateUser, UpdateProtectedAdminUserRole,
         SuspendProtectedAdminUser, ReactivateAdminUser, DeleteProtectedAdminUser,
         ResetPassword, ApprovePasswordResetRequest

LEMMA AccountsSame ==
  ASSUME Inv, UNCHANGED accounts
  PROVE  Shape' /\ RecoveryKept'
<1>1. user' = user /\ role' = role
  BY DEF accounts
<1>2. Shape'
  BY <1>1 DEF Inv, Shape, RowsOK, OneRoleEach, SystemRolesStand, AbsentHasNothing
<1>3. RecoveryKept'
  BY <1>1 DEF Inv, RecoveryKept, Recovers
<1> QED
  BY <1>2, <1>3

LEMMA NextInv == Inv /\ [Next]_vars => Inv'
<1> SUFFICES ASSUME Inv, [Next]_vars PROVE Inv'
  OBVIOUS
<1> USE UserAssumption
<1>0. OperatorOK
  BY Parts
<1>1. ASSUME NEW a \in User, BeginMutation(a) PROVE Inv'
  <2>1. OperatorOK'
    BY <1>0, <1>1 DEF BeginMutation, operator, OperatorOK, NobodyMutates
  <2> QED
    BY <2>1, <1>1, AccountsSame, PartsAfter DEF BeginMutation
<1>2. ASSUME NEW a \in User, Mutation(a) PROVE Inv'
  <2>1. OperatorOK'
    BY <1>0, <1>2, MutationCommits DEF Commits, operator, OperatorOK, NobodyMutates
  <2> QED
    BY <2>1, <1>2, MutationKeeps, PartsAfter
<1>3. ASSUME NEW a \in User, Refuse(a) PROVE Inv'
  <2>1. OperatorOK'
    BY <1>0, <1>3 DEF Refuse, operator, OperatorOK, NobodyMutates
  <2> QED
    BY <2>1, <1>3, AccountsSame, PartsAfter DEF Refuse
<1>4. ASSUME NEW u \in User, ChangePassword(u) PROVE Inv'
  <2>1. OperatorOK'
    BY <1>0, <1>4 DEF ChangePassword, operator, OperatorOK, NobodyMutates
  <2>2. user[u].exists /\ WriteUser(u, [user[u] EXCEPT !.mustChangePassword = FALSE])
    BY <1>4 DEF ChangePassword
  <2> QED
    BY <2>1, <2>2, PasswordKeeps, PartsAfter
<1>5. ASSUME NEW u \in User, ProvisionAdmin(u) PROVE Inv'
  <2>1. OperatorOK'
    BY <1>0, <1>5 DEF ProvisionAdmin, operator, OperatorOK, NobodyMutates
  <2> QED
    BY <2>1, <1>5, ProvisionKeeps, PartsAfter
<1>6. ASSUME NEW u \in User, ConvergeRecoveryAdminAccess(u) PROVE Inv'
  <2>1. OperatorOK'
    BY <1>0, <1>6 DEF ConvergeRecoveryAdminAccess, operator, OperatorOK, NobodyMutates
  <2> QED
    BY <2>1, <1>6, ConvergeKeeps, PartsAfter
<1>7. CASE \/ AcquireSessionLock \/ LoseSessionLock \/ CheckSessionLock
           \/ FreezeAdminAccessMutations \/ UnfreezeAdminAccessMutations \/ EndSession
  <2>1. OperatorOK'
    BY <1>0, <1>7
       DEF AcquireSessionLock, LoseSessionLock, CheckSessionLock, FreezeAdminAccessMutations,
           UnfreezeAdminAccessMutations, EndSession, operator, OperatorOK, NobodyMutates
  <2>2. UNCHANGED accounts
    BY <1>7
       DEF AcquireSessionLock, LoseSessionLock, CheckSessionLock, FreezeAdminAccessMutations,
           UnfreezeAdminAccessMutations, EndSession
  <2> QED
    BY <2>1, <2>2, AccountsSame, PartsAfter
<1>8. CASE PrepareLegacyRollbackAdmins
  <2>1. OperatorOK'
    BY <1>0, <1>8 DEF PrepareLegacyRollbackAdmins, operator, OperatorOK, NobodyMutates
  <2> QED
    BY <2>1, <1>8, DemotionKeeps, PartsAfter
<1>9. CASE UNCHANGED vars
  <2>1. OperatorOK'
    BY <1>0, <1>9 DEF vars, OperatorOK, NobodyMutates
  <2>2. UNCHANGED accounts
    BY <1>9 DEF vars, accounts
  <2> QED
    BY <2>1, <2>2, AccountsSame, PartsAfter
<1> QED
  BY <1>1, <1>2, <1>3, <1>4, <1>5, <1>6, <1>7, <1>8, <1>9 DEF Next

THEOREM Invariance == Spec => []Inv
<1>1. Init => Inv
  BY InitInv
<1>2. Inv /\ [Next]_vars => Inv'
  BY NextInv
<1> QED
  BY <1>1, <1>2, PTL DEF Spec

\* Accounts, roles, the lock and the freeze keep the shape of their tables
\* (authority-service.ts, mutation-lock.ts).
THEOREM TypeCorrectness == Spec => []TypeOK
<1>1. Inv => TypeOK
  BY DEF Inv
<1> QED
  BY <1>1, Invariance, PTL

\* Whatever is created, deleted, assigned or demoted, an account has exactly one role and it exists
\* (resolveCanonicalAdminAccessRoles, deleteAdminRole).
THEOREM EveryAccountHasOneRole == Spec => []OneRoleEach
<1>1. Inv => OneRoleEach
  BY DEF Inv, Shape
<1> QED
  BY <1>1, Invariance, PTL

-----------------------------------------------------------------------------
(* What an account may do, as a set of cells.                              *)

Grants(admin, sources, c) ==
  /\ \A s \in sources : c \notin s.deny
  /\ \E s \in sources : c \in s.allow \/ s.systemKey = "FULL_ACCESS"
  /\ c[1] \in RequiresAdminUser => admin

Powers(admin, sources) ==
  {c \in Cell : Grants(admin, sources, c) /\ Grants(admin, sources, <<c[1], "VIEW">>)}

Sources(u) == {role[r] : r \in user[u].roles}

LEMMA ActiveGrants ==
  ASSUME NEW row, NEW sources, NEW c
  PROVE  EvaluateWithoutViewDependency(AsPotentiallyActive(AccessActor(row, sources)), c)
           <=> Grants(row.admin, sources, c)
  BY DEF EvaluateWithoutViewDependency, AsPotentiallyActive, AccessActor, Grants

LEMMA ActivePowers ==
  ASSUME NEW row, NEW sources
  PROVE  GetAllowedAdminPermissionSet(AsPotentiallyActive(AccessActor(row, sources)))
           = Powers(row.admin, sources)
<1> DEFINE actor == AsPotentiallyActive(AccessActor(row, sources))
<1>1. ~actor.banned /\ ~actor.mustChangePassword
  BY DEF AsPotentiallyActive, AccessActor
<1>2. \A c : EvaluateWithoutViewDependency(actor, c) <=> Grants(row.admin, sources, c)
  BY ActiveGrants
<1> HIDE DEF actor
<1>3. \A c : CanAdminAccess(actor, c)
               <=> Grants(row.admin, sources, c) /\ Grants(row.admin, sources, <<c[1], "VIEW">>)
  BY <1>1, <1>2 DEF CanAdminAccess
<1>4. GetAllowedAdminPermissionSet(actor) = Powers(row.admin, sources)
  BY <1>3 DEF GetAllowedAdminPermissionSet, Powers
<1> QED
  BY <1>4 DEF actor

LEMMA AuthorityIs ==
  ASSUME NEW u
  PROVE  Authority(u) = IF user[u].exists THEN Powers(user[u].admin, Sources(u)) ELSE {}
<1>1. GetAdminAccessActor(u) = AccessActor(user[u], Sources(u))
  BY DEF GetAdminAccessActor, Sources
<1>2. GetAllowedAdminPermissionSet(AsPotentiallyActive(GetAdminAccessActor(u)))
        = Powers(user[u].admin, Sources(u))
  BY <1>1, ActivePowers
<1> QED
  BY <1>2 DEF Authority

\* assertActorPermissionSubset compares sets of cells.
LEMMA CoversIs ==
  ASSUME NEW actor, NEW row, NEW sources, Covers(actor, AccessActor(row, sources))
  PROVE  Powers(row.admin, sources) \subseteq GetAllowedAdminPermissionSet(actor)
<1>1. GetAllowedAdminPermissionSet(AsPotentiallyActive(AccessActor(row, sources)))
        \subseteq GetAllowedAdminPermissionSet(actor)
  BY DEF Covers, GetAllowedAdminPermissionSet
<1> QED
  BY <1>1, ActivePowers

\* Whatever is rewritten, demoted, suspended, deleted or assigned, an account is left that
\* is not suspended, holds the built-in role and may do everything (hasRecoveryAdmin).
THEOREM RecoveryAlwaysPossible == Spec => []RecoveryAdminRemains
<1>1. Inv => RecoveryAdminRemains
  <2> SUFFICES ASSUME Inv PROVE RecoveryAdminRemains
    OBVIOUS
  <2>1. PICK u \in User : Recovers(u)
    BY DEF Inv, RecoveryKept
  <2>2. Sources(u) = {EmptyRole(TRUE, "FULL_ACCESS")}
    BY <2>1 DEF Recovers, Sources, Inv, Shape, SystemRolesStand
  <2>3. user[u].admin = TRUE
    BY <2>1, RowFacts DEF Recovers, Inv, UserRow
  <2>4. \A c : Grants(TRUE, {EmptyRole(TRUE, "FULL_ACCESS")}, c)
    BY DEF Grants, EmptyRole
  <2>5. Powers(TRUE, {EmptyRole(TRUE, "FULL_ACCESS")}) = Cell
    BY <2>4 DEF Powers
  <2>6. Authority(u) = Cell
    BY <2>1, <2>2, <2>3, <2>5, AuthorityIs DEF Recovers
  <2> QED
    BY <2>1, <2>6 DEF RecoveryAdminRemains, Recovers, HoldsFullAccess
<1> QED
  BY <1>1, Invariance, PTL

-----------------------------------------------------------------------------
(* Authority comes from above.                                             *)

SourcesAfter(u) == {role'[r] : r \in user'[u].roles}

LEMMA AuthorityAfter ==
  ASSUME NEW u
  PROVE  Authority(u)' = IF user'[u].exists THEN Powers(user'[u].admin, SourcesAfter(u)) ELSE {}
<1>1. GetAdminAccessActor(u)' = AccessActor(user'[u], SourcesAfter(u))
  BY DEF GetAdminAccessActor, SourcesAfter, AccessActor
<1>2. Authority(u)' = IF user'[u].exists
                      THEN GetAllowedAdminPermissionSet(
                             AsPotentiallyActive(GetAdminAccessActor(u)'))
                      ELSE {}
  BY ZenonT(40) DEF Authority, GetAllowedAdminPermissionSet, AsPotentiallyActive, CanAdminAccess,
         EvaluateWithoutViewDependency
<1> QED
  BY <1>1, <1>2, ActivePowers
\* What AuthorityFromAbove says of one account.
Allowed(a) == GetAllowedAdminPermissionSet(GetAdminAccessActor(a))
Above(a, t) ==
  Authority(t)' # Authority(t) => Authority(t) \cup Authority(t)' \subseteq Allowed(a)

LEMMA SameAuthority ==
  ASSUME NEW t, user'[t].exists = user[t].exists, user'[t].admin = user[t].admin,
         user'[t].roles = user[t].roles, \A r \in user[t].roles : role'[r] = role[r]
  PROVE  Authority(t)' = Authority(t)
<1>1. SourcesAfter(t) = Sources(t)
  BY DEF SourcesAfter, Sources
<1> QED
  BY <1>1, AuthorityIs, AuthorityAfter

LEMMA WriteUserAbove ==
  ASSUME Inv, NEW a \in User, NEW t \in User, NEW row \in UserRow, WriteUser(t, row),
         user[t].exists => Powers(user[t].admin, Sources(t)) \subseteq Allowed(a),
         row.exists => Powers(row.admin, {role[r] : r \in row.roles}) \subseteq Allowed(a)
  PROVE  \A u \in User : Above(a, u)
<1>1. user' = [user EXCEPT ![t] = row] /\ role' = role
  BY DEF WriteUser
<1>2. user'[t] = row /\ \A u \in User : u # t => user'[u] = user[u]
  BY <1>1 DEF Inv, Shape, RowsOK
<1>3. \A u \in User : u # t => Authority(u)' = Authority(u)
  BY <1>1, <1>2, SameAuthority
<1>4. Above(a, t)
  <2>1. SourcesAfter(t) = {role[r] : r \in row.roles}
    BY <1>1, <1>2 DEF SourcesAfter
  <2>2. Authority(t) \subseteq Allowed(a)
    BY AuthorityIs
  <2>3. Authority(t)' \subseteq Allowed(a)
    BY <1>2, <2>1, AuthorityAfter
  <2> QED
    BY <2>2, <2>3 DEF Above
<1> QED
  BY <1>3, <1>4 DEF Above

\* An account whose administrator's mark and role stay may do what it might.
LEMMA RemarkAbove ==
  ASSUME Inv, NEW a \in User, NEW t \in User, NEW row \in UserRow, WriteUser(t, row),
         row.exists = user[t].exists, row.admin = user[t].admin, row.roles = user[t].roles
  PROVE  \A u \in User : Above(a, u)
<1>1. user' = [user EXCEPT ![t] = row] /\ role' = role
  BY DEF WriteUser
<1>2. user'[t] = row /\ \A u \in User : u # t => user'[u] = user[u]
  BY <1>1 DEF Inv, Shape, RowsOK
<1>3. \A u \in User : Authority(u)' = Authority(u)
  BY <1>1, <1>2, SameAuthority
<1> QED
  BY <1>3 DEF Above

\* A role that nobody has may be written.
LEMMA UnusedRoleAbove ==
  ASSUME Inv, NEW a \in User, NEW r \in CustomRole, NEW row, WriteRole(r, row),
         Members(r) = {} \/ ~role[r].exists
  PROVE  \A u \in User : Above(a, u)
<1>1. role' = [role EXCEPT ![r] = row] /\ user' = user
  BY DEF WriteRole
<1>2. ASSUME NEW u \in User PROVE r \notin user[u].roles
  BY DEF Inv, Shape, OneRoleEach, AbsentHasNothing, Members
<1>3. ASSUME NEW u \in User PROVE \A s \in user[u].roles : role'[s] = role[s]
  <2>1. user[u].roles \subseteq Role
    BY RowFacts DEF Inv, UserRow
  <2> QED
    BY <1>1, <1>2, <2>1 DEF Inv, Shape, RowsOK
<1>4. \A u \in User : Authority(u)' = Authority(u)
  BY <1>1, <1>3, SameAuthority
<1> QED
  BY <1>4 DEF Above

\* A target within the actor's authority, before and after.
LEMMA ManageableIs ==
  ASSUME NEW a, NEW t, NEW resource, NEW action, NEW row,
         Manageable(a, t, resource, action, row)
  PROVE  /\ Powers(user[t].admin, Sources(t)) \subseteq Allowed(a)
         /\ Powers(row.admin, Sources(t)) \subseteq Allowed(a)
<1>1. /\ Covers(GetAdminAccessActor(a), GetAdminAccessActor(t))
      /\ Covers(GetAdminAccessActor(a), AccessActor(row, Sources(t)))
  BY DEF Manageable, WithinAuthority, Sources
<1>2. GetAdminAccessActor(t) = AccessActor(user[t], Sources(t))
  BY DEF GetAdminAccessActor, Sources
<1> QED
  BY <1>1, <1>2, CoversIs DEF Allowed

LEMMA ReplacePermissionsAbove ==
  ASSUME Inv, NEW a \in User, NEW r \in Role, NEW p \in Permissions,
         ReplaceAdminRolePermissions(a, r, p)
  PROVE  \A u \in User : Above(a, u)
<1> DEFINE row == [role[r] EXCEPT !.allow = p.allow, !.deny = p.deny]
<1>1. WriteRole(r, row)
  BY DEF ReplaceAdminRolePermissions
<1>2. \A u \in Members(r) :
        WithinAuthority(GetAdminAccessActor(a), GetAdminAccessActor(u),
                        ActorFromUserRecord(u, r, p))
  BY DEF ReplaceAdminRolePermissions
<1>3. role' = [role EXCEPT ![r] = row] /\ user' = user
  BY <1>1 DEF WriteRole
<1>4. role'[r] = row /\ \A s \in Role : s # r => role'[s] = role[s]
  BY <1>3 DEF Inv, Shape, RowsOK
<1>5. ASSUME NEW u \in User PROVE user[u].roles \subseteq Role
  BY RowFacts DEF Inv, UserRow
<1>6. ASSUME NEW u \in User, u \notin Members(r) PROVE Above(a, u)
  <2>1. r \notin user[u].roles
    BY <1>6 DEF Members, Inv, Shape, AbsentHasNothing
  <2>2. Authority(u)' = Authority(u)
    BY <1>3, <1>4, <1>5, <2>1, SameAuthority
  <2> QED
    BY <2>2 DEF Above
<1>7. ASSUME NEW u \in User, u \in Members(r) PROVE Above(a, u)
  <2> DEFINE written == {IF s = r THEN row ELSE role[s] : s \in user[u].roles}
  <2>1. ActorFromUserRecord(u, r, p) = AccessActor(user[u], written)
    <3>1. written = {IF s = r THEN [role[s] EXCEPT !.allow = p.allow, !.deny = p.deny]
                              ELSE role[s] : s \in user[u].roles}
      OBVIOUS
    <3> QED
      BY <3>1 DEF ActorFromUserRecord
  <2>2. SourcesAfter(u) = written
    BY <1>3, <1>4, <1>5 DEF SourcesAfter
  <2> HIDE DEF written
  <2>3. Powers(user[u].admin, written) \subseteq Allowed(a)
    BY <1>2, <1>7, <2>1, CoversIs DEF WithinAuthority, Allowed
  <2>4. Powers(user[u].admin, Sources(u)) \subseteq Allowed(a)
    <3>1. GetAdminAccessActor(u) = AccessActor(user[u], Sources(u))
      BY DEF GetAdminAccessActor, Sources
    <3> QED
      BY <1>2, <1>7, <3>1, CoversIs DEF WithinAuthority, Allowed
  <2>5. user'[u] = user[u]
    BY <1>3
  <2> QED
    BY <2>2, <2>3, <2>4, <2>5, AuthorityIs, AuthorityAfter DEF Above
<1> QED
  BY <1>6, <1>7

LEMMA ReplaceUserRolesAbove ==
  ASSUME Inv, NEW a \in User, NEW t \in User, NEW R \in Requestable,
         ReplaceUserAdminAccessRoles(a, t, R)
  PROVE  \A u \in User : Above(a, u)
<1> DEFINE roles == CanonicalRoles(R)
<1> DEFINE row == [user[t] EXCEPT !.roles = roles]
<1> DEFINE sources == {role[r] : r \in roles}
<1>1. /\ user[t].exists /\ WriteUser(t, row)
      /\ WithinAuthority(GetAdminAccessActor(a), GetAdminAccessActor(t),
                         [GetAdminAccessActor(t) EXCEPT !.roles = sources])
  BY DEF ReplaceUserAdminAccessRoles
<1>2. PICK r \in Role : roles = {r}
  BY CanonicalIsOne
<1>3. GetAdminAccessActor(t) = AccessActor(user[t], Sources(t))
  BY DEF GetAdminAccessActor, Sources
<1> HIDE DEF roles
<1>4. /\ row \in UserRow /\ row.roles = roles /\ row.admin = user[t].admin
      /\ row.banned = user[t].banned /\ row.mustChangePassword = user[t].mustChangePassword
  BY <1>1, <1>2, RowFacts DEF Inv, UserRow
<1> HIDE DEF row
<1>5. [GetAdminAccessActor(t) EXCEPT !.roles = sources] = AccessActor(row, sources)
  BY <1>3, <1>4, SMTT(30) DEF AccessActor
<1> HIDE DEF sources
<1>6. /\ Powers(user[t].admin, Sources(t)) \subseteq Allowed(a)
      /\ Powers(row.admin, sources) \subseteq Allowed(a)
  BY <1>1, <1>3, <1>5, CoversIs DEF WithinAuthority, Allowed
<1>7. sources = {role[s] : s \in row.roles}
  BY <1>4 DEF sources
<1> QED
  BY <1>1, <1>4, <1>6, <1>7, WriteUserAbove

LEMMA CreateUserAbove ==
  ASSUME Inv, NEW a \in User, NEW t \in User, NEW admin \in BOOLEAN, NEW R \in Requestable,
         CreateUser(a, t, admin, R)
  PROVE  \A u \in User : Above(a, u)
<1> DEFINE roles == CanonicalRoles(R)
<1> DEFINE row == [exists |-> TRUE, admin |-> admin, banned |-> FALSE,
                   mustChangePassword |-> TRUE, roles |-> roles]
<1> DEFINE sources == {role[r] : r \in roles}
<1>1. /\ ~user[t].exists /\ WriteUser(t, row)
      /\ Covers(GetAdminAccessActor(a), AccessActor(row, sources))
  BY DEF CreateUser, WithinAuthority
<1>2. PICK r \in Role : roles = {r}
  BY CanonicalIsOne
<1> HIDE DEF roles
<1>3. row \in UserRow /\ row.roles = roles
  BY <1>2 DEF UserRow
<1> HIDE DEF row
<1>4. sources = {role[s] : s \in row.roles}
  BY <1>3
<1> HIDE DEF sources
<1>5. Powers(row.admin, sources) \subseteq Allowed(a)
  BY <1>1, CoversIs DEF Allowed
<1> QED
  BY <1>1, <1>3, <1>4, <1>5, WriteUserAbove

LEMMA UpdateUserRoleAbove ==
  ASSUME Inv, NEW a \in User, NEW t \in User, NEW admin \in BOOLEAN,
         UpdateProtectedAdminUserRole(a, t, admin)
  PROVE  \A u \in User : Above(a, u)
<1> DEFINE row == [user[t] EXCEPT !.admin = admin]
<1>1. Manageable(a, t, "users", "UPDATE", row) /\ WriteUser(t, row)
  BY DEF UpdateProtectedAdminUserRole
<1>2. row \in UserRow /\ row.roles = user[t].roles
  BY RowFacts DEF Inv, UserRow
<1> HIDE DEF row
<1> QED
  BY <1>1, <1>2, ManageableIs, WriteUserAbove DEF Sources

LEMMA DeleteUserAbove ==
  ASSUME Inv, NEW a \in User, NEW t \in User, DeleteProtectedAdminUser(a, t)
  PROVE  \A u \in User : Above(a, u)
<1>1. Manageable(a, t, "users", "DELETE", user[t]) /\ WriteUser(t, NoUser)
  BY DEF DeleteProtectedAdminUser
<1>2. NoUser \in UserRow /\ ~NoUser.exists
  BY DEF NoUser, UserRow
<1> QED
  BY <1>1, <1>2, ManageableIs, WriteUserAbove

LEMMA SuspensionAbove ==
  ASSUME Inv, NEW a \in User, NEW t \in User, NEW banned \in BOOLEAN,
         WriteUser(t, [user[t] EXCEPT !.banned = banned])
  PROVE  \A u \in User : Above(a, u)
<1> DEFINE row == [user[t] EXCEPT !.banned = banned]
<1>1. WriteUser(t, row)
  OBVIOUS
<1>2. /\ row \in UserRow /\ row.exists = user[t].exists /\ row.admin = user[t].admin
      /\ row.roles = user[t].roles
  BY RowFacts DEF Inv, UserRow
<1> HIDE DEF row
<1> QED
  BY <1>1, <1>2, RemarkAbove

LEMMA PasswordAbove ==
  ASSUME Inv, NEW a \in User, NEW t \in User, NEW temporary \in BOOLEAN,
         WriteUser(t, [user[t] EXCEPT !.mustChangePassword = temporary])
  PROVE  \A u \in User : Above(a, u)
<1> DEFINE row == [user[t] EXCEPT !.mustChangePassword = temporary]
<1>1. WriteUser(t, row)
  OBVIOUS
<1>2. /\ row \in UserRow /\ row.exists = user[t].exists /\ row.admin = user[t].admin
      /\ row.roles = user[t].roles
  BY RowFacts DEF Inv, UserRow
<1> HIDE DEF row
<1> QED
  BY <1>1, <1>2, RemarkAbove

LEMMA MutationAbove ==
  ASSUME Inv, NEW a \in User, Mutation(a)
  PROVE  \A u \in User : Above(a, u)
<1>1. CASE \E r \in CustomRole : CreateAdminRole(a, r) \/ DeleteAdminRole(a, r)
  BY <1>1, UnusedRoleAbove DEF CreateAdminRole, DeleteAdminRole
<1>2. CASE \E r \in Role, p \in Permissions : ReplaceAdminRolePermissions(a, r, p)
  BY <1>2, ReplacePermissionsAbove
<1>3. CASE \E t \in User, R \in Requestable : ReplaceUserAdminAccessRoles(a, t, R)
  BY <1>3, ReplaceUserRolesAbove
<1>4. CASE \E t \in User, admin \in BOOLEAN, R \in Requestable : CreateUser(a, t, admin, R)
  BY <1>4, CreateUserAbove
<1>5. CASE \E t \in User, admin \in BOOLEAN : UpdateProtectedAdminUserRole(a, t, admin)
  BY <1>5, UpdateUserRoleAbove
<1>6. CASE \E t \in User : \/ SuspendProtectedAdminUser(a, t) \/ ReactivateAdminUser(a, t)
                           \/ DeleteProtectedAdminUser(a, t)
  BY <1>6, SuspensionAbove, DeleteUserAbove DEF SuspendProtectedAdminUser, ReactivateAdminUser
<1>7. CASE \E t \in User, temporary \in BOOLEAN : ResetPassword(a, t, temporary)
  BY <1>7, PasswordAbove DEF ResetPassword
<1>8. CASE \E t \in User : ApprovePasswordResetRequest(a, t)
  BY <1>8, PasswordAbove DEF ApprovePasswordResetRequest
<1> QED
  BY <1>1, <1>2, <1>3, <1>4, <1>5, <1>6, <1>7, <1>8 DEF Mutation

\* A step that ends a request's hold of the lock is one of its mutations, or refuses it.
LEMMA WhoEnds ==
  ASSUME Next, NEW a \in User, mutex = a, mutex' # a
  PROVE  Mutation(a) \/ Refuse(a)
<1> USE UserAssumption
<1>1. ASSUME NEW b \in User, BeginMutation(b) \/ Mutation(b) \/ Refuse(b)
      PROVE  Mutation(a) \/ Refuse(a)
  BY <1>1, MutationCommits DEF BeginMutation, Refuse, Commits
<1>2. ASSUME NEW u \in User,
             ChangePassword(u) \/ ProvisionAdmin(u) \/ ConvergeRecoveryAdminAccess(u)
      PROVE  FALSE
  BY <1>2 DEF ChangePassword, ProvisionAdmin, ConvergeRecoveryAdminAccess
<1>3. ~(\/ AcquireSessionLock \/ LoseSessionLock \/ CheckSessionLock
        \/ FreezeAdminAccessMutations \/ PrepareLegacyRollbackAdmins
        \/ UnfreezeAdminAccessMutations \/ EndSession)
  BY DEF AcquireSessionLock, LoseSessionLock, CheckSessionLock, FreezeAdminAccessMutations,
         PrepareLegacyRollbackAdmins, UnfreezeAdminAccessMutations, EndSession
<1> QED
  BY <1>1, <1>2, <1>3 DEF Next

\* A request changes what an account may do only if its actor may do all of it already,
\* before and after (assertActorPermissionSubset).
THEOREM AuthorityIsGivenFromAbove == Spec => AuthorityFromAbove
<1> DEFINE Step ==
      \A a, t \in User :
        mutex = a /\ mutex' # a /\ accounts' # accounts /\ Authority(t)' # Authority(t) =>
          Authority(t) \cup Authority(t)' \subseteq
            GetAllowedAdminPermissionSet(GetAdminAccessActor(a))
<1>1. Inv /\ [Next]_vars => [Step]_vars
  <2> SUFFICES ASSUME Inv, Next, NEW a \in User, NEW t \in User, mutex = a, mutex' # a,
                      accounts' # accounts, Authority(t)' # Authority(t)
               PROVE  Authority(t) \cup Authority(t)' \subseteq
                        GetAllowedAdminPermissionSet(GetAdminAccessActor(a))
    OBVIOUS
  <2>1. Mutation(a)
    BY WhoEnds DEF Refuse
  <2> QED
    BY <2>1, MutationAbove DEF Above, Allowed
<1> QED
  BY <1>1, Invariance, PTL DEF Spec, AuthorityFromAbove

-----------------------------------------------------------------------------
(* The built-in role.                                                      *)

LEMMA FullRoleKey ==
  ASSUME Shape
  PROVE  role[FULL_ACCESS_ROLE_ID].systemKey = "FULL_ACCESS"
  BY DEF Shape, SystemRolesStand, EmptyRole

LEMMA FullActorHolds ==
  ASSUME Shape, NEW a \in User, HasSystemFullAccessRole(GetAdminAccessActor(a))
  PROVE  HoldsFullAccess(a)
<1>1. PICK r \in user[a].roles : role[r].systemKey = "FULL_ACCESS"
  BY DEF HasSystemFullAccessRole, GetAdminAccessActor, AccessActor
<1>2. r \in Role
  BY <1>1, RowFacts DEF UserRow
<1> QED
  BY <1>1, <1>2, KeyIsId DEF HoldsFullAccess

LEMMA HolderIsFull ==
  ASSUME Shape, NEW row, NEW roles, FULL_ACCESS_ROLE_ID \in roles
  PROVE  HasSystemFullAccessRole(AccessActor(row, {role[r] : r \in roles}))
  BY FullRoleKey DEF HasSystemFullAccessRole, AccessActor

\* What FullAccessFromFullAccess says of one account.
FromHolder(a, t) ==
  (FULL_ACCESS_ROLE_ID \in user'[t].roles <=> HoldsFullAccess(t)) \/ ~user'[t].exists
    \/ HoldsFullAccess(a)

LEMMA RolesSame ==
  ASSUME NEW a \in User, \A u \in User : user'[u].roles = user[u].roles
  PROVE  \A u \in User : FromHolder(a, u)
  BY DEF FromHolder, HoldsFullAccess

LEMMA RemarkFromHolder ==
  ASSUME Inv, NEW a \in User, NEW t \in User, NEW row, WriteUser(t, row),
         row.roles = user[t].roles
  PROVE  \A u \in User : FromHolder(a, u)
<1>1. user' = [user EXCEPT ![t] = row]
  BY DEF WriteUser
<1>2. user'[t] = row /\ \A u \in User : u # t => user'[u] = user[u]
  BY <1>1 DEF Inv, Shape, RowsOK
<1> QED
  BY <1>2, RolesSame

LEMMA ReplaceUserRolesFromHolder ==
  ASSUME Inv, NEW a \in User, NEW t \in User, NEW R \in Requestable,
         ReplaceUserAdminAccessRoles(a, t, R)
  PROVE  \A u \in User : FromHolder(a, u)
<1> DEFINE roles == CanonicalRoles(R)
<1> DEFINE row == [user[t] EXCEPT !.roles = roles]
<1> DEFINE sources == {role[r] : r \in roles}
<1> DEFINE proposed == [GetAdminAccessActor(t) EXCEPT !.roles = sources]
<1>1. /\ WriteUser(t, row)
      /\ FullAccessGuarded(GetAdminAccessActor(a), GetAdminAccessActor(t), proposed)
  BY DEF ReplaceUserAdminAccessRoles
<1> HIDE DEF roles
<1>2. row.roles = roles
  BY RowFacts DEF Inv, UserRow
<1>3. GetAdminAccessActor(t) = AccessActor(user[t], {role[r] : r \in user[t].roles})
  BY DEF GetAdminAccessActor
<1> HIDE DEF sources
<1>4. proposed = AccessActor(user[t], sources)
  BY <1>3 DEF AccessActor
<1> HIDE DEF row, proposed
<1>5. user' = [user EXCEPT ![t] = row]
  BY <1>1 DEF WriteUser
<1>6. user'[t] = row /\ \A u \in User : u # t => user'[u] = user[u]
  BY <1>5 DEF Inv, Shape, RowsOK
<1>7. FULL_ACCESS_ROLE_ID \in roles => HasSystemFullAccessRole(proposed)
  BY <1>4, HolderIsFull DEF Inv, sources
<1>8. HoldsFullAccess(t) => HasSystemFullAccessRole(GetAdminAccessActor(t))
  BY <1>3, HolderIsFull DEF Inv, HoldsFullAccess
<1>9. FULL_ACCESS_ROLE_ID \in roles \/ HoldsFullAccess(t) => HoldsFullAccess(a)
  BY <1>1, <1>7, <1>8, FullActorHolds DEF FullAccessGuarded, Inv
<1> QED
  BY <1>2, <1>6, <1>9 DEF FromHolder, HoldsFullAccess

LEMMA CreateUserFromHolder ==
  ASSUME Inv, NEW a \in User, NEW t \in User, NEW admin \in BOOLEAN, NEW R \in Requestable,
         CreateUser(a, t, admin, R)
  PROVE  \A u \in User : FromHolder(a, u)
<1> DEFINE roles == CanonicalRoles(R)
<1> DEFINE row == [exists |-> TRUE, admin |-> admin, banned |-> FALSE,
                   mustChangePassword |-> TRUE, roles |-> roles]
<1> DEFINE proposed == AccessActor(row, {role[r] : r \in roles})
<1>1. /\ ~user[t].exists /\ WriteUser(t, row)
      /\ FullAccessGuarded(GetAdminAccessActor(a), proposed, proposed)
  BY DEF CreateUser
<1> HIDE DEF roles
<1>2. FULL_ACCESS_ROLE_ID \in roles => HasSystemFullAccessRole(proposed)
  BY HolderIsFull DEF Inv
<1>3. FULL_ACCESS_ROLE_ID \in roles => HoldsFullAccess(a)
  BY <1>1, <1>2, FullActorHolds DEF FullAccessGuarded, Inv
<1>4. row.roles = roles
  OBVIOUS
<1> HIDE DEF row
<1>5. user' = [user EXCEPT ![t] = row]
  BY <1>1 DEF WriteUser
<1>6. user'[t] = row /\ \A u \in User : u # t => user'[u] = user[u]
  BY <1>5 DEF Inv, Shape, RowsOK
<1>7. ~HoldsFullAccess(t)
  BY <1>1 DEF HoldsFullAccess, Inv, Shape, AbsentHasNothing
<1> QED
  BY <1>3, <1>4, <1>6, <1>7 DEF FromHolder, HoldsFullAccess

LEMMA DeleteUserFromHolder ==
  ASSUME Inv, NEW a \in User, NEW t \in User, DeleteProtectedAdminUser(a, t)
  PROVE  \A u \in User : FromHolder(a, u)
<1>1. user' = [user EXCEPT ![t] = NoUser]
  BY DEF DeleteProtectedAdminUser, WriteUser
<1>2. user'[t] = NoUser /\ \A u \in User : u # t => user'[u] = user[u]
  BY <1>1 DEF Inv, Shape, RowsOK
<1> QED
  BY <1>2 DEF FromHolder, HoldsFullAccess, NoUser

LEMMA MutationFromHolder ==
  ASSUME Inv, NEW a \in User, Mutation(a)
  PROVE  \A u \in User : FromHolder(a, u)
<1>0. ASSUME NEW t \in User
      PROVE  /\ \A b : [user[t] EXCEPT !.admin = b].roles = user[t].roles
             /\ \A b : [user[t] EXCEPT !.banned = b].roles = user[t].roles
             /\ \A b : [user[t] EXCEPT !.mustChangePassword = b].roles = user[t].roles
  BY RowFacts DEF Inv, UserRow
<1>1. CASE \E r \in CustomRole : CreateAdminRole(a, r) \/ DeleteAdminRole(a, r)
  BY <1>1, RolesSame DEF CreateAdminRole, DeleteAdminRole, WriteRole
<1>2. CASE \E r \in Role, p \in Permissions : ReplaceAdminRolePermissions(a, r, p)
  BY <1>2, RolesSame DEF ReplaceAdminRolePermissions, WriteRole
<1>3. CASE \E t \in User, R \in Requestable : ReplaceUserAdminAccessRoles(a, t, R)
  BY <1>3, ReplaceUserRolesFromHolder
<1>4. CASE \E t \in User, admin \in BOOLEAN, R \in Requestable : CreateUser(a, t, admin, R)
  BY <1>4, CreateUserFromHolder
<1>5. CASE \E t \in User, admin \in BOOLEAN : UpdateProtectedAdminUserRole(a, t, admin)
  BY <1>0, <1>5, RemarkFromHolder DEF UpdateProtectedAdminUserRole
<1>6. CASE \E t \in User : SuspendProtectedAdminUser(a, t) \/ ReactivateAdminUser(a, t)
  BY <1>0, <1>6, RemarkFromHolder DEF SuspendProtectedAdminUser, ReactivateAdminUser
<1>7. CASE \E t \in User : DeleteProtectedAdminUser(a, t)
  BY <1>7, DeleteUserFromHolder
<1>8. CASE \E t \in User, temporary \in BOOLEAN : ResetPassword(a, t, temporary)
  BY <1>0, <1>8, RemarkFromHolder DEF ResetPassword
<1>9. CASE \E t \in User : ApprovePasswordResetRequest(a, t)
  BY <1>0, <1>9, RemarkFromHolder DEF ApprovePasswordResetRequest
<1> QED
  BY <1>1, <1>2, <1>3, <1>4, <1>5, <1>6, <1>7, <1>8, <1>9 DEF Mutation

\* The built-in role is given, and taken from an account that stays, only by a request of
\* one who holds it (requireSystemFullActorForFullAccessTarget).
THEOREM FullAccessIsGivenByHolders == Spec => FullAccessFromFullAccess
<1> DEFINE Step ==
      \A a, t \in User :
        mutex = a /\ mutex' # a /\ HoldsFullAccess(t)' # HoldsFullAccess(t) /\ user'[t].exists =>
          HoldsFullAccess(a)
<1>1. Inv /\ [Next]_vars => [Step]_vars
  <2> SUFFICES ASSUME Inv, Next, NEW a \in User, NEW t \in User, mutex = a, mutex' # a,
                      HoldsFullAccess(t)' # HoldsFullAccess(t), user'[t].exists
               PROVE  HoldsFullAccess(a)
    OBVIOUS
  <2>1. Mutation(a) \/ UNCHANGED user
    BY WhoEnds DEF Refuse, accounts
  <2>2. CASE UNCHANGED user
    BY <2>2 DEF HoldsFullAccess
  <2>3. CASE Mutation(a)
    BY <2>3, MutationFromHolder DEF FromHolder, HoldsFullAccess
  <2> QED
    BY <2>1, <2>2, <2>3
<1> QED
  BY <1>1, Invariance, PTL DEF Spec, FullAccessFromFullAccess

-----------------------------------------------------------------------------
\* After a freeze by a session that held the lock, nothing but the demotion of
\* administrators changes the authority (scripts/deploy/lib/admin.ts).
THEOREM GuardedFreezeHolds == Spec => FrozenMeansStill
<1> DEFINE Step ==
      freeze = "guarded" =>
        /\ role' = role
        /\ \A u \in User : /\ user'[u].exists = user[u].exists
                           /\ user'[u].roles = user[u].roles
                           /\ user'[u].banned = user[u].banned
                           /\ user'[u].admin => user[u].admin
<1>1. Inv /\ [Next]_vars => [Step]_vars
  <2> SUFFICES ASSUME Inv, Next, freeze = "guarded" PROVE Step
    OBVIOUS
  <2>1. mutex \notin User
    BY DEF Inv, NobodyMutates
  <2>2. ASSUME NEW a \in User, BeginMutation(a) \/ Mutation(a) \/ Refuse(a) PROVE FALSE
    BY <2>1, <2>2, MutationCommits DEF BeginMutation, Refuse, Commits
  <2>3. ASSUME NEW u \in User, ChangePassword(u) PROVE Step
    <3>1. /\ user' = [user EXCEPT ![u] = [user[u] EXCEPT !.mustChangePassword = FALSE]]
          /\ role' = role
      BY <2>3 DEF ChangePassword, WriteUser
    <3>2. user[u] \in UserRow
      BY RowFacts DEF Inv
    <3>3. ASSUME NEW v \in User, v # u PROVE user'[v] = user[v]
      BY <3>1, <3>3 DEF Inv, Shape, RowsOK
    <3>4. user'[u] = [user[u] EXCEPT !.mustChangePassword = FALSE]
      BY <3>1 DEF Inv, Shape, RowsOK
    <3>5. /\ user'[u].exists = user[u].exists /\ user'[u].roles = user[u].roles
          /\ user'[u].banned = user[u].banned /\ user'[u].admin = user[u].admin
      BY <3>2, <3>4 DEF UserRow
    <3> QED
      BY <3>1, <3>3, <3>5
  <2>4. ASSUME NEW u \in User, ProvisionAdmin(u) \/ ConvergeRecoveryAdminAccess(u) PROVE FALSE
    BY <2>4 DEF ProvisionAdmin, ConvergeRecoveryAdminAccess
  <2>5. CASE \/ AcquireSessionLock \/ LoseSessionLock \/ CheckSessionLock
             \/ FreezeAdminAccessMutations \/ UnfreezeAdminAccessMutations \/ EndSession
    BY <2>5
       DEF AcquireSessionLock, LoseSessionLock, CheckSessionLock, FreezeAdminAccessMutations,
           UnfreezeAdminAccessMutations, EndSession, accounts
  <2>6. CASE PrepareLegacyRollbackAdmins
    <3>1. /\ user' = [u \in User |-> [user[u] EXCEPT !.admin = @ /\ CanRetain(u)]]
          /\ role' = role
      BY <2>6 DEF PrepareLegacyRollbackAdmins
    <3>2. ASSUME NEW u \in User
          PROVE  /\ user'[u].exists = user[u].exists /\ user'[u].roles = user[u].roles
                 /\ user'[u].banned = user[u].banned /\ (user'[u].admin => user[u].admin)
      BY <3>1, RowFacts DEF Inv, UserRow
    <3> QED
      BY <3>1, <3>2
  <2> QED
    BY <2>2, <2>3, <2>4, <2>5, <2>6 DEF Next
<1> QED
  BY <1>1, Invariance, PTL DEF Spec, FrozenMeansStill
=============================================================================
