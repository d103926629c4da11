\* Three accounts, two roles that are created, rewritten and deleted.
SPECIFICATION Spec
CONSTANTS
  User = {u1, u2, u3}
  CustomRole = {q1, q2}
  Resource = {"users", "password-reset-requests", "roles", "role-assignments"}
  Permissions <- MCPermissions
SYMMETRY Symmetry
INVARIANTS TypeOK OneRoleEach RecoveryAdminRemains
PROPERTIES AuthorityFromAbove FullAccessFromFullAccess FrozenMeansStill
