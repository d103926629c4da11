------------------------------ MODULE MCAdminAccess ------------------------------
(* A small instance of AdminAccess for TLC. *)
EXTENDS AdminAccess, TLC

\* A role of everything, and one for roles with a denial and a right that lacks its VIEW.
Saved(allow, deny) == [allow |-> allow, deny |-> deny]
RoleCells == {c \in Cell : c[1] \in {"roles", "role-assignments"}} \ {<<"roles", "DELETE">>}
MCPermissions ==
  {Saved(Cell, {}),
   Saved(RoleCells \cup {<<"users", "VIEW">>, <<"password-reset-requests", "UPDATE">>},
         {<<"roles", "DELETE">>})}

Symmetry == Permutations(User) \cup Permutations(CustomRole)
=============================================================================
