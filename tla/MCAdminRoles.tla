----------------------------- MODULE MCAdminRoles -----------------------------
(* Instances of AdminRoles for TLC. *)
EXTENDS AdminRoles, TLC

\* No action and no property tells one account or one request from another.
Symmetry == Permutations(Users) \cup Permutations(Requests)
=============================================================================
