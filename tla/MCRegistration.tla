---------------------------- MODULE MCRegistration ----------------------------
(* Instances of Registration for TLC. *)
EXTENDS Registration, TLC

\* No action and no property tells one device, user or token from another.
Symmetry ==
    Permutations(Users) \cup Permutations(Devices) \cup Permutations(Tokens)
=============================================================================
