-------------------------- MODULE MCAccountApproval --------------------------
(* Small instances of AccountApproval for TLC. *)
EXTENDS AccountApproval, TLC

Symmetry == Permutations(Accounts) \cup Permutations(Handlers)
=============================================================================
