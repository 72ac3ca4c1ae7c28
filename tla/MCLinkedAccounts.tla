-------------------------- MODULE MCLinkedAccounts ---------------------------
(* Small instances of LinkedAccounts for TLC. *)
EXTENDS LinkedAccounts, TLC

Symmetry == Permutations(Providers) \cup Permutations(Keys) \cup Permutations(Workers)
=============================================================================
