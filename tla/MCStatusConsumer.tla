-------------------------- MODULE MCStatusConsumer --------------------------
(* Small instances of StatusConsumer for TLC. *)
EXTENDS StatusConsumer, TLC

\* Messages and names are interchangeable: sound for the runs without liveness.
Symmetry == Permutations(Msgs) \cup Permutations(Names)
=============================================================================
