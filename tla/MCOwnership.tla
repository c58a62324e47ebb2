---- MODULE MCOwnership ----
(* Instances of Ownership for TLC. *)
EXTENDS Ownership, TLC

\* Names, addresses and versions are interchangeable (safety runs only).
Symmetry == Permutations(Names) \cup Permutations(Addrs) \cup Permutations(Versions)
====
