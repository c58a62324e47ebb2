---- MODULE MCPassAudit ----
(* Instances of PassAudit for TLC. *)
EXTENDS PassAudit, TLC

\* Names, addresses and versions are interchangeable (safety runs only).
Symmetry == Permutations(Names) \cup Permutations(Addrs) \cup Permutations(Versions)
====
