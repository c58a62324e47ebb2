------------------------------ MODULE MCSyncLoop ------------------------------
(* Instances of SyncLoop for TLC. *)
EXTENDS SyncLoop, TLC

\* Names, addresses and versions are interchangeable (safety runs only).
Symmetry == Permutations(Names) \cup Permutations(Addrs) \cup Permutations(Versions)
===============================================================================
