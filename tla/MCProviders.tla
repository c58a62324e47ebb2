---- MODULE MCProviders ----
(* An instance of Providers for TLC. *)
EXTENDS Providers, TLC

\* Values are interchangeable.
Symmetry == Permutations(Vals)
====
