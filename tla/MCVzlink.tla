------------------------------ MODULE MCVzlink ------------------------------
(* Finite instances of Vzlink for TLC. *)
EXTENDS Vzlink, TLC

\* Proxies differ in nothing but their name.
Symmetry == Permutations(Proxies)
=============================================================================
