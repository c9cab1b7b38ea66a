----------------------------- MODULE MCPrograms -----------------------------
(* A finite instance of Programs for TLC. *)
EXTENDS Programs, TLC
=============================================================================
