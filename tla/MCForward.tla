----------------------------- MODULE MCForward ------------------------------
(* A finite instance of Forward for TLC. *)
EXTENDS Forward, TLC
=============================================================================
