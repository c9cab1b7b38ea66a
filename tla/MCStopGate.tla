----------------------------- MODULE MCStopGate -----------------------------
(* Finite instances of StopGate for TLC. *)
EXTENDS StopGate, TLC
=============================================================================
