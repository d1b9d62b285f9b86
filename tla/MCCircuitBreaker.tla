--------------------------- MODULE MCCircuitBreaker ---------------------------
(* Instances of CircuitBreaker for TLC: its constants are values of the .cfg. *)
EXTENDS CircuitBreaker
=============================================================================
