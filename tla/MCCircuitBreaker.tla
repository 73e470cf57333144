--------------------------- MODULE MCCircuitBreaker ---------------------------
(* Small instances of CircuitBreaker for TLC. *)
EXTENDS CircuitBreaker

CONSTANTS q1, q2, q3
=============================================================================
