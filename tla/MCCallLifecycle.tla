--------------------------- MODULE MCCallLifecycle ---------------------------
(* Small instances of CallLifecycle for TLC. *)
EXTENDS CallLifecycle

CONSTANTS c1, c2, c3
=============================================================================
