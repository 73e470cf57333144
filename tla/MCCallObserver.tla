---------------------------- MODULE MCCallObserver ----------------------------
(* Small instances of CallObserver for TLC. *)
EXTENDS CallObserver
=============================================================================
