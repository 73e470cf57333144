----------------------------- MODULE MCTrunkSync -----------------------------
(* Small instances of TrunkSync for TLC. *)
EXTENDS TrunkSync

CONSTANT n1
=============================================================================
