---------------------------- MODULE MCWarmTransfer ----------------------------
(* Small instances of WarmTransfer for TLC. *)
EXTENDS WarmTransfer

CONSTANTS r1, r2, desk, queue

TwoDestinations == <<desk, queue>>
=============================================================================
