--------------------------- MODULE MCIsolatedTrack ---------------------------
(* Small instances of IsolatedTrack for TLC. *)
EXTENDS IsolatedTrack

CONSTANTS p1, p2, l1, l2
=============================================================================
