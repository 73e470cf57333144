--------------------------- MODULE MCAgentVersions ---------------------------
(* Small instances of AgentVersions for TLC. *)
EXTENDS AgentVersions, TLC

CONSTANTS r1, r2

\* Requests differ in nothing but their names.
Symmetry == Permutations({r1, r2})
=============================================================================
