--------------------------- MODULE TransferPromise ---------------------------
(***************************************************************************)
(* What a warm transfer promises the caller, whatever happens on the way   *)
(* (TR-2, TR-4, TR-8, TR-10 as the engine realises them): a caller talking *)
(* to the AI may be put on hold while an agent is reached; from there the  *)
(* only ways on are the agent, through a moment in which the caller hears  *)
(* every track again and the AI has not left yet, or the end of the call.  *)
(* Nobody stays on hold for ever unless the engine broke off.              *)
(***************************************************************************)
VARIABLES
  phase,
  broken     \* the engine gave the caller up without ending the call

Init == phase = "ai"

PutOnHold == phase = "ai" /\ phase' = "connecting"

HandOver == phase = "connecting" /\ phase' = "handover"

ReachAgent == phase = "handover" /\ phase' = "human"

EndCall == phase # "over" /\ phase' = "over"

Next == PutOnHold \/ HandOver \/ ReachAgent \/ EndCall

\* Somebody on hold is eventually served one way or the other.
Resolve ==
  /\ phase \in {"connecting", "handover"} /\ ~broken
  /\ HandOver \/ ReachAgent \/ EndCall

Spec == Init /\ [][Next]_phase /\ WF_phase(Resolve)
=============================================================================
