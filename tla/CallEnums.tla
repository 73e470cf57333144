------------------------------ MODULE CallEnums ------------------------------
(***************************************************************************)
(* The two state machines of a call that the worker's components share     *)
(* (services/shared/shared/models/enums.py): the call state and, inside    *)
(* TRANSFERRING, the warm-transfer status.  Both tables are enforced by    *)
(* the worker on its own in-memory copy, never by the database.            *)
(***************************************************************************)

CallStates ==
  {"NEW", "RINGING", "ANSWERED", "AI_CONNECTED", "IN_PROGRESS", "TRANSFERRING",
   "HUMAN_AGENT", "COMPLETED", "FAILED", "TIMEOUT", "CANCELLED", "BUSY", "NO_ANSWER"}

TerminalCallStates ==
  {"COMPLETED", "FAILED", "TIMEOUT", "CANCELLED", "BUSY", "NO_ANSWER"}

\* A state without an entry of its own (every terminal one) has no successor.
CallStateTransitions ==
  [s \in CallStates |->
    CASE s = "NEW"          -> {"RINGING", "FAILED", "CANCELLED", "BUSY"}
      [] s = "RINGING"      -> {"ANSWERED", "NO_ANSWER", "BUSY", "CANCELLED", "FAILED", "TIMEOUT"}
      [] s = "ANSWERED"     -> {"AI_CONNECTED", "FAILED", "COMPLETED", "TIMEOUT"}
      [] s = "AI_CONNECTED" -> {"IN_PROGRESS", "FAILED", "COMPLETED", "TIMEOUT"}
      [] s = "IN_PROGRESS"  -> {"TRANSFERRING", "COMPLETED", "FAILED", "TIMEOUT"}
      [] s = "TRANSFERRING" -> {"HUMAN_AGENT", "COMPLETED", "FAILED", "TIMEOUT"}
      [] s = "HUMAN_AGENT"  -> {"COMPLETED", "FAILED"}
      [] OTHER              -> {}]

TransferStatuses ==
  {"NOT_REQUESTED", "REQUESTED", "ANNOUNCING", "DIALING_AGENT", "WHISPERING_SUMMARY",
   "BRIDGED", "AGENT_NO_ANSWER", "AGENT_BUSY", "AGENT_REJECTED", "FAILED", "ABANDONED"}

TransferFallbackTriggers ==
  {"AGENT_NO_ANSWER", "AGENT_BUSY", "AGENT_REJECTED", "FAILED"}

TransferStatusTransitions ==
  [s \in TransferStatuses |->
    CASE s = "NOT_REQUESTED"      -> {"REQUESTED"}
      [] s = "REQUESTED"          -> {"ANNOUNCING", "FAILED", "ABANDONED"}
      [] s = "ANNOUNCING"         -> {"DIALING_AGENT", "FAILED", "ABANDONED"}
      [] s = "DIALING_AGENT"      -> {"WHISPERING_SUMMARY", "ABANDONED"} \cup TransferFallbackTriggers
      [] s = "WHISPERING_SUMMARY" -> {"BRIDGED", "AGENT_REJECTED", "FAILED", "ABANDONED"}
      [] OTHER                    -> {}]

\* The statuses from which a hang-up of the caller is recorded as ABANDONED.
TransferCanAbandon ==
  {"REQUESTED", "ANNOUNCING", "DIALING_AGENT", "WHISPERING_SUMMARY"}
=============================================================================
