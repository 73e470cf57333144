-------------------------- MODULE WarmTransferProofs --------------------------
(***************************************************************************)
(* Theorems about WarmTransfer for every set of concurrent transfer_call   *)
(* executions, every list of destinations, every fallback and any number   *)
(* of faults.                                                              *)
(***************************************************************************)
EXTENDS WarmTransfer, TLAPS

USE TransferAssumption

-----------------------------------------------------------------------------
(* Facts about the helpers *)

\* A destination resolved by id is one of the tenant's active destinations.
LEMMA ResolveType == \A d : ResolveId(d) \in DestSet
<1>1. Destinations[1] \in DestSet
  BY DEF DestSet
<1>2. QED BY <1>1 DEF ResolveId

\* plan_fallback offers an active destination that is not among those tried, or none.
LEMMA PlanFallbackType ==
  \A s : /\ PlanFallback(s) \in DestSet \cup {NoDest}
         /\ PlanFallback(s) # NoDest => PlanFallback(s) \in DestSet \ s
BY ResolveType DEF PlanFallback

LEMMA GotoType ==
  ASSUME pc \in [Procs -> Labels], NEW p \in Procs, NEW l \in Labels, Goto(p, l)
  PROVE  pc' \in [Procs -> Labels]
BY DEF Goto

LEMMA SendStatusType ==
  ASSUME write \in [Procs -> Writes], NEW p \in Procs, NEW c \in {"status", "patch"},
         NEW v \in TransferStatuses, Send(p, c, v)
  PROVE  write' \in [Procs -> Writes]
<1>1. [col |-> c, value |-> v, committed |-> FALSE] \in Writes
  BY DEF Writes
<1>2. QED BY <1>1 DEF Send

LEMMA SendStateType ==
  ASSUME write \in [Procs -> Writes], NEW p \in Procs, NEW v \in CallStates, Send(p, "state", v)
  PROVE  write' \in [Procs -> Writes]
<1>1. [col |-> "state", value |-> v, committed |-> FALSE] \in Writes
  BY DEF Writes
<1>2. QED BY <1>1 DEF Send

LEMMA NoWriteType == NoWrite \in Writes
BY DEF NoWrite, Writes, TransferStatuses

LEMMA FailType ==
  ASSUME TypeOK, NEW p \in Reqs, NEW t \in TransferFallbackTriggers, NEW s, Fail(p, t, s)
  PROVE  /\ pc' \in [Procs -> Labels]
         /\ failure' \in [Reqs -> [status : TransferFallbackTriggers, hangup : BOOLEAN]]
<1>1. p \in Procs /\ "failing" \in Labels
  BY DEF Procs, Labels, RunLabels
<1>2. pc' \in [Procs -> Labels]
  BY <1>1, GotoType DEF TypeOK, Fail
<1>3. (PlanFallback(s) = NoDest) \in BOOLEAN
  OBVIOUS
<1>4. failure' \in [Reqs -> [status : TransferFallbackTriggers, hangup : BOOLEAN]]
  BY <1>3 DEF TypeOK, Fail
<1>5. QED BY <1>2, <1>4

LEMMA RaiseType ==
  ASSUME TypeOK, NEW p \in Reqs, Raise(p)
  PROVE  /\ pc' \in [Procs -> Labels]
         /\ failure' \in [Reqs -> [status : TransferFallbackTriggers, hangup : BOOLEAN]]
         /\ handling' \in [Reqs -> BOOLEAN]
         /\ current' = current /\ tried' = tried
<1>1. p \in Procs /\ "dead" \in Labels
  BY DEF Procs, Labels, Finished
<1>2. CASE handling[p]
  BY <1>1, <1>2, GotoType DEF Raise, TypeOK, run
<1>3. CASE ~handling[p]
  <2>1. Fail(p, "FAILED", tried[p]) /\ handling' = [handling EXCEPT ![p] = TRUE]
        /\ current' = current /\ tried' = tried
    BY <1>3 DEF Raise
  <2>2. "FAILED" \in TransferFallbackTriggers
    BY DEF TransferFallbackTriggers
  <2>3. QED BY <2>1, <2>2, FailType DEF TypeOK
<1>4. QED BY <1>2, <1>3

LEMMA TransitionType ==
  ASSUME TypeOK, NEW p \in Procs, NEW s \in CallStates, NEW l \in Labels, TransitionOrSkip(p, s, l)
  PROVE  pc' \in [Procs -> Labels] /\ write' \in [Procs -> Writes]
<1>1. pc' \in [Procs -> Labels]
  <2>1. Goto(p, l)
    BY DEF TransitionOrSkip
  <2>2. QED BY <2>1, GotoType DEF TypeOK
<1>2. CASE LegalState(s)
  <2>1. Send(p, "state", s)
    BY <1>2 DEF TransitionOrSkip
  <2>2. QED BY <1>1, <2>1, SendStateType DEF TypeOK
<1>3. CASE ~LegalState(s)
  BY <1>1, <1>3 DEF TransitionOrSkip, TypeOK
<1>4. QED BY <1>2, <1>3

LEMMA AdvanceType ==
  ASSUME TypeOK, NEW p \in Reqs, NEW s \in TransferStatuses, NEW l \in Labels, AdvanceOrRaise(p, s, l)
  PROVE  /\ pc' \in [Procs -> Labels] /\ write' \in [Procs -> Writes]
         /\ failure' \in [Reqs -> [status : TransferFallbackTriggers, hangup : BOOLEAN]]
         /\ handling' \in [Reqs -> BOOLEAN]
         /\ current' = current /\ tried' = tried
<1>1. p \in Procs
  BY DEF Procs
<1>2. CASE LegalStatus(s)
  <2>1. Send(p, "status", s) /\ Goto(p, l) /\ UNCHANGED run
    BY <1>2 DEF AdvanceOrRaise
  <2>2. write' \in [Procs -> Writes]
    BY <1>1, <2>1, SendStatusType DEF TypeOK
  <2>3. pc' \in [Procs -> Labels]
    BY <1>1, <2>1, GotoType DEF TypeOK
  <2>4. QED BY <2>1, <2>2, <2>3 DEF TypeOK, run
<1>3. CASE ~LegalStatus(s)
  <2>1. Raise(p) /\ UNCHANGED write
    BY <1>3 DEF AdvanceOrRaise
  <2>2. QED BY <2>1, RaiseType DEF TypeOK
<1>4. QED BY <1>2, <1>3

LEMMA AbandonType ==
  ASSUME TypeOK, NEW p \in Procs, NEW l1 \in Labels, NEW l2 \in Labels, Abandon(p, <<l1, l2>>)
  PROVE  pc' \in [Procs -> Labels] /\ write' \in [Procs -> Writes] /\ abandoned' \in BOOLEAN
<1>1. PICK l \in Labels : Goto(p, l)
  BY DEF Abandon
<1>2. pc' \in [Procs -> Labels]
  BY <1>1, GotoType DEF TypeOK
<1>3. abandoned' \in BOOLEAN /\ (write' = write \/ Send(p, "status", "ABANDONED"))
  BY DEF Abandon, TypeOK
<1>4. "ABANDONED" \in TransferStatuses
  BY DEF TransferStatuses
<1>5. write' \in [Procs -> Writes]
  BY <1>3, <1>4, SendStatusType DEF TypeOK
<1>6. QED BY <1>2, <1>3, <1>5

\* Every action keeps the type invariant.
LEMMA TypeStep == TypeOK /\ [Next]_vars => TypeOK'
<1> SUFFICES ASSUME TypeOK, [Next]_vars PROVE TypeOK'
  OBVIOUS
<1> USE DEF engine, rows, run, audio, world
<1>p. Reqs \subseteq Procs /\ Main \in Procs
  BY DEF Procs
<1>l. /\ {"idle", "refused", "done", "dead", "cancelled", "to_transferring", "to_spawn"} \subseteq Labels
      /\ {"to_announcing", "announcing", "to_dialing", "redialing", "dialing", "answered"} \subseteq Labels
      /\ {"to_whispering", "whispering", "briefed", "bridging", "unmuting"} \subseteq Labels
      /\ {"joining", "leaving_ai", "flagging", "cancelling", "reaping"} \subseteq Labels
      /\ {"to_human_agent", "hushing", "failing", "apologising", "hanging_up"} \subseteq Labels
      /\ {"to_completed", "waiting", "completing", "raising", "closing"} \subseteq Labels
      /\ {"closing_failed", "over"} \subseteq Labels
  BY DEF Labels, Finished, RequestLabels, RunLabels, MainLabels
<1>v. /\ TransferFallbackTriggers \subseteq TransferStatuses
      /\ {"REQUESTED", "ANNOUNCING", "DIALING_AGENT", "WHISPERING_SUMMARY"} \subseteq TransferStatuses
      /\ {"BRIDGED", "ABANDONED", "NOT_REQUESTED"} \subseteq TransferStatuses
      /\ {"TRANSFERRING", "HUMAN_AGENT", "COMPLETED", "FAILED"} \subseteq CallStates
  BY DEF TransferFallbackTriggers, TransferStatuses, CallStates
<1>1. ASSUME NEW p \in Reqs, RequestBegin(p) PROVE TypeOK'
  <2>1. CASE status # "NOT_REQUESTED"
    <3>1. pc' \in [Procs -> Labels]
      BY <1>1, <1>p, <1>l, <2>1, GotoType DEF RequestBegin, TypeOK
    <3>2. QED BY <1>1, <2>1, <3>1 DEF RequestBegin, TypeOK
  <2>2. CASE status = "NOT_REQUESTED"
    <3>1. PICK d \in DestSet : current' = [current EXCEPT ![p] = d]
      BY <1>1, <2>2 DEF RequestBegin
    <3>2. Send(p, "status", "REQUESTED") /\ Goto(p, "to_transferring")
      BY <1>1, <2>2 DEF RequestBegin
    <3>3. pc' \in [Procs -> Labels]
      BY <1>p, <1>l, <3>2, GotoType DEF TypeOK
    <3>4. write' \in [Procs -> Writes]
      BY <1>p, <1>v, <3>2, SendStatusType DEF TypeOK
    <3>5. QED BY <1>1, <3>1, <3>3, <3>4 DEF RequestBegin, TypeOK
  <2>3. QED BY <2>1, <2>2
<1>2. ASSUME NEW p \in Reqs, RequestTransferring(p) PROVE TypeOK'
  <2>1. pc' \in [Procs -> Labels] /\ write' \in [Procs -> Writes]
    BY <1>2, <1>p, <1>l, <1>v, TransitionType DEF RequestTransferring
  <2>2. QED BY <1>2, <2>1 DEF RequestTransferring, TypeOK
<1>3. ASSUME NEW p \in Reqs, RequestSpawn(p) PROVE TypeOK'
  <2>1. pc' \in [Procs -> Labels]
    BY <1>3, <1>p, <1>l, GotoType DEF RequestSpawn, TypeOK
  <2>2. QED BY <1>3, <2>1 DEF RequestSpawn, TypeOK
<1>4. ASSUME NEW p \in Reqs, RunAnnouncing(p) PROVE TypeOK'
  <2>1. AdvanceOrRaise(p, "ANNOUNCING", "announcing")
    BY <1>4 DEF RunAnnouncing
  <2>2. QED BY <1>4, <1>l, <1>v, <2>1, AdvanceType DEF RunAnnouncing, TypeOK
<1>5. ASSUME NEW p \in Reqs, RunAnnounce(p) PROVE TypeOK'
  <2>1. pc' \in [Procs -> Labels]
    BY <1>5, <1>p, <1>l, GotoType DEF RunAnnounce, TypeOK
  <2>2. QED BY <1>5, <2>1 DEF RunAnnounce, TypeOK
<1>6. ASSUME NEW p \in Reqs, RunDialing(p) PROVE TypeOK'
  <2>1. tried' \in [Reqs -> SUBSET (DestSet \cup {NoDest})]
    BY <1>6 DEF RunDialing, TypeOK
  <2>2. CASE Send(p, "status", "DIALING_AGENT") /\ Goto(p, "dialing") /\ UNCHANGED <<failure, handling>>
    <3>1. pc' \in [Procs -> Labels] /\ write' \in [Procs -> Writes]
      BY <1>p, <1>l, <1>v, <2>2, GotoType, SendStatusType DEF TypeOK
    <3>2. QED BY <1>6, <2>1, <2>2, <3>1 DEF RunDialing, TypeOK
  <2>3. CASE Fail(p, "FAILED", tried'[p]) /\ handling' = [handling EXCEPT ![p] = TRUE] /\ UNCHANGED write
    <3>1. "FAILED" \in TransferFallbackTriggers
      BY DEF TransferFallbackTriggers
    <3>2. /\ pc' \in [Procs -> Labels]
          /\ failure' \in [Reqs -> [status : TransferFallbackTriggers, hangup : BOOLEAN]]
      BY <2>3, <3>1, FailType
    <3>3. handling' \in [Reqs -> BOOLEAN]
      BY <2>3 DEF TypeOK
    <3>4. UNCHANGED <<engine, rows, callState, current, write, audio, world, faults>>
      BY <1>6, <2>3 DEF RunDialing
    <3>5. QED BY <2>1, <3>2, <3>3, <3>4 DEF TypeOK
  <2>4. CASE Send(p, "patch", status) /\ Goto(p, "dialing") /\ UNCHANGED <<failure, handling>>
    <3>1. pc' \in [Procs -> Labels] /\ write' \in [Procs -> Writes]
      BY <1>p, <1>l, <2>4, GotoType, SendStatusType DEF TypeOK
    <3>2. QED BY <1>6, <2>1, <2>4, <3>1 DEF RunDialing, TypeOK
  <2>5. QED BY <1>6, <2>2, <2>3, <2>4 DEF RunDialing
<1>7. ASSUME NEW p \in Reqs, RunHush(p) PROVE TypeOK'
  <2>1. pc' \in [Procs -> Labels]
    BY <1>7, <1>p, <1>l, GotoType DEF RunHush, TypeOK
  <2>2. QED BY <1>7, <2>1 DEF RunHush, TypeOK
<1>8. ASSUME NEW p \in Reqs, DialAnswered(p) PROVE TypeOK'
  <2>1. pc' \in [Procs -> Labels]
    BY <1>8, <1>p, <1>l, GotoType DEF DialAnswered, TypeOK
  <2>2. QED BY <1>8, <2>1 DEF DialAnswered, TypeOK
<1>9. ASSUME NEW p \in Reqs, DialFailed(p) PROVE TypeOK'
  <2> DEFINE next == PlanFallback(tried[p])
  <2>1. humanLeft' \in BOOLEAN
    BY <1>9 DEF DialFailed, TypeOK
  <2>2. CASE next # NoDest
    <3>1. next \in DestSet
      BY <2>2, PlanFallbackType
    <3>2. current' = [current EXCEPT ![p] = next] /\ Goto(p, "redialing") /\ failure' = failure
      BY <1>9, <2>2 DEF DialFailed
    <3>3. pc' \in [Procs -> Labels]
      BY <1>p, <1>l, <3>2, GotoType DEF TypeOK
    <3>4. QED BY <1>9, <2>1, <3>1, <3>2, <3>3 DEF DialFailed, TypeOK
  <2>3. CASE next = NoDest
    <3>1. PICK t \in TransferFallbackTriggers : Fail(p, t, tried[p])
      BY <1>9, <2>3 DEF DialFailed
    <3>2. /\ pc' \in [Procs -> Labels]
          /\ failure' \in [Reqs -> [status : TransferFallbackTriggers, hangup : BOOLEAN]]
      BY <3>1, FailType
    <3>3. current' = current
      BY <1>9, <2>3 DEF DialFailed
    <3>4. QED BY <1>9, <2>1, <3>2, <3>3 DEF DialFailed, TypeOK
  <2>4. QED BY <2>2, <2>3
<1>10. ASSUME NEW p \in Reqs, RunAbandons(p), UNCHANGED <<hold, muted, ai, world, faults>>, heard' \in BOOLEAN
       PROVE  TypeOK'
  <2>1. Abandon(p, <<"done", "hushing">>)
    BY <1>10 DEF RunAbandons
  <2>2. pc' \in [Procs -> Labels] /\ write' \in [Procs -> Writes] /\ abandoned' \in BOOLEAN
    BY <1>p, <1>l, <2>1, AbandonType
  <2>3. QED BY <1>10, <2>2 DEF RunAbandons, TypeOK
<1>11. ASSUME NEW p \in Reqs, AnsweredSummary(p) PROVE TypeOK'
  <2>1. CASE RunAbandons(p)
    BY <1>10, <1>11, <2>1 DEF AnsweredSummary, TypeOK
  <2>2. CASE Send(p, "patch", status) /\ Goto(p, "to_whispering") /\ UNCHANGED <<engine, rows, callState, run>>
    <3>1. pc' \in [Procs -> Labels] /\ write' \in [Procs -> Writes]
      BY <1>p, <1>l, <2>2, GotoType, SendStatusType DEF TypeOK
    <3>2. QED BY <1>11, <2>2, <3>1 DEF AnsweredSummary, TypeOK
  <2>3. QED BY <1>11, <2>1, <2>2 DEF AnsweredSummary
<1>12. ASSUME NEW p \in Reqs, AnsweredWhispering(p) PROVE TypeOK'
  <2>1. PICK l \in Labels : AdvanceOrRaise(p, "WHISPERING_SUMMARY", l)
    BY <1>12, <1>l DEF AnsweredWhispering
  <2>2. QED BY <1>12, <1>v, <2>1, AdvanceType DEF AnsweredWhispering, TypeOK
<1>13. ASSUME NEW p \in Reqs, WhisperEnds(p) PROVE TypeOK'
  <2>1. heard' \in BOOLEAN
    BY <1>13 DEF WhisperEnds, TypeOK
  <2>2. CASE RunAbandons(p)
    BY <1>10, <1>13, <2>1, <2>2 DEF WhisperEnds
  <2>3. CASE Goto(p, "bridging") /\ UNCHANGED <<run, write, engine, rows, callState>>
    <3>1. pc' \in [Procs -> Labels]
      BY <1>p, <1>l, <2>3, GotoType DEF TypeOK
    <3>2. QED BY <1>13, <2>1, <2>3, <3>1 DEF WhisperEnds, TypeOK
  <2>4. CASE Fail(p, "AGENT_REJECTED", {current[p]}) /\ UNCHANGED <<current, tried, handling, write, engine, rows, callState>>
    <3>1. "AGENT_REJECTED" \in TransferFallbackTriggers
      BY DEF TransferFallbackTriggers
    <3>2. /\ pc' \in [Procs -> Labels]
          /\ failure' \in [Reqs -> [status : TransferFallbackTriggers, hangup : BOOLEAN]]
      BY <2>4, <3>1, FailType
    <3>3. QED BY <1>13, <2>1, <2>4, <3>2 DEF WhisperEnds, TypeOK
  <2>5. QED BY <1>13, <2>2, <2>3, <2>4 DEF WhisperEnds
<1>14. ASSUME NEW p \in Reqs, Briefed(p) PROVE TypeOK'
  <2>1. CASE RunAbandons(p)
    BY <1>10, <1>14, <2>1 DEF Briefed, TypeOK
  <2>2. CASE Goto(p, "bridging") /\ UNCHANGED <<run, write, engine, rows, callState>>
    <3>1. pc' \in [Procs -> Labels]
      BY <1>p, <1>l, <2>2, GotoType DEF TypeOK
    <3>2. QED BY <1>14, <2>2, <3>1 DEF Briefed, TypeOK
  <2>3. QED BY <1>14, <2>1, <2>2 DEF Briefed
<1>15. ASSUME NEW p \in Reqs, StopHold(p) \/ Unmute(p) \/ JoinLegs(p) \/ LeaveAi(p) PROVE TypeOK'
  <2>1. ASSUME StopHold(p) PROVE TypeOK'
    <3>1. pc' \in [Procs -> Labels]
      BY <2>1, <1>p, <1>l, GotoType DEF StopHold, TypeOK
    <3>2. QED BY <2>1, <3>1 DEF StopHold, TypeOK
  <2>2. ASSUME Unmute(p) PROVE TypeOK'
    <3>1. pc' \in [Procs -> Labels]
      BY <2>2, <1>p, <1>l, GotoType DEF Unmute, TypeOK
    <3>2. muted' \in BOOLEAN /\ UNCHANGED <<engine, rows, callState, write, run, hold, ai, heard, world, faults>>
      BY <2>2 DEF Unmute
    <3>3. QED BY <3>1, <3>2 DEF TypeOK
  <2>3. ASSUME JoinLegs(p) PROVE TypeOK'
    <3>1. pc' \in [Procs -> Labels]
      BY <2>3, <1>p, <1>l, GotoType DEF JoinLegs, TypeOK
    <3>2. QED BY <2>3, <3>1 DEF JoinLegs, TypeOK
  <2>4. ASSUME LeaveAi(p) PROVE TypeOK'
    <3>1. pc' \in [Procs -> Labels]
      BY <2>4, <1>p, <1>l, GotoType DEF LeaveAi, TypeOK
    <3>2. QED BY <2>4, <3>1 DEF LeaveAi, TypeOK
  <2>5. QED BY <1>15, <2>1, <2>2, <2>3, <2>4
<1>16. ASSUME NEW p \in Reqs, BridgeFlag(p) PROVE TypeOK'
  <2>1. AdvanceOrRaise(p, "BRIDGED", "to_human_agent")
    BY <1>16 DEF BridgeFlag
  <2>2. QED BY <1>16, <1>l, <1>v, <2>1, AdvanceType DEF BridgeFlag, TypeOK
<1>17. ASSUME NEW p \in Reqs, BridgeState(p) PROVE TypeOK'
  <2>1. pc' \in [Procs -> Labels] /\ write' \in [Procs -> Writes]
    BY <1>17, <1>p, <1>l, <1>v, TransitionType DEF BridgeState
  <2>2. QED BY <1>17, <2>1 DEF BridgeState, TypeOK
<1>18. ASSUME NEW p \in Reqs, FailRecord(p) PROVE TypeOK'
  <2>1. pc' \in [Procs -> Labels]
    BY <1>18, <1>p, <1>l, GotoType DEF FailRecord, TypeOK
  <2>2. failure[p].status \in TransferStatuses
    BY <1>v DEF TypeOK
  <2>3. write' = write \/ Send(p, "status", failure[p].status)
    BY <1>18 DEF FailRecord
  <2>4. write' \in [Procs -> Writes]
    BY <1>p, <2>2, <2>3, SendStatusType DEF TypeOK
  <2>5. QED BY <1>18, <2>1, <2>4 DEF FailRecord, TypeOK
<1>19. ASSUME NEW p \in Reqs, FailSpeak(p) PROVE TypeOK'
  <2>1. pc' \in [Procs -> Labels]
    BY <1>19, <1>p, <1>l, GotoType DEF FailSpeak, TypeOK
  <2>2. QED BY <1>19, <2>1 DEF FailSpeak, TypeOK
<1>20. ASSUME NEW p \in Reqs, HangupRoom(p) PROVE TypeOK'
  <2>1. pc' \in [Procs -> Labels]
    BY <1>20, <1>p, <1>l, GotoType DEF HangupRoom, TypeOK
  <2>2. room' \in BOOLEAN /\ ended' \in BOOLEAN
    BY <1>20 DEF HangupRoom
  <2>3. UNCHANGED <<engine, rows, callState, write, run, audio, caller, human, stranded, faults>>
    BY <1>20 DEF HangupRoom
  <2>4. QED BY <2>1, <2>2, <2>3 DEF TypeOK
<1>21. ASSUME NEW p \in Reqs, HangupState(p) PROVE TypeOK'
  <2>1. pc' \in [Procs -> Labels] /\ write' \in [Procs -> Writes]
    BY <1>21, <1>p, <1>l, <1>v, TransitionType DEF HangupState
  <2>2. QED BY <1>21, <2>1 DEF HangupState, TypeOK
<1>22. CASE MainAbandon
  <2>1. Abandon(Main, <<"completing", "hushing">>)
    BY <1>22 DEF MainAbandon
  <2>2. pc' \in [Procs -> Labels] /\ write' \in [Procs -> Writes] /\ abandoned' \in BOOLEAN
    BY <1>p, <1>l, <2>1, AbandonType
  <2>3. QED BY <1>22, <2>2 DEF MainAbandon, TypeOK
<1>23. CASE MainHush
  <2>1. pc' \in [Procs -> Labels]
    BY <1>23, <1>p, <1>l, GotoType DEF MainHush, TypeOK
  <2>2. QED BY <1>23, <2>1 DEF MainHush, TypeOK
<1>24. CASE MainComplete
  <2>1. pc' \in [Procs -> Labels] /\ write' \in [Procs -> Writes]
    BY <1>24, <1>p, <1>l, <1>v, TransitionType DEF MainComplete
  <2>2. QED BY <1>24, <2>1 DEF MainComplete, TypeOK
<1>25. CASE MainFail
  <2>1. pc' \in [Procs -> Labels] /\ write' \in [Procs -> Writes]
    BY <1>25, <1>p, <1>l, <1>v, TransitionType DEF MainFail
  <2>2. QED BY <1>25, <2>1 DEF MainFail, TypeOK
<1>26. CASE MainClose \/ MainReap
  <2>1. pc' \in [Procs -> Labels]
    BY <1>26, <1>l DEF MainClose, MainReap, TypeOK, Goto
  <2>2. hold' \in {"none", "published", "spoken"}
    BY <1>26 DEF MainClose, MainReap, TypeOK
  <2>3. UNCHANGED <<engine, rows, callState, write, run, muted, ai, heard, world, faults>>
    BY <1>26 DEF MainClose, MainReap
  <2>4. QED BY <2>1, <2>2, <2>3 DEF TypeOK
<1>27. ASSUME NEW p \in Procs, Commit(p) PROVE TypeOK'
  <2>1. write[p] \in Writes
    BY DEF TypeOK
  <2>2. [write[p] EXCEPT !.committed = TRUE] \in Writes
    BY <2>1 DEF Writes
  <2>3. write' \in [Procs -> Writes]
    BY <1>27, <2>2, NoWriteType DEF Commit, TypeOK
  <2>4. IF write[p].col = "state" THEN write[p].value \in CallStates
                                 ELSE write[p].value \in TransferStatuses
    BY <2>1 DEF Writes
  <2>5. rowStatus' \in TransferStatuses /\ rowState' \in CallStates
    BY <1>27, <2>4 DEF Commit, TypeOK
  <2>6. QED BY <1>27, <2>3, <2>5 DEF Commit, TypeOK
<1>28. ASSUME NEW p \in Procs, Settle(p) PROVE TypeOK'
  <2>1. write[p] \in Writes
    BY DEF TypeOK
  <2>2. write' \in [Procs -> Writes]
    BY <1>28, NoWriteType DEF Settle, TypeOK
  <2>3. IF write[p].col = "state" THEN write[p].value \in CallStates
                                 ELSE write[p].value \in TransferStatuses
    BY <2>1 DEF Writes
  <2>4. status' \in TransferStatuses /\ callState' \in CallStates
    BY <1>28, <2>3 DEF Settle, TypeOK
  <2>5. QED BY <1>28, <2>2, <2>4 DEF Settle, TypeOK
<1>29. CASE CallerLeaves
  <2>1. caller' \in BOOLEAN /\ ended' \in BOOLEAN
    BY <1>29 DEF CallerLeaves
  <2>2. UNCHANGED <<engine, rows, callState, pc, write, run, audio, room, human, stranded, faults>>
    BY <1>29 DEF CallerLeaves
  <2>3. QED BY <2>1, <2>2 DEF TypeOK
<1>30. CASE HumanLeaves
  <2>1. human' \in BOOLEAN /\ humanLeft' \in BOOLEAN /\ ended' \in BOOLEAN
    BY <1>30 DEF HumanLeaves, TypeOK
  <2>2. UNCHANGED <<status, task, abandoned, bridged, skip, rows, callState, pc, write, run, audio, room, caller, stranded, faults>>
    BY <1>30 DEF HumanLeaves
  <2>3. QED BY <2>1, <2>2 DEF TypeOK
<1>31. CASE Watchdog
  <2>1. room' \in BOOLEAN /\ caller' \in BOOLEAN /\ human' \in BOOLEAN /\ ended' \in BOOLEAN
    BY <1>31 DEF Watchdog
  <2>2. UNCHANGED <<engine, rows, callState, pc, write, run, audio, stranded, faults>>
    BY <1>31 DEF Watchdog
  <2>3. QED BY <2>1, <2>2 DEF TypeOK
<1>32. CASE SkipDigit
  BY <1>32 DEF SkipDigit, TypeOK
<1>33. ASSUME NEW p \in Procs, WriteFails(p) PROVE TypeOK'
  <2>1. faults' \in 0..MaxFaults
    BY <1>33 DEF WriteFails, TypeOK
  <2>2. write' \in [Procs -> Writes]
    BY <1>33, NoWriteType DEF WriteFails, TypeOK
  <2>3. CASE p \in Reqs /\ Raise(p)
    BY <1>33, <2>1, <2>2, <2>3, RaiseType DEF WriteFails, TypeOK
  <2>4. ASSUME NEW l \in Labels, Goto(p, l), UNCHANGED run PROVE TypeOK'
    <3>1. pc' \in [Procs -> Labels]
      BY <2>4, GotoType DEF TypeOK
    <3>2. QED BY <1>33, <2>1, <2>2, <2>4, <3>1 DEF WriteFails, TypeOK
  <2>5. QED BY <1>33, <1>l, <2>3, <2>4 DEF WriteFails
<1>34. ASSUME NEW p \in Reqs, PublishFails(p) \/ LeaveAiFails(p) \/ HangupFails(p) PROVE TypeOK'
  <2>1. faults' \in 0..MaxFaults
    BY <1>34 DEF PublishFails, LeaveAiFails, HangupFails, TypeOK
  <2>2. ASSUME PublishFails(p) PROVE TypeOK'
    <3>1. Raise(p)
      BY <2>2 DEF PublishFails
    <3>2. hold' \in {"none", "published", "spoken"}
      BY <2>2 DEF PublishFails, TypeOK
    <3>3. UNCHANGED <<engine, rows, callState, write, muted, ai, heard, world>>
      BY <2>2 DEF PublishFails
    <3>4. QED BY <2>1, <3>1, <3>2, <3>3, RaiseType DEF TypeOK
  <2>3. ASSUME LeaveAiFails(p) PROVE TypeOK'
    <3>1. pc' \in [Procs -> Labels]
      BY <2>3, <1>p, <1>l, GotoType DEF LeaveAiFails, TypeOK
    <3>2. QED BY <2>1, <2>3, <3>1 DEF LeaveAiFails, TypeOK
  <2>4. ASSUME HangupFails(p) PROVE TypeOK'
    <3>1. pc' \in [Procs -> Labels]
      BY <2>4, <1>p, <1>l, GotoType DEF HangupFails, TypeOK
    <3>2. QED BY <2>1, <2>4, <3>1 DEF HangupFails, TypeOK
  <2>5. QED BY <1>34, <2>2, <2>3, <2>4
<1>35. CASE UNCHANGED vars
  BY <1>35 DEF vars, TypeOK
<1>36. ASSUME NEW p \in Reqs, RunStep(p) PROVE TypeOK'
  BY <1>2, <1>3, <1>4, <1>5, <1>6, <1>7, <1>8, <1>9, <1>11, <1>12, <1>13, <1>14, <1>15,
     <1>16, <1>17, <1>18, <1>19, <1>20, <1>21, <1>36 DEF RunStep
<1>37. CASE MainStep
  BY <1>22, <1>23, <1>24, <1>25, <1>26, <1>37 DEF MainStep
<1>38. CASE Environment
  BY <1>29, <1>30, <1>31, <1>32, <1>33, <1>34, <1>38 DEF Environment
<1>39. ASSUME NEW p \in Reqs, Unwind(p) PROVE TypeOK'
  <2>1. pc' \in [Procs -> Labels]
    BY <1>39, <1>p, <1>l, GotoType DEF Unwind, TypeOK
  <2>2. write' \in [Procs -> Writes]
    BY <1>39, NoWriteType DEF Unwind, TypeOK
  <2>3. QED BY <1>39, <2>1, <2>2 DEF Unwind, TypeOK
<1>40. QED
  BY <1>1, <1>27, <1>28, <1>35, <1>36, <1>37, <1>38, <1>39 DEF Next, WriteStep

LEMMA TypeInit == Init => TypeOK
<1> SUFFICES ASSUME Init PROVE TypeOK
  OBVIOUS
<1>1. pc \in [Procs -> Labels]
  BY DEF Init, Labels, Finished, MainLabels
<1>2. write \in [Procs -> Writes]
  BY NoWriteType DEF Init
<1>3. /\ {status, rowStatus} \subseteq TransferStatuses /\ {callState, rowState} \subseteq CallStates
      /\ "FAILED" \in TransferFallbackTriggers
  BY DEF Init, TransferStatuses, CallStates, TransferFallbackTriggers
<1>4. failure \in [Reqs -> [status : TransferFallbackTriggers, hangup : BOOLEAN]]
  BY <1>3 DEF Init
<1>5. faults \in 0..MaxFaults
  BY DEF Init
<1>6. /\ current \in [Reqs -> DestSet \cup {NoDest}]
      /\ tried \in [Reqs -> SUBSET (DestSet \cup {NoDest})]
      /\ handling \in [Reqs -> BOOLEAN]
      /\ task \in Reqs \cup {NoTask}
  BY DEF Init
<1>7. /\ abandoned \in BOOLEAN /\ humanLeft \in BOOLEAN /\ bridged \in BOOLEAN
      /\ skip \in {"nobody", "caller", "agent"} /\ hold \in {"none", "published", "spoken"}
      /\ muted \in BOOLEAN /\ ai \in {"open", "failed", "closed"} /\ heard \in BOOLEAN
      /\ room \in BOOLEAN /\ caller \in BOOLEAN /\ human \in BOOLEAN /\ ended \in BOOLEAN
      /\ stranded \in BOOLEAN
  BY DEF Init
<1>8. QED BY <1>1, <1>2, <1>3, <1>4, <1>5, <1>6, <1>7 DEF TypeOK

\* Whatever the interleaving of tool calls, writes, hang-ups and faults, every field of
\* the engine, the tracker and the row holds a value of its type.
THEOREM TypeCorrect == Spec => []TypeOK
<1>1. QED BY TypeInit, TypeStep, PTL DEF Spec

-----------------------------------------------------------------------------
(* The row and the bridge *)

\* Why calls.transfer_status cannot run ahead of the bridge: aclose of the AI session is
\* called before _bridged is set, and _bridged is set before anyone writes BRIDGED, including
\* the writes still in flight and the copies of the status a patch rewrites.
BridgeInv ==
  /\ bridged => ai # "open"
  /\ \A p \in Reqs : pc[p] = "flagging" => ai # "open"
  /\ status = "BRIDGED" => bridged
  /\ rowStatus = "BRIDGED" => bridged
  /\ \A p \in Procs : write[p].value = "BRIDGED" => bridged

\* A step after which nobody newly stands before the flag, and no write newly carries
\* BRIDGED unless the status already was.
NoNewFlagging == \A p \in Reqs : pc'[p] = "flagging" => pc[p] = "flagging"
NoNewBridged ==
  \A p \in Procs : write'[p].value = "BRIDGED" => write[p].value = "BRIDGED" \/ status = "BRIDGED"

LEMMA QuietStep ==
  ASSUME BridgeInv, UNCHANGED <<bridged, ai, status, rowStatus>>, NoNewFlagging, NoNewBridged
  PROVE  BridgeInv'
BY DEF BridgeInv, NoNewFlagging, NoNewBridged

LEMMA GotoQuiet ==
  ASSUME TypeOK, NEW p \in Procs, NEW l, l # "flagging", Goto(p, l)
  PROVE  NoNewFlagging
<1>1. pc \in [Procs -> Labels] /\ Reqs \subseteq Procs
  BY DEF TypeOK, Procs
<1>2. QED BY <1>1 DEF Goto, NoNewFlagging

LEMMA SendQuiet ==
  ASSUME TypeOK, NEW p \in Procs, NEW c, NEW v, v = "BRIDGED" => status = "BRIDGED", Send(p, c, v)
  PROVE  NoNewBridged
<1>1. write \in [Procs -> Writes]
  BY DEF TypeOK
<1>2. QED BY <1>1 DEF Send, NoNewBridged

LEMMA KeepQuiet ==
  /\ UNCHANGED pc => NoNewFlagging
  /\ UNCHANGED write => NoNewBridged
BY DEF NoNewFlagging, NoNewBridged

LEMMA DropQuiet ==
  ASSUME TypeOK, NEW p \in Procs, write' = [write EXCEPT ![p] = NoWrite]
  PROVE  NoNewBridged
<1>1. write \in [Procs -> Writes]
  BY DEF TypeOK
<1>2. QED BY <1>1 DEF NoWrite, NoNewBridged

LEMMA FailQuiet ==
  ASSUME TypeOK, NEW p \in Reqs, NEW t, NEW s, Fail(p, t, s)
  PROVE  NoNewFlagging
BY GotoQuiet DEF Fail, Procs

LEMMA RaiseQuiet ==
  ASSUME TypeOK, NEW p \in Reqs, Raise(p)
  PROVE  NoNewFlagging
<1>1. p \in Procs
  BY DEF Procs
<1>2. CASE handling[p]
  BY <1>1, <1>2, GotoQuiet DEF Raise
<1>3. CASE ~handling[p]
  BY <1>3, FailQuiet DEF Raise
<1>4. QED BY <1>2, <1>3

LEMMA TransitionQuiet ==
  ASSUME TypeOK, NEW p \in Procs, NEW s \in CallStates, NEW l, l # "flagging", TransitionOrSkip(p, s, l)
  PROVE  NoNewFlagging /\ NoNewBridged
<1>1. s # "BRIDGED"
  BY DEF CallStates
<1>2. Goto(p, l) /\ (Send(p, "state", s) \/ UNCHANGED write)
  BY DEF TransitionOrSkip
<1>3. QED BY <1>1, <1>2, GotoQuiet, SendQuiet, KeepQuiet

LEMMA AdvanceQuiet ==
  ASSUME TypeOK, NEW p \in Reqs, NEW s, s # "BRIDGED", NEW l, l # "flagging", AdvanceOrRaise(p, s, l)
  PROVE  NoNewFlagging /\ NoNewBridged
<1>1. p \in Procs
  BY DEF Procs
<1>2. (Goto(p, l) /\ Send(p, "status", s)) \/ (Raise(p) /\ UNCHANGED write)
  BY DEF AdvanceOrRaise
<1>3. QED BY <1>1, <1>2, GotoQuiet, SendQuiet, RaiseQuiet, KeepQuiet

LEMMA AbandonQuiet ==
  ASSUME TypeOK, NEW p \in Procs, NEW l1, NEW l2, l1 # "flagging", l2 # "flagging",
         Abandon(p, <<l1, l2>>)
  PROVE  NoNewFlagging /\ NoNewBridged
<1>1. Goto(p, l1) \/ Goto(p, l2)
  BY DEF Abandon
<1>2. Send(p, "status", "ABANDONED") \/ UNCHANGED write
  BY DEF Abandon
<1>3. QED BY <1>1, <1>2, GotoQuiet, SendQuiet, KeepQuiet

\* Every action keeps BridgeInv; only LeaveAi, BridgeFlag, Commit and Settle do more
\* than a quiet step.
LEMMA BridgeStep == TypeOK /\ BridgeInv /\ [Next]_vars => BridgeInv'
<1> SUFFICES ASSUME TypeOK, BridgeInv, [Next]_vars PROVE BridgeInv'
  OBVIOUS
<1> USE DEF engine, rows, run, audio, world
<1>p. Reqs \subseteq Procs /\ Main \in Procs /\ Main \notin Reqs
  BY DEF Procs
<1>s. {"TRANSFERRING", "HUMAN_AGENT", "COMPLETED", "FAILED"} \subseteq CallStates
  BY DEF CallStates
<1>1. ASSUME NEW p \in Reqs, RequestBegin(p) PROVE BridgeInv'
  <2>1. \/ Goto(p, "refused") /\ UNCHANGED write
        \/ Goto(p, "to_transferring") /\ Send(p, "status", "REQUESTED")
    BY <1>1 DEF RequestBegin
  <2>2. NoNewFlagging /\ NoNewBridged
    BY <1>p, <2>1, GotoQuiet, SendQuiet, KeepQuiet
  <2>3. QED BY <1>1, <2>2, QuietStep DEF RequestBegin
<1>2. ASSUME NEW p \in Reqs, RequestTransferring(p) PROVE BridgeInv'
  <2>1. NoNewFlagging /\ NoNewBridged
    BY <1>2, <1>p, <1>s, TransitionQuiet DEF RequestTransferring
  <2>2. QED BY <1>2, <2>1, QuietStep DEF RequestTransferring
<1>3. ASSUME NEW p \in Reqs, RequestSpawn(p) PROVE BridgeInv'
  <2>1. NoNewFlagging /\ NoNewBridged
    BY <1>3, <1>p, GotoQuiet, KeepQuiet DEF RequestSpawn
  <2>2. QED BY <1>3, <2>1, QuietStep DEF RequestSpawn
<1>4. ASSUME NEW p \in Reqs, RunAnnouncing(p) PROVE BridgeInv'
  <2>1. NoNewFlagging /\ NoNewBridged
    BY <1>4, AdvanceQuiet DEF RunAnnouncing
  <2>2. QED BY <1>4, <2>1, QuietStep DEF RunAnnouncing
<1>5. ASSUME NEW p \in Reqs, RunAnnounce(p) PROVE BridgeInv'
  <2>1. NoNewFlagging /\ NoNewBridged
    BY <1>5, <1>p, GotoQuiet, KeepQuiet DEF RunAnnounce
  <2>2. QED BY <1>5, <2>1, QuietStep DEF RunAnnounce
<1>6. ASSUME NEW p \in Reqs, RunDialing(p) PROVE BridgeInv'
  <2>1. \/ Goto(p, "dialing") /\ Send(p, "status", "DIALING_AGENT")
        \/ Fail(p, "FAILED", tried'[p]) /\ UNCHANGED write
        \/ Goto(p, "dialing") /\ Send(p, "patch", status)
    BY <1>6 DEF RunDialing
  <2>2. NoNewFlagging /\ NoNewBridged
    BY <1>p, <2>1, GotoQuiet, SendQuiet, FailQuiet, KeepQuiet
  <2>3. QED BY <1>6, <2>2, QuietStep DEF RunDialing
<1>7. ASSUME NEW p \in Reqs, RunHush(p) PROVE BridgeInv'
  <2>1. NoNewFlagging /\ NoNewBridged
    BY <1>7, <1>p, GotoQuiet, KeepQuiet DEF RunHush
  <2>2. QED BY <1>7, <2>1, QuietStep DEF RunHush
<1>8. ASSUME NEW p \in Reqs, DialAnswered(p) PROVE BridgeInv'
  <2>1. NoNewFlagging /\ NoNewBridged
    BY <1>8, <1>p, GotoQuiet, KeepQuiet DEF DialAnswered
  <2>2. QED BY <1>8, <2>1, QuietStep DEF DialAnswered
<1>9. ASSUME NEW p \in Reqs, DialFailed(p) PROVE BridgeInv'
  <2>1. Goto(p, "redialing") \/ \E t : Fail(p, t, tried[p])
    BY <1>9 DEF DialFailed
  <2>2. NoNewFlagging /\ NoNewBridged
    BY <1>9, <1>p, <2>1, GotoQuiet, FailQuiet, KeepQuiet DEF DialFailed
  <2>3. QED BY <1>9, <2>2, QuietStep DEF DialFailed
<1>10. ASSUME NEW p \in Reqs, RunAbandons(p), ai' = ai PROVE BridgeInv'
  <2>1. NoNewFlagging /\ NoNewBridged
    BY <1>10, <1>p, AbandonQuiet DEF RunAbandons
  <2>2. QED BY <1>10, <2>1, QuietStep DEF RunAbandons
<1>11. ASSUME NEW p \in Reqs, AnsweredSummary(p) PROVE BridgeInv'
  <2>1. CASE RunAbandons(p)
    BY <1>11, <2>1, <1>10 DEF AnsweredSummary
  <2>2. CASE /\ Send(p, "patch", status) /\ Goto(p, "to_whispering")
             /\ UNCHANGED <<engine, rows, callState, run>>
    <3>1. NoNewFlagging /\ NoNewBridged
      BY <1>p, <2>2, GotoQuiet, SendQuiet
    <3>2. QED BY <1>11, <2>2, <3>1, QuietStep DEF AnsweredSummary
  <2>3. QED BY <1>11, <2>1, <2>2 DEF AnsweredSummary
<1>12. ASSUME NEW p \in Reqs, AnsweredWhispering(p) PROVE BridgeInv'
  <2>1. PICK l \in {"whispering", "briefed"} : AdvanceOrRaise(p, "WHISPERING_SUMMARY", l)
    BY <1>12 DEF AnsweredWhispering
  <2>2. NoNewFlagging /\ NoNewBridged
    BY <2>1, AdvanceQuiet
  <2>3. QED BY <1>12, <2>2, QuietStep DEF AnsweredWhispering
<1>13. ASSUME NEW p \in Reqs, WhisperEnds(p) PROVE BridgeInv'
  <2>1. CASE RunAbandons(p)
    BY <1>13, <2>1, <1>10 DEF WhisperEnds
  <2>2. CASE /\ Goto(p, "bridging") \/ Fail(p, "AGENT_REJECTED", {current[p]})
             /\ UNCHANGED <<write, engine, rows>>
    <3>1. NoNewFlagging /\ NoNewBridged
      BY <1>p, <2>2, GotoQuiet, FailQuiet, KeepQuiet
    <3>2. QED BY <1>13, <2>2, <3>1, QuietStep DEF WhisperEnds
  <2>3. QED BY <1>13, <2>1, <2>2 DEF WhisperEnds
<1>14. ASSUME NEW p \in Reqs, Briefed(p) PROVE BridgeInv'
  <2>1. CASE RunAbandons(p)
    BY <1>14, <2>1, <1>10 DEF Briefed
  <2>2. CASE Goto(p, "bridging") /\ UNCHANGED <<write, engine, rows>>
    <3>1. NoNewFlagging /\ NoNewBridged
      BY <1>p, <2>2, GotoQuiet, KeepQuiet
    <3>2. QED BY <1>14, <2>2, <3>1, QuietStep DEF Briefed
  <2>3. QED BY <1>14, <2>1, <2>2 DEF Briefed
<1>15. ASSUME NEW p \in Reqs, StopHold(p) \/ Unmute(p) \/ JoinLegs(p) \/ LeaveAi(p) PROVE BridgeInv'
  <2>1. ASSUME StopHold(p) \/ Unmute(p) \/ JoinLegs(p) PROVE BridgeInv'
    <3>1. \E l \in {"unmuting", "joining", "leaving_ai"} : Goto(p, l)
      BY <2>1 DEF StopHold, Unmute, JoinLegs
    <3>2. UNCHANGED <<bridged, ai, status, rowStatus, write>>
      BY <2>1 DEF StopHold, Unmute, JoinLegs
    <3>3. QED BY <1>p, <3>1, <3>2, GotoQuiet, KeepQuiet, QuietStep
  <2>2. ASSUME LeaveAi(p) PROVE BridgeInv'
    BY <2>2 DEF LeaveAi, BridgeInv
  <2>3. QED BY <1>15, <2>1, <2>2
<1>16. ASSUME NEW p \in Reqs, BridgeFlag(p) PROVE BridgeInv'
  <2>1. pc[p] = "flagging" /\ bridged' /\ UNCHANGED <<status, rowStatus, ai>>
    BY <1>16 DEF BridgeFlag
  <2>2. ai # "open"
    BY <2>1 DEF BridgeInv
  <2>3. QED BY <2>1, <2>2 DEF BridgeInv
<1>17. ASSUME NEW p \in Reqs, BridgeState(p) PROVE BridgeInv'
  <2>1. NoNewFlagging /\ NoNewBridged
    BY <1>17, <1>p, <1>s, TransitionQuiet DEF BridgeState
  <2>2. QED BY <1>17, <2>1, QuietStep DEF BridgeState
<1>18. ASSUME NEW p \in Reqs, FailRecord(p) PROVE BridgeInv'
  <2>1. failure[p].status # "BRIDGED"
    BY DEF TypeOK, TransferFallbackTriggers
  <2>2. Goto(p, "apologising") /\ (Send(p, "status", failure[p].status) \/ UNCHANGED write)
    BY <1>18 DEF FailRecord
  <2>3. NoNewFlagging /\ NoNewBridged
    BY <1>p, <2>1, <2>2, GotoQuiet, SendQuiet, KeepQuiet
  <2>4. QED BY <1>18, <2>3, QuietStep DEF FailRecord
<1>19. ASSUME NEW p \in Reqs, FailSpeak(p) PROVE BridgeInv'
  <2>1. NoNewFlagging /\ NoNewBridged
    BY <1>19, <1>p, GotoQuiet, KeepQuiet DEF FailSpeak
  <2>2. QED BY <1>19, <2>1, QuietStep DEF FailSpeak
<1>20. ASSUME NEW p \in Reqs, HangupRoom(p) PROVE BridgeInv'
  <2>1. NoNewFlagging /\ NoNewBridged
    BY <1>20, <1>p, GotoQuiet, KeepQuiet DEF HangupRoom
  <2>2. QED BY <1>20, <2>1, QuietStep DEF HangupRoom
<1>21. ASSUME NEW p \in Reqs, HangupState(p) PROVE BridgeInv'
  <2>1. NoNewFlagging /\ NoNewBridged
    BY <1>21, <1>p, <1>s, TransitionQuiet DEF HangupState
  <2>2. QED BY <1>21, <2>1, QuietStep DEF HangupState
<1>22. CASE MainAbandon
  <2>1. NoNewFlagging /\ NoNewBridged
    BY <1>22, <1>p, AbandonQuiet DEF MainAbandon
  <2>2. QED BY <1>22, <2>1, QuietStep DEF MainAbandon
<1>23. CASE MainHush
  <2>1. NoNewFlagging /\ NoNewBridged
    BY <1>23, <1>p, GotoQuiet, KeepQuiet DEF MainHush
  <2>2. QED BY <1>23, <2>1, QuietStep DEF MainHush
<1>24. CASE MainComplete
  <2>1. NoNewFlagging /\ NoNewBridged
    BY <1>24, <1>p, <1>s, TransitionQuiet DEF MainComplete
  <2>2. QED BY <1>24, <2>1, QuietStep DEF MainComplete
<1>25. CASE MainFail
  <2>1. NoNewFlagging /\ NoNewBridged
    BY <1>25, <1>p, <1>s, TransitionQuiet DEF MainFail
  <2>2. QED BY <1>25, <2>1, QuietStep DEF MainFail
<1>26. CASE MainClose \/ MainReap
  <2>1. NoNewFlagging
    BY <1>26, <1>p DEF MainClose, MainReap, Goto, NoNewFlagging, TypeOK
  <2>2. UNCHANGED <<bridged, ai, status, rowStatus, write>>
    BY <1>26 DEF MainClose, MainReap
  <2>3. QED BY <2>1, <2>2, KeepQuiet, QuietStep
<1>27. ASSUME NEW p \in Procs, Commit(p) PROVE BridgeInv'
  <2>1. write \in [Procs -> Writes]
    BY DEF TypeOK
  <2>2. rowStatus' = "BRIDGED" => bridged
    BY <1>27 DEF Commit, BridgeInv
  <2>3. \A q \in Procs : write'[q].value = "BRIDGED" => write[q].value = "BRIDGED"
    BY <1>27, <2>1 DEF Commit, NoWrite, Writes
  <2>4. QED BY <1>27, <2>2, <2>3 DEF Commit, BridgeInv
<1>28. ASSUME NEW p \in Procs, Settle(p) PROVE BridgeInv'
  <2>1. write \in [Procs -> Writes]
    BY DEF TypeOK
  <2>2. status' = "BRIDGED" => bridged
    BY <1>28 DEF Settle, BridgeInv
  <2>3. \A q \in Procs : write'[q].value = "BRIDGED" => write[q].value = "BRIDGED"
    BY <1>28, <2>1 DEF Settle, NoWrite
  <2>4. QED BY <1>28, <2>2, <2>3 DEF Settle, BridgeInv
<1>29. CASE CallerLeaves
  BY <1>29, KeepQuiet, QuietStep DEF CallerLeaves
<1>30. CASE HumanLeaves
  BY <1>30, KeepQuiet, QuietStep DEF HumanLeaves
<1>31. CASE Watchdog
  BY <1>31, KeepQuiet, QuietStep DEF Watchdog
<1>32. CASE SkipDigit
  BY <1>32, KeepQuiet, QuietStep DEF SkipDigit
<1>33. ASSUME NEW p \in Procs, WriteFails(p) PROVE BridgeInv'
  <2>1. NoNewBridged
    BY <1>33, DropQuiet DEF WriteFails
  <2>2. \/ p \in Reqs /\ Raise(p)
        \/ \E l \in {"dead", "closing_failed", "raising"} : Goto(p, l)
    BY <1>33 DEF WriteFails
  <2>3. NoNewFlagging
    BY <2>2, RaiseQuiet, GotoQuiet
  <2>4. QED BY <1>33, <2>1, <2>3, QuietStep DEF WriteFails
<1>34. ASSUME NEW p \in Reqs, PublishFails(p) \/ LeaveAiFails(p) \/ HangupFails(p) PROVE BridgeInv'
  <2>1. ASSUME PublishFails(p) PROVE BridgeInv'
    <3>1. NoNewFlagging /\ NoNewBridged
      BY <2>1, RaiseQuiet, KeepQuiet DEF PublishFails
    <3>2. QED BY <2>1, <3>1, QuietStep DEF PublishFails
  <2>2. ASSUME LeaveAiFails(p) PROVE BridgeInv'
    BY <2>2 DEF LeaveAiFails, BridgeInv
  <2>3. ASSUME HangupFails(p) PROVE BridgeInv'
    <3>1. NoNewFlagging /\ NoNewBridged
      BY <2>3, <1>p, GotoQuiet, KeepQuiet DEF HangupFails
    <3>2. QED BY <2>3, <3>1, QuietStep DEF HangupFails
  <2>4. QED BY <1>34, <2>1, <2>2, <2>3
<1>35. CASE UNCHANGED vars
  BY <1>35, KeepQuiet, QuietStep DEF vars
<1>36. ASSUME NEW p \in Reqs, RunStep(p) PROVE BridgeInv'
  BY <1>2, <1>3, <1>4, <1>5, <1>6, <1>7, <1>8, <1>9,
     <1>11, <1>12, <1>13, <1>14, <1>15, <1>16, <1>17,
     <1>18, <1>19, <1>20, <1>21, <1>36 DEF RunStep
<1>37. CASE MainStep
  BY <1>22, <1>23, <1>24, <1>25, <1>26, <1>37 DEF MainStep
<1>38. CASE Environment
  BY <1>29, <1>30, <1>31, <1>32, <1>33, <1>34, <1>38 DEF Environment
<1>39. ASSUME NEW p \in Reqs, Unwind(p) PROVE BridgeInv'
  <2>1. NoNewFlagging
    BY <1>39, <1>p, GotoQuiet DEF Unwind
  <2>2. NoNewBridged
    BY <1>39, <1>p, DropQuiet DEF Unwind
  <2>3. QED BY <1>39, <2>1, <2>2, QuietStep DEF Unwind
<1>40. QED
  BY <1>1, <1>27, <1>28, <1>35, <1>36, <1>37, <1>38, <1>39 DEF Next, WriteStep

LEMMA BridgeInit == Init => BridgeInv
<1> SUFFICES ASSUME Init PROVE BridgeInv
  OBVIOUS
<1>1. \A p \in Procs : write[p] = NoWrite
  BY DEF Init
<1>2. \A p \in Procs : write[p].value # "BRIDGED"
  BY <1>1 DEF NoWrite
<1>3. \A p \in Reqs : pc[p] # "flagging"
  BY DEF Init, Procs
<1>4. ~bridged /\ status # "BRIDGED" /\ rowStatus # "BRIDGED"
  BY DEF Init
<1>5. QED BY <1>2, <1>3, <1>4 DEF BridgeInv

\* TR-8: whatever the interleaving and whatever fails, calls.transfer_status says BRIDGED
\* only once the engine has called aclose on the AI session, which may have failed, and
\* treats the call as bridged.
THEOREM RowFollowsBridge == Spec => []RowNeverAheadOfBridge
<1>1. BridgeInv => RowNeverAheadOfBridge
  BY DEF BridgeInv, RowNeverAheadOfBridge
<1>2. Init => TypeOK /\ BridgeInv
  BY TypeInit, BridgeInit
<1>3. TypeOK /\ BridgeInv /\ [Next]_vars => TypeOK' /\ BridgeInv'
  BY TypeStep, BridgeStep
<1>4. QED BY <1>1, <1>2, <1>3, PTL DEF Spec

-----------------------------------------------------------------------------
(* What a step of each coroutine changes, by the await at which it stands *)

\* Where a coroutine of a transfer may go from an await, unless a fault interrupts it.
After(l) ==
  CASE l = "idle"            -> {"refused", "to_transferring"}
    [] l = "to_transferring" -> {"to_spawn"}
    [] l = "to_spawn"        -> {"to_announcing"}
    [] l = "to_announcing"   -> {"announcing", "failing", "dead"}
    [] l = "announcing"      -> {"to_dialing"}
    [] l = "to_dialing"      -> {"dialing", "failing"}
    [] l = "redialing"       -> {"dialing"}
    [] l = "dialing"         -> {"answered", "redialing", "failing"}
    [] l = "answered"        -> {"to_whispering", "done", "hushing"}
    [] l = "to_whispering"   -> {"whispering", "briefed", "failing", "dead"}
    [] l = "whispering"      -> {"bridging", "failing", "done", "hushing"}
    [] l = "briefed"         -> {"bridging", "done", "hushing"}
    [] l = "bridging"        -> {"unmuting"}
    [] l = "unmuting"        -> {"joining"}
    [] l = "joining"         -> {"leaving_ai"}
    [] l = "leaving_ai"      -> {"flagging"}
    [] l = "flagging"        -> {"to_human_agent", "failing", "dead"}
    [] l = "failing"         -> {"apologising"}
    [] l = "apologising"     -> {"hanging_up", "done"}
    [] l = "hanging_up"      -> {"to_completed"}
    [] l \in {"to_human_agent", "hushing", "to_completed"} -> {"done"}
    [] OTHER                 -> {}

\* Its place, its write and the task.
Moves(p) ==
  /\ \E l \in After(pc[p]) : Goto(p, l)
  /\ pc[p] # "idle" => Idle(p)
  /\ \/ write' = write
     \/ \E s \in CallStates : Send(p, "state", s)
     \/ Send(p, "patch", status)
     \/ \E s \in TransferStatuses : LegalStatus(s) /\ Send(p, "status", s)
  /\ pc'[p] \in {"refused", "dead"} => write' = write
  /\ task' = IF pc[p] = "to_spawn" THEN p ELSE task
  /\ UNCHANGED <<status, rows, faults>>

\* What the caller and the agent hear.
Sounds(p) ==
  /\ CASE pc[p] = "announcing" -> hold' = "published" /\ muted' = (muted \/ caller)
       [] pc[p] = "unmuting" -> ~muted'
       [] pc[p] \in {"bridging", "hushing", "apologising"} -> muted' = muted
       [] OTHER -> UNCHANGED <<hold, muted>>
  /\ skip' = skip
  /\ heard => heard'
  /\ pc[p] = "whispering" /\ pc'[p] = "bridging" /\ "tts_fails" \notin Disturbances
       => heard' \/ skip # "nobody"

\* Who is there.
People(p) ==
  /\ caller' = caller
  /\ pc[p] # "dialing" => human' = human
  /\ IF pc[p] = "hanging_up" THEN ~room' /\ ended' ELSE UNCHANGED <<room, ended>>
  /\ bridged' = (bridged \/ pc[p] = "flagging")

\* The destination, and the statuses that the bridge needs.
Dials(p) ==
  /\ \A q \in Reqs : q # p \/ pc[p] \notin {"idle", "dialing"} => current'[q] = current[q]
  /\ pc[p] = "dialing" => current'[p] = current[p] \/ current'[p] \in DestSet
  /\ pc'[p] = "to_transferring" => current'[p] \in DestSet
  /\ pc[p] = "to_whispering" /\ pc'[p] = "briefed" => current[p] \notin Whispered
  /\ pc[p] = "to_whispering" /\ pc'[p] \in {"whispering", "briefed"} =>
       Send(p, "status", "WHISPERING_SUMMARY")
  /\ pc'[p] \in {"bridging", "unmuting", "joining", "leaving_ai", "flagging"} => write' = write
  /\ pc[p] = "flagging" /\ status = "WHISPERING_SUMMARY" => pc'[p] = "to_human_agent"

Run(p) == Moves(p) /\ Sounds(p) /\ People(p) /\ Dials(p)

LEMMA GotoPlace ==
  ASSUME TypeOK, NEW p \in Procs, NEW l, Goto(p, l)
  PROVE  pc'[p] = l /\ \A q \in Procs \ {p} : pc'[q] = pc[q]
BY DEF TypeOK, Goto

\* An illegal status raises, and the handler of the task records FAILED or ends it.
LEMMA AdvancePlace ==
  ASSUME TypeOK, NEW p \in Reqs, NEW s, NEW l, AdvanceOrRaise(p, s, l)
  PROVE  \/ LegalStatus(s) /\ Send(p, "status", s) /\ Goto(p, l) /\ UNCHANGED current
         \/ ~LegalStatus(s) /\ write' = write /\ (Goto(p, "failing") \/ Goto(p, "dead")) /\ UNCHANGED current
BY DEF AdvanceOrRaise, Raise, Fail, run

LEMMA AbandonPlace ==
  ASSUME TypeOK, NEW p \in Procs, NEW l1, NEW l2, Abandon(p, <<l1, l2>>)
  PROVE  /\ Goto(p, l1) \/ Goto(p, l2)
         /\ write' = write \/ (LegalStatus("ABANDONED") /\ Send(p, "status", "ABANDONED"))
<1>1. "ABANDONED" \in TransferStatuses /\ TransferCanAbandon \subseteq TransferStatuses
  BY DEF TransferStatuses, TransferCanAbandon
<1>2. status \in TransferCanAbandon => LegalStatus("ABANDONED")
  BY <1>1 DEF LegalStatus, TransferStatusTransitions, TransferCanAbandon, TransferFallbackTriggers
<1>3. <<l1, l2>>[1] = l1 /\ <<l1, l2>>[2] = l2
  OBVIOUS
<1> QED
  BY <1>2, <1>3 DEF Abandon

LEMMA RunContract ==
  ASSUME TypeOK, NEW p \in Reqs, RequestBegin(p) \/ RunStep(p)
  PROVE  Run(p)
<1> USE DEF engine, rows, run, audio, world
<1>p. p \in Procs /\ p # Main
  BY DEF Procs
<1>s. /\ {"REQUESTED", "ANNOUNCING", "DIALING_AGENT", "WHISPERING_SUMMARY"} \subseteq TransferStatuses
      /\ {"BRIDGED", "ABANDONED"} \cup TransferFallbackTriggers \subseteq TransferStatuses
      /\ {"TRANSFERRING", "HUMAN_AGENT", "COMPLETED"} \subseteq CallStates
  BY DEF TransferStatuses, TransferFallbackTriggers, CallStates
<1>1. CASE RequestBegin(p)
  <2>1. PICK l \in {"refused", "to_transferring"} : Goto(p, l)
    BY <1>1 DEF RequestBegin
  <2>2. pc'[p] = l
    BY <1>p, <2>1, GotoPlace
  <2>3. Moves(p)
    <3>1. \E m \in After(pc[p]) : Goto(p, m)
      BY <1>1, <2>1 DEF RequestBegin, After
    <3>2. CASE status # "NOT_REQUESTED"
      BY <1>1, <3>1, <3>2 DEF RequestBegin, Moves
    <3>3. CASE status = "NOT_REQUESTED"
      <4>1. Send(p, "status", "REQUESTED") /\ LegalStatus("REQUESTED")
        BY <1>1, <3>3 DEF RequestBegin, LegalStatus, TransferStatusTransitions, TransferStatuses
      <4>2. pc'[p] = "to_transferring"
        <5>1. Goto(p, "to_transferring")
          BY <1>1, <3>3 DEF RequestBegin
        <5> QED
          BY <1>p, <5>1, GotoPlace
      <4> QED
        BY <1>1, <1>s, <2>2, <3>1, <3>3, <4>1, <4>2 DEF RequestBegin, Moves
    <3> QED
      BY <3>2, <3>3
  <2>4. Sounds(p) /\ People(p)
    BY <1>1, <2>2 DEF RequestBegin, Sounds, People, TypeOK
  <2>5. Dials(p)
    <3>1. \A q \in Reqs : q # p => current'[q] = current[q]
      BY <1>1 DEF RequestBegin, TypeOK
    <3>2. pc'[p] = "to_transferring" => current'[p] \in DestSet
      <4>1. status # "NOT_REQUESTED" => Goto(p, "refused")
        BY <1>1 DEF RequestBegin
      <4>2. status # "NOT_REQUESTED" => pc'[p] = "refused"
        BY <1>p, <4>1, GotoPlace
      <4> QED
        BY <1>1, <4>2 DEF RequestBegin, TypeOK
    <3> QED
      BY <1>1, <2>2, <3>1, <3>2 DEF RequestBegin, Dials
  <2> QED
    BY <2>3, <2>4, <2>5 DEF Run
<1>2. CASE RequestTransferring(p)
  <2>1. pc[p] = "to_transferring" /\ Goto(p, "to_spawn") /\ Idle(p)
    BY <1>2 DEF RequestTransferring, TransitionOrSkip
  <2>2. pc'[p] = "to_spawn"
    BY <1>p, <2>1, GotoPlace
  <2>3. Moves(p)
    BY <1>2, <1>s, <2>1, <2>2 DEF RequestTransferring, TransitionOrSkip, Moves, After
  <2>4. Sounds(p) /\ People(p) /\ Dials(p)
    BY <1>2, <2>1, <2>2 DEF RequestTransferring, Sounds, People, Dials, TypeOK
  <2> QED
    BY <2>3, <2>4 DEF Run
<1>3. CASE RequestSpawn(p)
  <2>1. pc[p] = "to_spawn" /\ Goto(p, "to_announcing") /\ Idle(p)
    BY <1>3 DEF RequestSpawn
  <2>2. pc'[p] = "to_announcing"
    BY <1>p, <2>1, GotoPlace
  <2>3. Moves(p)
    BY <1>3, <1>s, <2>1, <2>2 DEF RequestSpawn, Moves, After
  <2>4. Sounds(p) /\ People(p) /\ Dials(p)
    BY <1>3, <2>1, <2>2 DEF RequestSpawn, Sounds, People, Dials, TypeOK
  <2> QED
    BY <2>3, <2>4 DEF Run
<1>4. CASE RunAnnounce(p)
  <2>1. pc[p] = "announcing" /\ Goto(p, "to_dialing") /\ Idle(p)
    BY <1>4 DEF RunAnnounce
  <2>2. pc'[p] = "to_dialing"
    BY <1>p, <2>1, GotoPlace
  <2>3. Moves(p)
    BY <1>4, <1>s, <2>1, <2>2 DEF RunAnnounce, Moves, After
  <2>4. Sounds(p) /\ People(p) /\ Dials(p)
    BY <1>4, <2>1, <2>2 DEF RunAnnounce, Sounds, People, Dials, TypeOK
  <2> QED
    BY <2>3, <2>4 DEF Run
<1>5. CASE RunHush(p)
  <2>1. pc[p] = "hushing" /\ Goto(p, "done") /\ Idle(p)
    BY <1>5 DEF RunHush
  <2>2. pc'[p] = "done"
    BY <1>p, <2>1, GotoPlace
  <2>3. Moves(p)
    BY <1>5, <1>s, <2>1, <2>2 DEF RunHush, Moves, After
  <2>4. Sounds(p) /\ People(p) /\ Dials(p)
    BY <1>5, <2>1, <2>2 DEF RunHush, Sounds, People, Dials, TypeOK
  <2> QED
    BY <2>3, <2>4 DEF Run
<1>6. CASE DialAnswered(p)
  <2>1. pc[p] = "dialing" /\ Goto(p, "answered") /\ Idle(p)
    BY <1>6 DEF DialAnswered
  <2>2. pc'[p] = "answered"
    BY <1>p, <2>1, GotoPlace
  <2>3. Moves(p)
    BY <1>6, <1>s, <2>1, <2>2 DEF DialAnswered, Moves, After
  <2>4. Sounds(p) /\ People(p) /\ Dials(p)
    BY <1>6, <2>1, <2>2 DEF DialAnswered, Sounds, People, Dials, TypeOK
  <2> QED
    BY <2>3, <2>4 DEF Run
<1>7. CASE StopHold(p) \/ Unmute(p) \/ JoinLegs(p) \/ LeaveAi(p)
  <2>1. CASE StopHold(p)
    <3>1. pc[p] = "bridging" /\ Goto(p, "unmuting") /\ Idle(p)
      BY <2>1 DEF StopHold
    <3>2. pc'[p] = "unmuting"
      BY <1>p, <3>1, GotoPlace
    <3>3. Moves(p)
      BY <2>1, <1>s, <3>1, <3>2 DEF StopHold, Moves, After
    <3>4. Sounds(p) /\ People(p) /\ Dials(p)
      BY <2>1, <3>1, <3>2 DEF StopHold, Sounds, People, Dials, TypeOK
    <3> QED
      BY <3>3, <3>4 DEF Run
  <2>2. CASE Unmute(p)
    <3>1. pc[p] = "unmuting" /\ Goto(p, "joining") /\ Idle(p)
      BY <2>2 DEF Unmute
    <3>2. pc'[p] = "joining"
      BY <1>p, <3>1, GotoPlace
    <3>3. Moves(p)
      BY <2>2, <1>s, <3>1, <3>2 DEF Unmute, Moves, After
    <3>4. Sounds(p) /\ People(p) /\ Dials(p)
      BY <2>2, <3>1, <3>2 DEF Unmute, Sounds, People, Dials, TypeOK
    <3> QED
      BY <3>3, <3>4 DEF Run
  <2>3. CASE JoinLegs(p)
    <3>1. pc[p] = "joining" /\ Goto(p, "leaving_ai") /\ Idle(p)
      BY <2>3 DEF JoinLegs
    <3>2. pc'[p] = "leaving_ai"
      BY <1>p, <3>1, GotoPlace
    <3>3. Moves(p)
      BY <2>3, <1>s, <3>1, <3>2 DEF JoinLegs, Moves, After
    <3>4. Sounds(p) /\ People(p) /\ Dials(p)
      BY <2>3, <3>1, <3>2 DEF JoinLegs, Sounds, People, Dials, TypeOK
    <3> QED
      BY <3>3, <3>4 DEF Run
  <2>4. CASE LeaveAi(p)
    <3>1. pc[p] = "leaving_ai" /\ Goto(p, "flagging") /\ Idle(p)
      BY <2>4 DEF LeaveAi
    <3>2. pc'[p] = "flagging"
      BY <1>p, <3>1, GotoPlace
    <3>3. Moves(p)
      BY <2>4, <1>s, <3>1, <3>2 DEF LeaveAi, Moves, After
    <3>4. Sounds(p) /\ People(p) /\ Dials(p)
      BY <2>4, <3>1, <3>2 DEF LeaveAi, Sounds, People, Dials, TypeOK
    <3> QED
      BY <3>3, <3>4 DEF Run
  <2> QED
    BY <1>7, <2>1, <2>2, <2>3, <2>4
<1>8. CASE BridgeState(p)
  <2>1. pc[p] = "to_human_agent" /\ Goto(p, "done") /\ Idle(p)
    BY <1>8 DEF BridgeState, TransitionOrSkip
  <2>2. pc'[p] = "done"
    BY <1>p, <2>1, GotoPlace
  <2>3. Moves(p)
    BY <1>8, <1>s, <2>1, <2>2 DEF BridgeState, TransitionOrSkip, Moves, After
  <2>4. Sounds(p) /\ People(p) /\ Dials(p)
    BY <1>8, <2>1, <2>2 DEF BridgeState, Sounds, People, Dials, TypeOK
  <2> QED
    BY <2>3, <2>4 DEF Run
<1>9. CASE HangupRoom(p)
  <2>1. pc[p] = "hanging_up" /\ Goto(p, "to_completed") /\ Idle(p)
    BY <1>9 DEF HangupRoom
  <2>2. pc'[p] = "to_completed"
    BY <1>p, <2>1, GotoPlace
  <2>3. Moves(p)
    BY <1>9, <1>s, <2>1, <2>2 DEF HangupRoom, Moves, After
  <2>4. Sounds(p) /\ People(p) /\ Dials(p)
    BY <1>9, <2>1, <2>2 DEF HangupRoom, Sounds, People, Dials, TypeOK
  <2> QED
    BY <2>3, <2>4 DEF Run
<1>10. CASE HangupState(p)
  <2>1. pc[p] = "to_completed" /\ Goto(p, "done") /\ Idle(p)
    BY <1>10 DEF HangupState, TransitionOrSkip
  <2>2. pc'[p] = "done"
    BY <1>p, <2>1, GotoPlace
  <2>3. Moves(p)
    BY <1>10, <1>s, <2>1, <2>2 DEF HangupState, TransitionOrSkip, Moves, After
  <2>4. Sounds(p) /\ People(p) /\ Dials(p)
    BY <1>10, <2>1, <2>2 DEF HangupState, Sounds, People, Dials, TypeOK
  <2> QED
    BY <2>3, <2>4 DEF Run
<1>11. CASE RunAnnouncing(p)
  <2>1. pc[p] = "to_announcing" /\ Idle(p) /\ AdvanceOrRaise(p, "ANNOUNCING", "announcing")
    BY <1>11 DEF RunAnnouncing
  <2>2. PICK l \in {"announcing", "failing", "dead"} : Goto(p, l)
    BY <2>1, AdvancePlace
  <2>3. pc'[p] = l
    BY <1>p, <2>2, GotoPlace
  <2>4. Moves(p)
    <3>1. \/ LegalStatus("ANNOUNCING") /\ Send(p, "status", "ANNOUNCING") /\ Goto(p, "announcing")
          \/ write' = write
      BY <2>1, AdvancePlace
    <3>2. pc'[p] = "dead" => write' = write
      BY <1>p, <3>1, GotoPlace
    <3>3. pc'[p] # "refused"
      BY <2>3
    <3> QED
      BY <1>11, <1>s, <2>1, <2>2, <3>1, <3>2, <3>3 DEF RunAnnouncing, Moves, After
  <2>5. current' = current
    BY <2>1, AdvancePlace
  <2>6. Sounds(p) /\ People(p) /\ Dials(p)
    BY <1>11, <2>1, <2>3, <2>5 DEF RunAnnouncing, Sounds, People, Dials, TypeOK
  <2> QED
    BY <2>4, <2>6 DEF Run
<1>12. CASE RunDialing(p)
  <2>1. pc[p] \in {"to_dialing", "redialing"} /\ Idle(p) /\ current' = current
    BY <1>12 DEF RunDialing
  <2>2. PICK l \in {"dialing", "failing"} : Goto(p, l) /\ (l = "failing" => pc[p] = "to_dialing")
    BY <1>12 DEF RunDialing, Fail
  <2>3. pc'[p] = l
    BY <1>p, <2>2, GotoPlace
  <2>4. Moves(p)
    <3>1. \/ write' = write \/ Send(p, "patch", status)
          \/ LegalStatus("DIALING_AGENT") /\ Send(p, "status", "DIALING_AGENT")
      BY <1>12 DEF RunDialing
    <3>2. l \in After(pc[p])
      BY <2>1, <2>2 DEF After
    <3> QED
      BY <1>12, <1>s, <2>1, <2>2, <2>3, <3>1, <3>2 DEF RunDialing, Moves
  <2>5. Sounds(p) /\ People(p) /\ Dials(p)
    BY <1>12, <2>1, <2>3 DEF RunDialing, Sounds, People, Dials, TypeOK
  <2> QED
    BY <2>4, <2>5 DEF Run
<1>13. CASE DialFailed(p)
  <2>1. /\ pc[p] = "dialing" /\ Idle(p) /\ write' = write
        /\ UNCHANGED <<status, task, bridged, skip, rows, audio, world, faults>>
    BY <1>13 DEF DialFailed
  <2>2. PICK l \in {"redialing", "failing"} : Goto(p, l)
    BY <1>13 DEF DialFailed, Fail
  <2>3. pc'[p] = l
    BY <1>p, <2>2, GotoPlace
  <2>4. Moves(p)
    BY <2>1, <2>2 DEF Moves, After
  <2>5. Sounds(p) /\ People(p)
    BY <2>1, <2>3 DEF Sounds, People, TypeOK
  <2>6. Dials(p)
    <3>1. current' = current \/ \E d \in DestSet : current' = [current EXCEPT ![p] = d]
      BY <1>13, PlanFallbackType DEF DialFailed
    <3>2. \A q \in Reqs : q # p => current'[q] = current[q]
      BY <3>1 DEF TypeOK
    <3>3. current'[p] = current[p] \/ current'[p] \in DestSet
      BY <3>1 DEF TypeOK
    <3> QED
      BY <2>1, <2>3, <3>2, <3>3 DEF Dials
  <2> QED
    BY <2>4, <2>5, <2>6 DEF Run
<1>14. ASSUME RunAbandons(p), pc[p] \in {"answered", "whispering", "briefed"}, Idle(p),
             UNCHANGED <<hold, muted, ai, world, faults>>, heard => heard'
      PROVE  Run(p)
  <2>1. Abandon(p, <<"done", "hushing">>) /\ UNCHANGED <<status, task, bridged, skip, rows, current>>
    BY <1>14 DEF RunAbandons
  <2>2. PICK l \in {"done", "hushing"} : Goto(p, l)
    BY <1>p, <2>1, AbandonPlace
  <2>3. pc'[p] = l
    BY <1>p, <2>2, GotoPlace
  <2>4. Moves(p)
    <3>1. write' = write \/ (LegalStatus("ABANDONED") /\ Send(p, "status", "ABANDONED"))
      BY <1>p, <2>1, AbandonPlace
    <3>2. l \in After(pc[p])
      BY <1>14, <2>2 DEF After
    <3> QED
      BY <1>14, <1>s, <2>1, <2>2, <2>3, <3>1, <3>2 DEF Moves
  <2>5. Sounds(p) /\ People(p) /\ Dials(p)
    BY <1>14, <2>1, <2>3 DEF Sounds, People, Dials, TypeOK
  <2> QED
    BY <2>4, <2>5 DEF Run
<1>15. CASE AnsweredSummary(p)
  <2>1. CASE abandoned
    BY <1>14, <1>15, <2>1 DEF AnsweredSummary
  <2>2. CASE ~abandoned
    <3>1. /\ pc[p] = "answered" /\ Idle(p) /\ Send(p, "patch", status) /\ Goto(p, "to_whispering")
          /\ UNCHANGED <<engine, rows, callState, run, audio, world, faults>>
      BY <1>15, <2>2 DEF AnsweredSummary
    <3>2. pc'[p] = "to_whispering"
      BY <1>p, <3>1, GotoPlace
    <3>3. Moves(p)
      BY <3>1, <3>2 DEF Moves, After
    <3>4. Sounds(p) /\ People(p) /\ Dials(p)
      BY <3>1, <3>2 DEF Sounds, People, Dials, TypeOK
    <3> QED
      BY <3>3, <3>4 DEF Run
  <2> QED
    BY <2>1, <2>2
<1>16. CASE AnsweredWhispering(p)
  <2> DEFINE next == IF current[p] \in Whispered THEN "whispering" ELSE "briefed"
  <2>1. /\ pc[p] = "to_whispering" /\ Idle(p) /\ AdvanceOrRaise(p, "WHISPERING_SUMMARY", next)
        /\ UNCHANGED <<engine, rows, callState, audio, world, faults>>
    BY <1>16 DEF AnsweredWhispering
  <2>2. \/ LegalStatus("WHISPERING_SUMMARY") /\ Send(p, "status", "WHISPERING_SUMMARY") /\ pc'[p] = next /\ Goto(p, next)
        \/ write' = write /\ pc'[p] \in {"failing", "dead"} /\ (Goto(p, "failing") \/ Goto(p, "dead"))
    BY <1>p, <2>1, AdvancePlace, GotoPlace
  <2>3. current' = current
    BY <2>1, AdvancePlace
  <2>4. Moves(p)
    BY <1>s, <2>1, <2>2 DEF Moves, After
  <2>5. Sounds(p) /\ People(p)
    BY <2>1, <2>2 DEF Sounds, People, TypeOK
  <2>6. Dials(p)
    BY <2>1, <2>2, <2>3 DEF Dials
  <2> QED
    BY <2>4, <2>5, <2>6 DEF Run
<1>17. CASE WhisperEnds(p)
  <2>1. /\ pc[p] = "whispering" /\ Idle(p) /\ (heard => heard')
        /\ UNCHANGED <<hold, muted, ai, world, faults>>
        /\ \/ heard' \/ skip # "nobody" \/ humanLeft \/ abandoned \/ "tts_fails" \in Disturbances
    BY <1>17 DEF WhisperEnds, TypeOK
  <2>2. CASE humanLeft /\ skip = "nobody"
    <3>1. /\ Goto(p, "failing") /\ write' = write
          /\ UNCHANGED <<current, tried, handling, write, engine, rows, callState>>
      BY <1>17, <2>2 DEF WhisperEnds, Fail
    <3>2. pc'[p] = "failing"
      BY <1>p, <3>1, GotoPlace
    <3>3. Moves(p)
      BY <2>1, <3>1 DEF Moves, After
    <3>4. Sounds(p) /\ People(p) /\ Dials(p)
      BY <2>1, <3>1, <3>2 DEF Sounds, People, Dials, TypeOK
    <3> QED
      BY <3>3, <3>4 DEF Run
  <2>3. CASE ~(humanLeft /\ skip = "nobody") /\ abandoned
    BY <1>14, <1>17, <2>1, <2>3 DEF WhisperEnds
  <2>4. CASE ~(humanLeft /\ skip = "nobody") /\ ~abandoned
    <3>1. /\ Goto(p, "bridging") /\ UNCHANGED <<run, write, engine, rows, callState>>
      BY <1>17, <2>4 DEF WhisperEnds
    <3>2. pc'[p] = "bridging"
      BY <1>p, <3>1, GotoPlace
    <3>3. Moves(p)
      BY <2>1, <3>1 DEF Moves, After
    <3>4. Sounds(p) /\ People(p) /\ Dials(p)
      BY <2>1, <2>4, <3>1, <3>2 DEF Sounds, People, Dials, TypeOK
    <3> QED
      BY <3>3, <3>4 DEF Run
  <2> QED
    BY <2>2, <2>3, <2>4
<1>18. CASE Briefed(p)
  <2>1. CASE abandoned
    BY <1>14, <1>18, <2>1 DEF Briefed
  <2>2. CASE ~abandoned
    <3>1. /\ pc[p] = "briefed" /\ Idle(p) /\ Goto(p, "bridging")
          /\ UNCHANGED <<run, write, engine, rows, callState, audio, world, faults>>
      BY <1>18, <2>2 DEF Briefed
    <3>2. pc'[p] = "bridging"
      BY <1>p, <3>1, GotoPlace
    <3>3. Moves(p)
      BY <3>1, <3>2 DEF Moves, After
    <3>4. Sounds(p) /\ People(p) /\ Dials(p)
      BY <3>1, <3>2 DEF Sounds, People, Dials, TypeOK
    <3> QED
      BY <3>3, <3>4 DEF Run
  <2> QED
    BY <2>1, <2>2
<1>19. CASE BridgeFlag(p)
  <2>1. /\ pc[p] = "flagging" /\ Idle(p) /\ bridged' = TRUE /\ AdvanceOrRaise(p, "BRIDGED", "to_human_agent")
        /\ UNCHANGED <<status, task, skip, rows, audio, world, faults>>
    BY <1>19 DEF BridgeFlag
  <2>2. \/ LegalStatus("BRIDGED") /\ Send(p, "status", "BRIDGED") /\ pc'[p] = "to_human_agent" /\ Goto(p, "to_human_agent")
        \/ ~LegalStatus("BRIDGED") /\ write' = write /\ pc'[p] \in {"failing", "dead"} /\ (Goto(p, "failing") \/ Goto(p, "dead"))
    BY <1>p, <2>1, AdvancePlace, GotoPlace
  <2>3. current' = current
    BY <2>1, AdvancePlace
  <2>4. Moves(p)
    BY <1>s, <2>1, <2>2 DEF Moves, After
  <2>5. Sounds(p) /\ People(p)
    BY <2>1, <2>2 DEF Sounds, People, TypeOK
  <2>6. status = "WHISPERING_SUMMARY" => LegalStatus("BRIDGED")
    BY DEF LegalStatus, TransferStatusTransitions, TransferStatuses
  <2>7. Dials(p)
    BY <2>1, <2>2, <2>3, <2>6 DEF Dials
  <2> QED
    BY <2>4, <2>5, <2>7 DEF Run
<1>20. CASE FailRecord(p)
  <2>1. /\ pc[p] = "failing" /\ Idle(p) /\ Goto(p, "apologising")
        /\ UNCHANGED <<engine, rows, callState, run, audio, world, faults>>
        /\ write' = write \/ (LegalStatus(failure[p].status) /\ Send(p, "status", failure[p].status))
    BY <1>20 DEF FailRecord
  <2>2. pc'[p] = "apologising"
    BY <1>p, <2>1, GotoPlace
  <2>3. failure[p].status \in TransferStatuses
    BY <1>s DEF TypeOK
  <2>4. Moves(p)
    BY <2>1, <2>2, <2>3 DEF Moves, After
  <2>5. Sounds(p) /\ People(p) /\ Dials(p)
    BY <2>1, <2>2 DEF Sounds, People, Dials, TypeOK
  <2> QED
    BY <2>4, <2>5 DEF Run
<1>21. CASE FailSpeak(p)
  <2>1. PICK l \in {"hanging_up", "done"} : Goto(p, l)
    BY <1>21 DEF FailSpeak
  <2>2. pc'[p] = l
    BY <1>p, <2>1, GotoPlace
  <2>3. Moves(p)
    BY <1>21, <2>1 DEF FailSpeak, Moves, After
  <2>4. Sounds(p) /\ People(p) /\ Dials(p)
    BY <1>21, <2>2 DEF FailSpeak, Sounds, People, Dials, TypeOK
  <2> QED
    BY <2>3, <2>4 DEF Run
<1> QED
  BY <1>1, <1>2, <1>3, <1>4, <1>5, <1>6, <1>7, <1>8, <1>9, <1>10, <1>11, <1>12,
     <1>13, <1>15, <1>16, <1>17, <1>18, <1>19, <1>20, <1>21 DEF RunStep

\* _run_call: it starts on its way out when the call has ended, and all it does to a
\* transfer is to cancel its task and to wait until that is gone.
MainRun ==
  /\ pc[Main] = "waiting" => ended
  /\ pc'[Main] \in MainLabels \ {"waiting"}
  /\ pc'[Main] = "reaping" => write'[Main] = NoWrite
  /\ \A q \in Reqs :
       /\ pc'[q] = "cancelling" => pc'[Main] = "reaping"
       /\ \/ pc'[q] \in {pc[q], "cancelling"} /\ write'[q] = write[q]
          \/ pc'[q] = "cancelled" /\ write'[q] = NoWrite
  /\ faults' = 0 => faults = 0
  /\ UNCHANGED <<status, rows, task, muted, heard, skip, bridged, current, world>>

\* A fault in a transfer that raises.
Broken(p) ==
  /\ pc'[p] \in {"failing", "dead"}
  /\ \A q \in Procs \ {p} : pc'[q] = pc[q] /\ write'[q] = write[q]
  /\ pc'[p] = "failing" => ~Requesting(p)
  /\ ~Idle(p) \/ pc[p] \in {"announcing", "apologising", "whispering", "unmuting"}
  /\ ~Idle(p) => pc[p] # "cancelling"
  /\ ~write[p].committed /\ write'[p] = NoWrite
  /\ faults' # 0
  /\ UNCHANGED <<status, rows, task, muted, heard, skip, bridged, current, world>>

\* A fault that the engine swallows.
Swallowed(p) ==
  /\ \/ pc[p] = "leaving_ai" /\ pc'[p] = "flagging"
     \/ pc[p] = "hanging_up" /\ pc'[p] = "to_completed"
  /\ Idle(p)
  /\ \A q \in Procs \ {p} : pc'[q] = pc[q]
  /\ faults' # 0
  /\ UNCHANGED <<status, rows, write, task, hold, muted, heard, skip, bridged, current, caller, human, room, ended>>

\* Somebody leaves or presses the digit, or nothing happens.
Leaves ==
  /\ (caller' => caller) /\ (human' => human) /\ (room' => room) /\ (ended => ended')
  /\ caller /\ ~caller' => ended'
  /\ ended' => ended \/ ~caller' \/ bridged
  /\ room /\ ~room' => ~caller'
  /\ \/ skip' = skip
     \/ skip = "nobody" /\ skip' = "agent"
     \/ skip' = "caller" /\ "caller_dtmf" \in Disturbances
  /\ UNCHANGED <<pc, write, status, rows, faults, task, muted, heard, hold, bridged, current>>

-----------------------------------------------------------------------------
(* Where the coroutines stand *)

\* Where the coroutines stand; the end of the call begins when somebody ended it, and a
\* task is on its way out only while aclose waits for it.
PlacesInv ==
  /\ \A p \in Reqs : pc[p] \in Finished \cup {"cancelling"} \cup RequestLabels \cup RunLabels
  /\ \A p \in Reqs : pc[p] = "cancelling" => pc[Main] = "reaping"
  /\ pc[Main] \in MainLabels
  /\ pc[Main] \in {"waiting", "reaping"} => Idle(Main)
  /\ pc[Main] # "waiting" => ended

LEMMA MainContract ==
  ASSUME TypeOK, PlacesInv, MainStep \/ \E p \in Reqs : Unwind(p)
  PROVE  MainRun
<1> USE DEF engine, rows, run, audio, world
<1>p. Main \in Procs /\ Main \notin Reqs /\ Reqs \subseteq Procs
  BY DEF Procs
<1>l. {"hushing", "completing", "raising", "closing", "closing_failed", "reaping", "over"}
        \subseteq MainLabels \ {"waiting"}
  BY DEF MainLabels
<1>c. pc[Main] # "reaping" => \A q \in Reqs : pc[q] # "cancelling"
  BY DEF PlacesInv
<1>1. ASSUME NEW l, Goto(Main, l) PROVE pc'[Main] = l /\ \A q \in Reqs : pc'[q] = pc[q]
  BY <1>1, <1>p, GotoPlace
<1>2. ASSUME NEW c, NEW v, Send(Main, c, v) PROVE \A q \in Reqs : write'[q] = write[q]
  BY <1>2, <1>p DEF Send, TypeOK
<1>3. CASE MainAbandon
  <2>1. Abandon(Main, <<"completing", "hushing">>)
    BY <1>3 DEF MainAbandon
  <2>2. Goto(Main, "completing") \/ Goto(Main, "hushing")
    BY <1>p, <2>1, AbandonPlace
  <2>3. write' = write \/ Send(Main, "status", "ABANDONED")
    BY <1>p, <2>1, AbandonPlace
  <2>4. \A q \in Reqs : write'[q] = write[q]
    BY <1>2, <2>3
  <2>5. pc'[Main] \in MainLabels \ {"waiting"} /\ \A q \in Reqs : pc'[q] = pc[q]
    BY <1>1, <1>l, <2>2
  <2> QED
    BY <1>3, <1>c, <2>2, <2>4, <2>5, <1>1 DEF MainAbandon, MainRun
<1>4. CASE MainHush
  <2>1. pc'[Main] = "completing" /\ \A q \in Reqs : pc'[q] = pc[q]
    BY <1>1, <1>4 DEF MainHush
  <2> QED
    BY <1>4, <1>c, <1>l, <2>1 DEF MainHush, MainRun
<1>5. CASE MainComplete
  <2>1. pc'[Main] = "closing" /\ \A q \in Reqs : pc'[q] = pc[q]
    BY <1>1, <1>5 DEF MainComplete, TransitionOrSkip
  <2>2. \A q \in Reqs : write'[q] = write[q]
    BY <1>2, <1>5 DEF MainComplete, TransitionOrSkip
  <2> QED
    BY <1>5, <1>c, <1>l, <2>1, <2>2 DEF MainComplete, MainRun
<1>6. CASE MainFail
  <2>1. pc'[Main] = "closing_failed" /\ \A q \in Reqs : pc'[q] = pc[q]
    BY <1>1, <1>6 DEF MainFail, TransitionOrSkip
  <2>2. \A q \in Reqs : write'[q] = write[q]
    BY <1>2, <1>6 DEF MainFail, TransitionOrSkip
  <2> QED
    BY <1>6, <1>c, <1>l, <2>1, <2>2 DEF MainFail, MainRun
<1>7. CASE MainClose
  <2>1. CASE task # NoTask /\ Running(task)
    <3>1. pc' = [pc EXCEPT ![Main] = "reaping", ![task] = "cancelling"]
      BY <1>7, <2>1 DEF MainClose
    <3>2. task \in Reqs
      BY <2>1 DEF TypeOK
    <3>3. pc'[Main] = "reaping" /\ pc'[task] = "cancelling"
      BY <1>p, <3>1, <3>2 DEF TypeOK
    <3>4. \A q \in Reqs \ {task} : pc'[q] = pc[q]
      BY <1>p, <3>1, <3>2 DEF TypeOK
    <3> QED
      BY <1>7, <1>l, <3>3, <3>4 DEF MainClose, MainRun, Idle
  <2>2. CASE ~(task # NoTask /\ Running(task))
    <3>1. Goto(Main, "over")
      BY <1>7, <2>2 DEF MainClose
    <3>2. pc'[Main] = "over" /\ \A q \in Reqs : pc'[q] = pc[q]
      BY <1>1, <3>1
    <3> QED
      BY <1>7, <1>c, <1>l, <3>2 DEF MainClose, MainRun
  <2> QED
    BY <2>1, <2>2
<1>8. CASE MainReap
  <2>1. pc'[Main] = "over" /\ \A q \in Reqs : pc'[q] = pc[q] /\ pc[q] # "cancelling"
    BY <1>1, <1>8 DEF MainReap
  <2> QED
    BY <1>8, <1>l, <2>1 DEF MainReap, MainRun
<1>9. ASSUME NEW p \in Reqs, Unwind(p) PROVE MainRun
  <2>1. pc'[p] = "cancelled" /\ \A q \in Procs \ {p} : pc'[q] = pc[q]
    BY <1>9, <1>p, GotoPlace DEF Unwind
  <2>2. write'[p] = NoWrite /\ \A q \in Procs \ {p} : write'[q] = write[q]
    BY <1>9, <1>p DEF Unwind, TypeOK
  <2>3. pc[Main] = "reaping" /\ Idle(Main) /\ p # Main
    BY <1>9, <1>p DEF Unwind, PlacesInv
  <2>4. pc'[Main] = "reaping" /\ write'[Main] = NoWrite
    BY <1>p, <2>1, <2>2, <2>3 DEF Idle
  <2>5. \A q \in Reqs : \/ pc'[q] = pc[q] /\ write'[q] = write[q]
                        \/ pc'[q] = "cancelled" /\ write'[q] = NoWrite
    BY <1>p, <2>1, <2>2
  <2>6. UNCHANGED <<status, rows, task, muted, heard, skip, bridged, current, world, faults>>
    BY <1>9 DEF Unwind
  <2> QED
    BY <1>l, <2>3, <2>4, <2>5, <2>6 DEF MainRun
<1> QED
  BY <1>3, <1>4, <1>5, <1>6, <1>7, <1>8, <1>9 DEF MainStep

LEMMA BrokenContract ==
  ASSUME TypeOK, NEW p \in Reqs, WriteFails(p) \/ PublishFails(p)
  PROVE  Broken(p)
<1> USE DEF engine, rows, run, audio, world
<1>p. p \in Procs /\ p # Main
  BY DEF Procs
<1>1. /\ \/ Goto(p, "dead") 
         \/ Raise(p) /\ ~Requesting(p)
      /\ current' = current
      /\ faults' = faults + 1
      /\ UNCHANGED <<status, rows, task, muted, heard, skip, bridged, world>>
  BY <1>p, RaiseType DEF WriteFails, PublishFails, Requesting
<1>2. Raise(p) => Goto(p, "dead") \/ Goto(p, "failing")
  BY DEF Raise, Fail
<1>3. /\ pc'[p] = "dead" \/ (pc'[p] = "failing" /\ ~Requesting(p))
      /\ \A q \in Procs \ {p} : pc'[q] = pc[q]
  <2>1. CASE Goto(p, "dead")
    BY <1>p, <2>1, GotoPlace
  <2>2. CASE Raise(p) /\ ~Requesting(p) /\ Goto(p, "failing")
    BY <1>p, <2>2, GotoPlace
  <2> QED
    BY <1>1, <1>2, <2>1, <2>2
<1>4. faults' # 0
  BY <1>1 DEF TypeOK
<1>5. /\ ~write[p].committed /\ write'[p] = NoWrite
      /\ \A q \in Procs \ {p} : write'[q] = write[q]
      /\ ~Idle(p) \/ pc[p] \in {"announcing", "apologising", "whispering", "unmuting"}
      /\ ~Idle(p) => pc[p] # "cancelling"
  <2>1. CASE WriteFails(p)
    BY <1>p, <2>1 DEF WriteFails, TypeOK
  <2>2. CASE PublishFails(p)
    BY <1>p, <2>2 DEF PublishFails, Idle, NoWrite
  <2> QED
    BY <2>1, <2>2
<1> QED
  BY <1>1, <1>3, <1>4, <1>5 DEF Broken

LEMMA SwallowedContract ==
  ASSUME TypeOK, NEW p \in Reqs, LeaveAiFails(p) \/ HangupFails(p)
  PROVE  Swallowed(p)
<1> USE DEF engine, rows, run, audio, world
<1>p. p \in Procs
  BY DEF Procs
<1>1. faults' # 0
  BY DEF LeaveAiFails, HangupFails, TypeOK
<1>2. CASE LeaveAiFails(p)
  <2>1. pc'[p] = "flagging" /\ \A q \in Procs \ {p} : pc'[q] = pc[q]
    BY <1>p, <1>2, GotoPlace DEF LeaveAiFails
  <2> QED
    BY <1>1, <1>2, <2>1 DEF LeaveAiFails, Swallowed
<1>3. CASE HangupFails(p)
  <2>1. pc'[p] = "to_completed" /\ \A q \in Procs \ {p} : pc'[q] = pc[q]
    BY <1>p, <1>3, GotoPlace DEF HangupFails
  <2> QED
    BY <1>1, <1>3, <2>1 DEF HangupFails, Swallowed
<1> QED
  BY <1>2, <1>3

\* Every step is a step of a transfer, of _run_call, of a write, a fault or a departure.
LEMMA StepCases ==
  ASSUME TypeOK, PlacesInv, [Next]_vars
  PROVE  \/ \E p \in Reqs : Run(p)
         \/ MainRun
         \/ \E p \in Reqs : Broken(p) \/ Swallowed(p)
         \/ \E p \in Procs : Commit(p) \/ Settle(p)
         \/ Leaves
<1> USE DEF engine, rows, run, audio, world
<1>1. CASE \E p \in Reqs : RequestBegin(p) \/ RunStep(p)
  BY <1>1, RunContract
<1>2. CASE MainStep \/ \E p \in Reqs : Unwind(p)
  BY <1>2, MainContract
<1>3. CASE \E p \in Procs : WriteStep(p)
  BY <1>3 DEF WriteStep
<1>4. CASE CallerLeaves \/ HumanLeaves \/ Watchdog \/ SkipDigit
  <2>1. CASE CallerLeaves
    BY <2>1 DEF CallerLeaves, Leaves
  <2>2. CASE HumanLeaves
    BY <2>2 DEF HumanLeaves, Leaves, TypeOK
  <2>3. CASE Watchdog
    BY <2>3 DEF Watchdog, Leaves
  <2>4. CASE SkipDigit
    BY <2>4 DEF SkipDigit, Leaves
  <2> QED
    BY <1>4, <2>1, <2>2, <2>3, <2>4
<1>5. CASE \E p \in Reqs : WriteFails(p) \/ PublishFails(p) \/ LeaveAiFails(p) \/ HangupFails(p)
  BY <1>5, BrokenContract, SwallowedContract
<1>6. CASE WriteFails(Main)
  <2>1. Main \in Procs /\ Main \notin Reqs /\ Reqs \subseteq Procs
    BY DEF Procs
  <2>2. pc[Main] \notin {"waiting", "reaping"} /\ pc[Main] \in MainLabels
    BY <1>6 DEF WriteFails, PlacesInv
  <2>3. PICK l \in {"closing_failed", "raising"} : Goto(Main, l)
    BY <1>6, <2>1 DEF WriteFails
  <2>4. pc'[Main] = l /\ \A q \in Reqs : pc'[q] = pc[q]
    BY <2>1, <2>3, GotoPlace
  <2>5. \A q \in Reqs : write'[q] = write[q]
    BY <1>6, <2>1 DEF WriteFails, TypeOK
  <2>6. faults' # 0
    BY <1>6 DEF WriteFails, TypeOK
  <2>7. current' = current
    BY <1>6, <2>1 DEF WriteFails
  <2>8. {"closing_failed", "raising"} \subseteq MainLabels \ {"waiting"}
    BY DEF MainLabels
  <2>9. pc'[Main] \in MainLabels \ {"waiting"}
    BY <2>4, <2>8
  <2>10. UNCHANGED <<status, rows, task, muted, heard, skip, bridged, world>>
    BY <1>6 DEF WriteFails
  <2>11. \A q \in Reqs : pc[q] # "cancelling"
    BY <2>2 DEF PlacesInv
  <2> QED
    BY <2>2, <2>3, <2>4, <2>5, <2>6, <2>7, <2>9, <2>10, <2>11 DEF MainRun
<1>7. CASE UNCHANGED vars
  BY <1>7 DEF vars, Leaves
<1> QED
  BY <1>1, <1>2, <1>3, <1>4, <1>5, <1>6, <1>7 DEF Next, Environment, Procs

\* What a step of a transfer does to places and writes.
LEMMA RunPlaces ==
  ASSUME TypeOK, NEW p \in Reqs, Run(p)
  PROVE  /\ pc'[p] \in After(pc[p])
         /\ \A q \in Procs \ {p} : pc'[q] = pc[q] /\ write'[q] = write[q]
         /\ pc'[Main] = pc[Main] /\ write'[Main] = write[Main]
<1>p. p \in Procs /\ Main \in Procs \ {p}
  BY DEF Procs
<1>1. PICK l \in After(pc[p]) : Goto(p, l)
  BY DEF Run, Moves
<1>2. pc'[p] = l /\ \A q \in Procs \ {p} : pc'[q] = pc[q]
  BY <1>p, <1>1, GotoPlace
<1>3. \A q \in Procs \ {p} : write'[q] = write[q]
  BY DEF Run, Moves, Send, TypeOK
<1> QED
  BY <1>p, <1>1, <1>2, <1>3

\* A landing write belongs to a coroutine that awaits it, and moves nobody.
LEMMA LandPlaces ==
  ASSUME TypeOK, PlacesInv, NEW p \in Procs, Commit(p) \/ Settle(p)
  PROVE  /\ ~Idle(p)
         /\ pc[Main] \in {"waiting", "reaping"} => p \in Reqs
         /\ \A q \in Procs \ {p} : write'[q] = write[q]
         /\ UNCHANGED <<pc, task, faults, bridged, skip, current, audio, world>>
<1>1. ~Idle(p) /\ UNCHANGED <<pc, task, faults, bridged, skip, current, audio, world>>
  BY DEF Commit, Settle, engine, run
<1>2. \A q \in Procs \ {p} : write'[q] = write[q]
  BY DEF Commit, Settle, TypeOK
<1>3. pc[Main] \in {"waiting", "reaping"} => p # Main
  BY <1>1 DEF PlacesInv
<1> QED
  BY <1>1, <1>2, <1>3 DEF Procs

LEMMA PlacesStep ==
  ASSUME TypeOK, PlacesInv, [Next]_vars
  PROVE  PlacesInv'
<1>p. Reqs \subseteq Procs /\ Main \in Procs /\ Main \notin Reqs
  BY DEF Procs
<1>1. ASSUME NEW p \in Reqs, Run(p) PROVE PlacesInv'
  <2>1. \A l : After(l) \subseteq Finished \cup RequestLabels \cup RunLabels
    BY DEF After, Finished, RequestLabels, RunLabels
  <2>2. /\ pc'[p] \in After(pc[p]) /\ pc'[Main] = pc[Main] /\ write'[Main] = write[Main]
        /\ \A q \in Procs \ {p} : pc'[q] = pc[q]
    BY <1>1, RunPlaces
  <2>3. ended => ended'
    BY <1>1 DEF Run, People
  <2>4. "cancelling" \notin Finished \cup RequestLabels \cup RunLabels
    BY DEF Finished, RequestLabels, RunLabels
  <2> QED
    BY <1>p, <2>1, <2>2, <2>3, <2>4 DEF PlacesInv, Idle
<1>2. CASE MainRun
  <2>1. \A q \in Reqs : /\ pc'[q] \in {pc[q], "cancelling", "cancelled"}
                        /\ pc'[q] = "cancelling" => pc'[Main] = "reaping"
    BY <1>2 DEF MainRun
  <2>2. /\ pc'[Main] \in MainLabels /\ pc'[Main] # "waiting" /\ ended'
        /\ pc'[Main] = "reaping" => write'[Main] = NoWrite
    BY <1>2 DEF MainRun, PlacesInv, world
  <2> QED
    BY <2>1, <2>2 DEF PlacesInv, Finished, Idle
<1>3. ASSUME NEW p \in Reqs, Broken(p) PROVE PlacesInv'
  <2>1. /\ pc'[p] \in {"failing", "dead"} /\ pc'[Main] = pc[Main] /\ write'[Main] = write[Main]
        /\ ended' = ended
        /\ \A q \in Reqs : q # p => pc'[q] = pc[q]
    BY <1>3, <1>p DEF Broken, world
  <2> QED
    BY <2>1 DEF PlacesInv, Finished, RunLabels, Idle
<1>4. ASSUME NEW p \in Reqs, Swallowed(p) PROVE PlacesInv'
  <2>1. /\ pc'[p] \in {"flagging", "to_completed"} /\ pc'[Main] = pc[Main] /\ write'[Main] = write[Main]
        /\ ended' = ended
        /\ \A q \in Reqs : q # p => pc'[q] = pc[q]
    BY <1>4, <1>p DEF Swallowed
  <2> QED
    BY <2>1 DEF PlacesInv, RunLabels, Idle
<1>5. ASSUME NEW p \in Procs, Commit(p) \/ Settle(p) PROVE PlacesInv'
  <2>1. /\ UNCHANGED <<pc, world>>
        /\ pc[Main] \in {"waiting", "reaping"} => p \in Reqs
        /\ \A q \in Procs \ {p} : write'[q] = write[q]
    BY <1>5, LandPlaces
  <2>2. pc[Main] \in {"waiting", "reaping"} => write'[Main] = write[Main]
    BY <1>p, <2>1
  <2> QED
    BY <2>1, <2>2 DEF PlacesInv, Idle, world
<1>6. CASE Leaves
  BY <1>6 DEF Leaves, PlacesInv, Idle
<1> QED
  BY <1>1, <1>2, <1>3, <1>4, <1>5, <1>6, StepCases

LEMMA PlacesInit == Init => PlacesInv
<1> SUFFICES ASSUME Init PROVE PlacesInv
  OBVIOUS
<1>1. pc[Main] = "waiting" /\ \A p \in Reqs : pc[p] = "idle"
  BY DEF Init, Procs
<1>2. write[Main] = NoWrite
  BY DEF Init, Procs
<1> QED
  BY <1>1, <1>2 DEF PlacesInv, Finished, MainLabels, Idle

-----------------------------------------------------------------------------
(* The promise of a transfer *)

\* The labels of a transfer from the moment the caller is on hold to the bridge.
OnHold ==
  {"to_dialing", "redialing", "dialing", "answered", "to_whispering", "whispering", "briefed"}

\* The awaits between the last moment on hold and the flag.
Joining == {"bridging", "unmuting", "joining", "leaving_ai", "flagging"}

\* Whoever is being transferred is on hold, unless the call ended or another transfer got
\* as far as the hand-over; and nobody awaits a write on the last steps to the bridge.
HoldInv ==
  /\ ~caller => ended
  /\ \A p \in Reqs :
       /\ pc[p] \in OnHold \cup {"bridging", "unmuting"} => muted \/ ended \/ bridged \/ HandingOver
       /\ pc[p] \in Joining => Idle(p)

\* What a step may do to the caller's side.
CallerSide ==
  /\ ended => ended'
  /\ bridged => bridged'
  /\ bridged' => bridged \/ HandingOver
  /\ HandingOver => HandingOver' \/ bridged' \/ ended'
  /\ HandingOver' => HandingOver \/ bridged \/ ended \/ muted
  /\ muted /\ ~muted' => HandingOver'

LEMMA CallerSideStep ==
  ASSUME TypeOK, PlacesInv, HoldInv, [Next]_vars
  PROVE  CallerSide
<1>p. Reqs \subseteq Procs /\ Main \in Procs /\ Main \notin Reqs
  BY DEF Procs
<1>1. ASSUME NEW p \in Reqs, Run(p) PROVE CallerSide
  <2>1. /\ ended => ended'
        /\ bridged' = (bridged \/ pc[p] = "flagging")
    BY <1>1 DEF Run, People
  <2>2. pc'[p] \in After(pc[p]) /\ \A q \in Reqs : q # p => pc'[q] = pc[q]
    BY <1>1, <1>p, RunPlaces
  <2>3. bridged' => bridged \/ HandingOver
    BY <2>1 DEF HandingOver
  <2>4. pc[p] \in {"joining", "leaving_ai"} => pc'[p] \in {"leaving_ai", "flagging"}
    BY <2>2 DEF After
  <2>5. HandingOver => HandingOver' \/ bridged'
    BY <2>1, <2>2, <2>4 DEF HandingOver
  <2>6. pc'[p] \in {"joining", "leaving_ai", "flagging"} => pc[p] \in {"unmuting", "joining", "leaving_ai"}
    BY <2>2 DEF After
  <2>7. HandingOver' => HandingOver \/ bridged \/ ended \/ muted
    BY <2>2, <2>6 DEF HandingOver, HoldInv
  <2>8. muted /\ ~muted' => pc[p] = "unmuting"
    BY <1>1 DEF Run, Sounds
  <2>9. pc[p] = "unmuting" => pc'[p] = "joining"
    BY <2>2 DEF After
  <2>10. muted /\ ~muted' => HandingOver'
    BY <2>8, <2>9 DEF HandingOver
  <2> QED
    BY <2>1, <2>3, <2>5, <2>7, <2>10 DEF CallerSide
<1>2. CASE MainRun
  <2>1. ended /\ UNCHANGED <<ended, bridged, muted>>
    BY <1>2 DEF MainRun, PlacesInv, world
  <2> QED
    BY <2>1 DEF CallerSide
<1>3. ASSUME NEW p \in Reqs, Broken(p) PROVE CallerSide
  <2>1. /\ UNCHANGED <<ended, bridged, muted>> /\ pc'[p] \in {"failing", "dead"}
        /\ \A q \in Reqs : q # p => pc'[q] = pc[q]
    BY <1>3, <1>p DEF Broken, world
  <2>2. pc[p] \notin {"joining", "leaving_ai", "flagging"}
    BY <1>3 DEF Broken, HoldInv, Joining
  <2>3. HandingOver' <=> HandingOver
    BY <2>1, <2>2 DEF HandingOver
  <2> QED
    BY <2>1, <2>3 DEF CallerSide
<1>4. ASSUME NEW p \in Reqs, Swallowed(p) PROVE CallerSide
  <2>1. /\ UNCHANGED <<ended, bridged, muted>>
        /\ \A q \in Reqs : q # p => pc'[q] = pc[q]
        /\ \/ pc[p] = "leaving_ai" /\ pc'[p] = "flagging"
           \/ pc[p] = "hanging_up" /\ pc'[p] = "to_completed"
    BY <1>4, <1>p DEF Swallowed
  <2>2. HandingOver' <=> HandingOver
    BY <2>1 DEF HandingOver
  <2> QED
    BY <2>1, <2>2 DEF CallerSide
<1>5. ASSUME NEW p \in Procs, Commit(p) \/ Settle(p) PROVE CallerSide
  <2>1. UNCHANGED <<pc, bridged, audio, world>>
    BY <1>5, LandPlaces
  <2> QED
    BY <2>1 DEF CallerSide, HandingOver, audio, world
<1>6. CASE Leaves
  BY <1>6 DEF Leaves, CallerSide, HandingOver
<1> QED
  BY <1>1, <1>2, <1>3, <1>4, <1>5, <1>6, StepCases

LEMMA HoldStep ==
  ASSUME TypeOK, PlacesInv, HoldInv, [Next]_vars
  PROVE  HoldInv'
<1>p. Reqs \subseteq Procs /\ Main \in Procs /\ Main \notin Reqs
  BY DEF Procs
<1> DEFINE Held == muted \/ ended \/ bridged \/ HandingOver
<1>0. Held => Held'
  BY CallerSideStep DEF CallerSide
<1>1. ASSUME NEW p \in Reqs, Run(p) PROVE HoldInv'
  <2>1. /\ pc'[p] \in After(pc[p])
        /\ \A q \in Reqs : q # p => pc'[q] = pc[q] /\ write'[q] = write[q]
    BY <1>1, <1>p, RunPlaces
  <2>2. caller' = caller /\ (ended => ended')
    BY <1>1 DEF Run, People
  <2>3. ASSUME pc'[p] \in OnHold \cup {"bridging", "unmuting"} PROVE Held'
    <3>1. pc[p] = "announcing" \/ pc[p] \in OnHold \cup {"bridging"}
      BY <2>1, <2>3 DEF After, OnHold
    <3>2. CASE pc[p] = "announcing"
      <4>1. muted' = (muted \/ caller)
        BY <1>1, <3>2 DEF Run, Sounds
      <4> QED
        BY <2>2, <4>1 DEF HoldInv
    <3>3. CASE pc[p] \in OnHold \cup {"bridging"}
      BY <1>0, <3>3 DEF HoldInv
    <3> QED
      BY <3>1, <3>2, <3>3
  <2>4. ASSUME pc'[p] \in Joining PROVE write'[p] = NoWrite
    <3>1. pc[p] # "idle"
      BY <2>1, <2>4 DEF After, Joining
    <3>2. Idle(p) /\ write' = write
      BY <1>1, <2>4, <3>1 DEF Run, Moves, Dials, Joining
    <3> QED
      BY <3>2 DEF Idle
  <2> QED
    BY <1>0, <2>1, <2>2, <2>3, <2>4 DEF HoldInv, Idle
<1>2. CASE MainRun
  <2>1. /\ UNCHANGED <<caller, ended>> /\ ended
        /\ \A q \in Reqs : \/ pc'[q] \in {pc[q], "cancelling"} /\ write'[q] = write[q]
                           \/ pc'[q] = "cancelled"
    BY <1>2 DEF MainRun, PlacesInv, world
  <2> QED
    BY <2>1 DEF HoldInv, Joining, Idle
<1>3. ASSUME NEW p \in Reqs, Broken(p) PROVE HoldInv'
  <2>1. /\ UNCHANGED <<caller, ended>> /\ pc'[p] \in {"failing", "dead"}
        /\ \A q \in Reqs : q # p => pc'[q] = pc[q] /\ write'[q] = write[q]
    BY <1>3, <1>p DEF Broken, world
  <2> QED
    BY <1>0, <2>1 DEF HoldInv, OnHold, Joining, Idle
<1>4. ASSUME NEW p \in Reqs, Swallowed(p) PROVE HoldInv'
  <2>1. /\ UNCHANGED <<caller, ended, write>> /\ pc'[p] \in {"flagging", "to_completed"} /\ Idle(p)
        /\ \A q \in Reqs : q # p => pc'[q] = pc[q]
    BY <1>4, <1>p DEF Swallowed
  <2> QED
    BY <1>0, <2>1 DEF HoldInv, OnHold, Idle
<1>5. ASSUME NEW p \in Procs, Commit(p) \/ Settle(p) PROVE HoldInv'
  <2>1. UNCHANGED <<pc, audio, world>> /\ ~Idle(p) /\ \A q \in Procs \ {p} : write'[q] = write[q]
    BY <1>5, LandPlaces
  <2>2. \A q \in Reqs : Idle(q) => Idle(q)'
    BY <1>p, <2>1 DEF Idle
  <2> QED
    BY <1>0, <2>1, <2>2 DEF HoldInv, world
<1>6. CASE Leaves
  <2>1. UNCHANGED <<pc, write>> /\ (~caller' => ended')
    BY <1>6 DEF Leaves, HoldInv, TypeOK
  <2> QED
    BY <1>0, <2>1 DEF HoldInv, Idle
<1> QED
  BY <1>1, <1>2, <1>3, <1>4, <1>5, <1>6, StepCases

LEMMA HoldInit == Init => HoldInv
<1> SUFFICES ASSUME Init PROVE HoldInv
  OBVIOUS
<1>1. \A p \in Reqs : pc[p] = "idle"
  BY DEF Init, Procs
<1> QED
  BY <1>1 DEF Init, HoldInv, OnHold, Joining

LEMMA PromiseStep ==
  ASSUME TypeOK, CallerSide, TypeOK'
  PROVE  [Promise!Next]_CallerPhase
<1>1. CASE ended
  BY <1>1 DEF CallerSide, CallerPhase
<1>2. CASE ~ended /\ ended'
  BY <1>2 DEF CallerPhase, Promise!Next, Promise!EndCall
<1>3. CASE ~ended /\ ~ended' /\ bridged
  BY <1>3 DEF CallerSide, CallerPhase
<1>4. CASE ~ended /\ ~ended' /\ ~bridged /\ HandingOver
  BY <1>4 DEF CallerSide, CallerPhase, Promise!Next, Promise!ReachAgent
<1>5. CASE ~ended /\ ~ended' /\ ~bridged /\ ~HandingOver /\ muted
  BY <1>5 DEF CallerSide, CallerPhase, Promise!Next, Promise!HandOver
<1>6. CASE ~ended /\ ~ended' /\ ~bridged /\ ~HandingOver /\ ~muted
  BY <1>6 DEF CallerSide, CallerPhase, Promise!Next, Promise!PutOnHold
<1> QED
  BY <1>1, <1>2, <1>3, <1>4, <1>5, <1>6

\* TR-2, TR-4, TR-8: whatever overlaps or fails, a caller put on hold goes on to the agent,
\* through the moment in which the AI has not been left yet, or the call ends; never back to
\* the AI alone: the safety half of the promise, for any number of transfer_call executions.
THEOREM PromiseKept == Spec => Promise!Init /\ [][Promise!Next]_CallerPhase
<1> DEFINE PInv == TypeOK /\ PlacesInv /\ HoldInv
<1>1. Init => PInv
  BY TypeInit, PlacesInit, HoldInit
<1>2. PInv /\ [Next]_vars => PInv'
  BY TypeStep, PlacesStep, HoldStep
<1>3. Init => Promise!Init
  <2> SUFFICES ASSUME Init PROVE Promise!Init
    OBVIOUS
  <2>1. ~HandingOver
    BY DEF Init, HandingOver, Procs
  <2> QED
    BY <2>1 DEF Init, Promise!Init, CallerPhase
<1>4. PInv /\ [Next]_vars => [Promise!Next]_CallerPhase
  <2> SUFFICES ASSUME PInv, [Next]_vars PROVE [Promise!Next]_CallerPhase
    OBVIOUS
  <2>1. TypeOK' /\ CallerSide
    BY TypeStep, CallerSideStep
  <2> QED
    BY <2>1, PromiseStep
<1> QED
  BY <1>1, <1>2, <1>3, <1>4, PTL DEF Spec

-----------------------------------------------------------------------------
(* One transfer on the call *)

\* aclose knows the task of a transfer that runs, or that ended with a write in flight.
TaskInv ==
  \A p \in Reqs :
    /\ pc[p] \in RunLabels \cup {"done"} => task = p
    /\ pc[p] \in {"idle", "refused", "dead", "cancelled"} => Idle(p)

LEMMA TaskStep ==
  ASSUME NEW r, Reqs = {r}, TypeOK, PlacesInv, TaskInv, [Next]_vars
  PROVE  TaskInv'
<1>p. r \in Procs /\ r # Main /\ r \in Reqs
  BY DEF Procs
<1>1. CASE Run(r)
  <2>1. /\ pc'[r] \in After(pc[r])
        /\ task' = IF pc[r] = "to_spawn" THEN r ELSE task
        /\ pc'[r] \in {"refused", "dead"} => write' = write
        /\ pc[r] # "idle" => Idle(r)
    BY <1>1, RunPlaces DEF Run, Moves
  <2>2. Idle(r)
    BY <1>p, <2>1 DEF TaskInv
  <2>3. pc'[r] \notin {"idle", "cancelled"}
    BY <2>1 DEF After
  <2>4. pc'[r] \in RunLabels \cup {"done"} => pc[r] \in RunLabels \cup {"to_spawn"}
    BY <2>1 DEF After, RunLabels
  <2>5. pc'[r] \in RunLabels \cup {"done"} => task' = r
    BY <1>p, <2>1, <2>4 DEF TaskInv, RunLabels
  <2> QED
    BY <2>1, <2>2, <2>3, <2>5 DEF TaskInv, Idle
<1>2. CASE MainRun
  <2>1. \/ pc'[r] \in {pc[r], "cancelling"} /\ write'[r] = write[r]
        \/ pc'[r] = "cancelled" /\ write'[r] = NoWrite
    BY <1>2, <1>p DEF MainRun
  <2>2. task' = task
    BY <1>2 DEF MainRun
  <2> QED
    BY <2>1, <2>2 DEF TaskInv, Idle, RunLabels
<1>3. CASE Broken(r)
  <2>1. /\ pc'[r] \in {"failing", "dead"} /\ write'[r] = NoWrite /\ task' = task
        /\ pc'[r] = "failing" => ~Requesting(r) /\ (~Idle(r) \/ pc[r] \in {"announcing", "apologising", "whispering", "unmuting"})
        /\ ~Idle(r) => pc[r] # "cancelling"
    BY <1>3 DEF Broken
  <2>2. pc[r] \in Finished \cup {"cancelling"} \cup RequestLabels \cup RunLabels
    BY <1>p DEF PlacesInv
  <2>3. pc'[r] = "failing" => pc[r] \in RunLabels \cup {"done"}
    BY <1>p, <2>1, <2>2 DEF TaskInv, Requesting, Finished, RequestLabels, RunLabels
  <2> QED
    BY <1>p, <2>1, <2>3 DEF TaskInv, Idle, RunLabels
<1>4. ASSUME NEW p \in Procs, Commit(p) \/ Settle(p) PROVE TaskInv'
  <2>1. UNCHANGED <<pc, task>> /\ ~Idle(p) /\ \A q \in Procs \ {p} : write'[q] = write[q]
    BY <1>4, LandPlaces
  <2>2. p = r => pc[r] \notin {"idle", "refused", "dead", "cancelled"}
    BY <1>p, <2>1 DEF TaskInv
  <2>3. p # r => write'[r] = write[r]
    BY <1>p, <2>1
  <2> QED
    BY <2>1, <2>2, <2>3 DEF TaskInv, Idle
<1>5. CASE Leaves
  BY <1>5 DEF Leaves, TaskInv, Idle
<1>6. CASE Swallowed(r)
  <2>1. /\ pc[r] \in RunLabels /\ pc'[r] \in RunLabels /\ task' = task
    BY <1>6 DEF Swallowed, RunLabels
  <2>2. pc'[r] \notin {"idle", "refused", "dead", "cancelled"}
    BY <1>6 DEF Swallowed
  <2> QED
    BY <1>p, <2>1, <2>2 DEF TaskInv
<1> QED
  BY <1>1, <1>2, <1>3, <1>4, <1>5, <1>6, StepCases

LEMMA TaskInit == Init => TaskInv
<1> SUFFICES ASSUME Init PROVE TaskInv
  OBVIOUS
<1>1. \A p \in Reqs : pc[p] = "idle" /\ write[p] = NoWrite
  BY DEF Init, Procs
<1> QED
  BY <1>1 DEF TaskInv, Idle, RunLabels

\* The step in which aclose cancels the task, or finds nothing to cancel.
LEMMA CloseCancels ==
  ASSUME TypeOK, PlacesInv, TaskInv, [Next]_vars,
         pc[Main] \in {"closing", "closing_failed"}, pc'[Main] \in {"reaping", "over"}
  PROVE  \A p \in Reqs : pc'[p] \in Finished \cup {"cancelling"} \/ Requesting(p)
<1> USE DEF engine, rows, run, audio, world
<1>p. Main \in Procs /\ Main \notin Reqs /\ Reqs \subseteq Procs
  BY DEF Procs
<1>1. ASSUME NEW l, Goto(Main, l) PROVE l \in {"reaping", "over"}
  BY <1>1, <1>p, GotoPlace
<1>2. MainClose
  <2>1. ~(\E p \in Reqs : RequestBegin(p) \/ RunStep(p))
    BY RunContract, RunPlaces
  <2>2. ~(\E p \in Reqs : WriteFails(p) \/ PublishFails(p) \/ LeaveAiFails(p) \/ HangupFails(p))
    BY <1>p, BrokenContract, SwallowedContract DEF Broken, Swallowed
  <2>3. ~WriteFails(Main)
    <3> SUFFICES ASSUME WriteFails(Main) PROVE FALSE
      OBVIOUS
    <3>1. Goto(Main, "closing_failed") \/ Goto(Main, "raising")
      BY <1>p DEF WriteFails
    <3> QED
      BY <1>1, <3>1
  <2>4. ~(\E p \in Procs : WriteStep(p))
    BY DEF WriteStep, Commit, Settle
  <2>5. ~(CallerLeaves \/ HumanLeaves \/ Watchdog \/ SkipDigit)
    BY DEF CallerLeaves, HumanLeaves, Watchdog, SkipDigit
  <2>6. ~MainAbandon /\ ~MainHush /\ ~MainReap
    BY DEF MainAbandon, MainHush, MainReap
  <2>7. ~MainComplete /\ ~MainFail
    BY DEF MainComplete, MainFail
  <2>8. ~UNCHANGED vars
    BY DEF vars
  <2>9. ~(\E p \in Reqs : Unwind(p))
    BY DEF PlacesInv, Unwind
  <2> QED
    BY <2>1, <2>2, <2>3, <2>4, <2>5, <2>6, <2>7, <2>8, <2>9 DEF Next, MainStep, Environment, Procs
<1> SUFFICES ASSUME NEW p \in Reqs PROVE pc'[p] \in Finished \cup {"cancelling"} \/ Requesting(p)
  OBVIOUS
<1>3. pc[p] \in Finished \cup {"cancelling"} \cup RequestLabels \cup RunLabels
  BY DEF PlacesInv
<1>4. CASE pc[p] \in Finished \cup {"cancelling"}
  <2>1. pc'[p] \in {pc[p], "cancelling", "cancelled"}
    BY <1>2, MainContract DEF MainStep, MainRun
  <2> QED
    BY <1>4, <2>1 DEF Finished
<1>5. CASE pc[p] \in RequestLabels
  BY <1>5 DEF RequestLabels, Requesting
<1>6. CASE pc[p] \in RunLabels
  <2>1. task = p /\ task # NoTask /\ Running(task)
    BY <1>6 DEF TaskInv, RunLabels, Finished, Running
  <2>2. pc' = [pc EXCEPT ![Main] = "reaping", ![task] = "cancelling"]
    BY <1>2, <2>1 DEF MainClose
  <2>3. pc'[p] = "cancelling"
    BY <1>p, <2>1, <2>2 DEF TypeOK
  <2> QED
    BY <2>3
<1> QED
  BY <1>3, <1>4, <1>5, <1>6

\* aclose cancels the task of the call's transfer wherever it awaits, and _run_call ends
\* only when that task is gone, fault or no fault.
THEOREM ClosedMeansStopped ==
  ASSUME NEW r, Reqs = {r}
  PROVE  Spec => NothingAfterClose
<1> DEFINE TInv == TypeOK /\ PlacesInv /\ TaskInv
<1>1. Init => TInv
  BY TypeInit, PlacesInit, TaskInit
<1>2. TInv /\ [Next]_vars => TInv'
  BY TypeStep, PlacesStep, TaskStep
<1>3. TInv /\ [Next]_vars =>
        [/\ pc[Main] \in {"closing", "closing_failed"} /\ pc'[Main] \in {"reaping", "over"} =>
              \A p \in Reqs : pc'[p] \in Finished \cup {"cancelling"} \/ Requesting(p)
         /\ pc[Main] # "over" /\ pc'[Main] = "over" =>
              \A p \in Reqs : pc'[p] # "cancelling"]_vars
  <2> SUFFICES ASSUME TInv, [Next]_vars
      PROVE  /\ pc[Main] \in {"closing", "closing_failed"} /\ pc'[Main] \in {"reaping", "over"} =>
                   \A p \in Reqs : pc'[p] \in Finished \cup {"cancelling"} \/ Requesting(p)
             /\ pc[Main] # "over" /\ pc'[Main] = "over" => \A p \in Reqs : pc'[p] # "cancelling"
    OBVIOUS
  <2>1. PlacesInv'
    BY PlacesStep
  <2> QED
    BY <2>1, CloseCancels DEF PlacesInv
<1> QED
  BY <1>1, <1>2, <1>3, PTL DEF Spec, NothingAfterClose

-----------------------------------------------------------------------------
(* The row of one transfer *)

\* Until the end of the call the row is as the engine remembers it, or the write that
\* makes it so is on its way and legal.
RowInv ==
  pc[Main] = "waiting" =>
    \A p \in Reqs : LET w == write[p] IN
      /\ w.col = "none" => Idle(p)
      /\ IF w.col = "status" /\ w.committed THEN rowStatus = w.value ELSE rowStatus = status
      /\ w.col = "status" /\ ~w.committed => w.value \in TransferStatusTransitions[status]
      /\ w.col = "patch" => w.value = status

LEMMA RowStep ==
  ASSUME NEW r, Reqs = {r}, TypeOK, PlacesInv, TaskInv, RowInv, [Next]_vars
  PROVE  RowInv'
<1>p. r \in Procs /\ r # Main /\ r \in Reqs
  BY DEF Procs
<1>w. write \in [Procs -> Writes]
  BY DEF TypeOK
<1>1. CASE Run(r)
  <2>1. /\ pc'[Main] = pc[Main] /\ UNCHANGED <<status, rows>>
        /\ pc[r] # "idle" => Idle(r)
    BY <1>1, RunPlaces DEF Run, Moves
  <2>2. Idle(r)
    BY <1>p, <2>1 DEF TaskInv
  <2>3. pc[Main] = "waiting" => rowStatus = status
    BY <1>p, <2>2 DEF RowInv, Idle, NoWrite
  <2>4. \/ write' = write
        \/ \E s \in CallStates : Send(r, "state", s)
        \/ Send(r, "patch", status)
        \/ \E s \in TransferStatuses : LegalStatus(s) /\ Send(r, "status", s)
    BY <1>1 DEF Run, Moves
  <2>5. \/ write'[r] = write[r]
        \/ \E s : write'[r] = [col |-> "state", value |-> s, committed |-> FALSE]
        \/ write'[r] = [col |-> "patch", value |-> status, committed |-> FALSE]
        \/ \E s : LegalStatus(s) /\ write'[r] = [col |-> "status", value |-> s, committed |-> FALSE]
    BY <1>p, <1>w, <2>4 DEF Send
  <2>6. pc'[Main] = "waiting" => rowStatus' = status' /\ status' = status
    BY <2>1, <2>3 DEF rows
  <2>7. CASE write'[r] = write[r]
    BY <2>2, <2>6, <2>7 DEF RowInv, Idle, NoWrite
  <2>8. CASE \E s : write'[r] = [col |-> "state", value |-> s, committed |-> FALSE]
    BY <2>6, <2>8 DEF RowInv
  <2>9. CASE write'[r] = [col |-> "patch", value |-> status, committed |-> FALSE]
    BY <2>6, <2>9 DEF RowInv
  <2>10. CASE \E s : LegalStatus(s) /\ write'[r] = [col |-> "status", value |-> s, committed |-> FALSE]
    BY <2>6, <2>10 DEF RowInv, LegalStatus
  <2> QED
    BY <2>5, <2>7, <2>8, <2>9, <2>10
<1>2. CASE MainRun
  BY <1>2 DEF MainRun, RowInv
<1>3. CASE Broken(r)
  <2>1. /\ pc'[Main] = pc[Main] /\ UNCHANGED <<status, rows>>
        /\ ~write[r].committed /\ write'[r] = NoWrite
    BY <1>3, <1>p DEF Broken, Procs
  <2> QED
    BY <2>1 DEF RowInv, Idle, NoWrite, rows
<1>4. ASSUME NEW p \in Procs, Commit(p) PROVE RowInv'
  <2> SUFFICES ASSUME pc[Main] = "waiting" PROVE RowInv'
    BY <1>4 DEF Commit, RowInv
  <2>1. p = r /\ pc' = pc /\ status' = status
    BY <1>4, LandPlaces DEF Commit, engine
  <2>2. ~write[r].committed /\ ~Idle(r) /\ rowStatus = status
    BY <1>4, <1>p, <2>1 DEF Commit, RowInv
  <2>3. CASE write[r].col = "patch"
    <3>1. write'[r] = NoWrite /\ rowStatus' = write[r].value
      BY <1>4, <1>p, <1>w, <2>1, <2>3 DEF Commit
    <3>2. rowStatus' = status'
      BY <1>p, <2>1, <2>3, <3>1 DEF RowInv
    <3> QED
      BY <3>1, <3>2 DEF RowInv, Idle, NoWrite
  <2>4. CASE write[r].col # "patch"
    <3>1. write'[r] = [write[r] EXCEPT !.committed = TRUE]
      BY <1>4, <1>p, <1>w, <2>1, <2>4 DEF Commit
    <3>2. write[r] \in Writes
      BY <1>p, <1>w
    <3>3. write'[r].col = write[r].col /\ write'[r].value = write[r].value /\ write'[r].committed
      BY <3>1, <3>2 DEF Writes
    <3>4. write[r].col # "none"
      BY <1>p, <2>2 DEF RowInv
    <3>5. rowStatus' = IF write[r].col = "state" THEN rowStatus ELSE write[r].value
      BY <1>4, <2>1 DEF Commit
    <3>6. write[r].col \in {"status", "state"}
      BY <2>4, <3>2, <3>4 DEF Writes
    <3> QED
      BY <2>1, <2>2, <3>3, <3>5, <3>6 DEF RowInv
  <2> QED
    BY <2>3, <2>4
<1>5. ASSUME NEW p \in Procs, Settle(p) PROVE RowInv'
  <2> SUFFICES ASSUME pc[Main] = "waiting" PROVE RowInv'
    BY <1>5 DEF Settle, RowInv
  <2>1. p = r /\ pc' = pc /\ rowStatus' = rowStatus
    BY <1>5, LandPlaces DEF Settle, rows
  <2>2. write'[r] = NoWrite /\ write[r].committed /\ ~Idle(r)
    BY <1>5, <1>p, <1>w, <2>1 DEF Settle
  <2>3. status' = IF write[r].col = "state" THEN status ELSE write[r].value
    BY <1>5, <2>1 DEF Settle
  <2>4. write[r].col \in {"status", "patch", "state"}
    BY <1>p, <1>w, <2>2 DEF RowInv, Writes
  <2>5. rowStatus' = status'
    BY <1>p, <2>1, <2>2, <2>3, <2>4 DEF RowInv
  <2> QED
    BY <2>2, <2>5 DEF RowInv, Idle, NoWrite
<1>6. CASE Leaves
  BY <1>6 DEF Leaves, RowInv, Idle, rows
<1>7. CASE Swallowed(r)
  <2>1. pc'[Main] = pc[Main] /\ UNCHANGED <<status, rows, write>>
    BY <1>7, <1>p DEF Swallowed, Procs
  <2> QED
    BY <2>1 DEF RowInv, Idle, rows
<1> QED
  BY <1>1, <1>2, <1>3, <1>4, <1>5, <1>6, <1>7, StepCases

LEMMA RowInit == Init => RowInv
<1> SUFFICES ASSUME Init PROVE RowInv
  OBVIOUS
<1>1. \A p \in Reqs : write[p] = NoWrite
  BY DEF Init, Procs
<1>2. rowStatus = status
  BY DEF Init
<1> QED
  BY <1>1, <1>2 DEF RowInv, Idle, NoWrite

\* Only a write that lands moves the row, and until the end of the call it is legal.
LEMMA RowMoves ==
  ASSUME NEW r, Reqs = {r}, TypeOK, PlacesInv, RowInv, [Next]_vars,
         pc[Main] = "waiting", rowStatus' # rowStatus
  PROVE  rowStatus' \in TransferStatusTransitions[rowStatus]
<1>1. ASSUME NEW p \in Procs, Commit(p)
      PROVE  rowStatus' \in TransferStatusTransitions[rowStatus]
  <2>1. p = r /\ p \in Reqs
    BY <1>1, LandPlaces
  <2>2. write[r].col # "state" /\ rowStatus' = write[r].value /\ ~write[r].committed /\ ~Idle(r)
    BY <1>1, <2>1 DEF Commit
  <2>3. write[r] \in Writes
    BY <1>1, <2>1 DEF TypeOK
  <2>4. write[r].col \in {"status", "patch"} /\ rowStatus = status
    BY <2>1, <2>2, <2>3 DEF RowInv, Writes
  <2> QED
    BY <2>1, <2>2, <2>4 DEF RowInv
<1>2. ~(\E p \in Procs : Settle(p))
  BY DEF Settle, rows
<1>3. ~(\E p \in Reqs : Run(p)) /\ ~MainRun /\ ~(\E p \in Reqs : Broken(p) \/ Swallowed(p)) /\ ~Leaves
  BY DEF Run, Moves, MainRun, Broken, Swallowed, Leaves, rows
<1> QED
  BY <1>1, <1>2, <1>3, StepCases

\* Until the end of the call, calls.transfer_status of the call's transfer only moves
\* along TRANSFER_STATUS_TRANSITIONS, whichever write fails.
THEOREM RowMovesLegally ==
  ASSUME NEW r, Reqs = {r}
  PROVE  Spec => RowStatusLegal
<1> DEFINE WInv == TypeOK /\ PlacesInv /\ TaskInv /\ RowInv
<1>1. Init => WInv
  BY TypeInit, PlacesInit, TaskInit, RowInit
<1>2. WInv /\ [Next]_vars => WInv'
  BY TypeStep, PlacesStep, TaskStep, RowStep
<1>3. WInv /\ [Next]_vars =>
        [pc[Main] = "waiting" => rowStatus' \in TransferStatusTransitions[rowStatus]]_rowStatus
  BY RowMoves
<1> QED
  BY <1>1, <1>2, <1>3, PTL DEF Spec, RowStatusLegal

-----------------------------------------------------------------------------
(* Hanging up on one transfer *)

\* The labels at which a transfer that counts as bridged may stand.
Past ==
  {"to_human_agent", "done", "failing", "apologising", "hanging_up", "to_completed", "dead",
   "cancelling", "cancelled"}

\* The call ends because a leg is gone or the bridge stood.  The bridge is reached with
\* the status that lets it be recorded; so, unless something fails, the engine is about to
\* give up a bridged call only when somebody has left.
HangUpInv ==
  /\ ended => ~caller \/ ~room \/ bridged
  /\ bridged => \A p \in Reqs : pc[p] \in Past
  /\ \A p \in Reqs :
       /\ pc[p] \in {"whispering", "briefed"} \cup Joining /\ pc[Main] = "waiting" =>
            IF Idle(p) THEN status = "WHISPERING_SUMMARY"
                       ELSE write[p].col = "status" /\ write[p].value = "WHISPERING_SUMMARY"
       /\ bridged /\ faults = 0 /\ pc[p] \in {"failing", "apologising", "hanging_up"} =>
            ~caller \/ ~human \/ ~room

LEMMA HangUpStep ==
  ASSUME NEW r, Reqs = {r}, TypeOK, PlacesInv, TaskInv, HangUpInv, [Next]_vars
  PROVE  HangUpInv'
<1>p. r \in Procs /\ r # Main /\ r \in Reqs
  BY DEF Procs
<1>w. write \in [Procs -> Writes]
  BY DEF TypeOK
<1>1. CASE Run(r)
  <2>1. /\ pc'[r] \in After(pc[r]) /\ pc'[Main] = pc[Main] /\ status' = status /\ faults' = faults
        /\ Idle(r)
    BY <1>1, <1>p, RunPlaces DEF Run, Moves, TaskInv
  <2>2. /\ caller' = caller
        /\ pc[r] # "dialing" => human' = human
        /\ IF pc[r] = "hanging_up" THEN ~room' /\ ended' ELSE UNCHANGED <<room, ended>>
        /\ bridged' = (bridged \/ pc[r] = "flagging")
    BY <1>1 DEF Run, People
  <2>3. ended' => ~caller' \/ ~room' \/ bridged'
    BY <2>2 DEF HangUpInv
  <2>4. bridged' => pc'[r] \in Past
    <3>1. pc[r] \in Past \cup {"flagging"} => pc'[r] \in Past
      BY <2>1 DEF After, Past
    <3> QED
      BY <1>p, <2>2, <3>1 DEF HangUpInv
  <2>5. ASSUME pc'[r] \in {"whispering", "briefed"} \cup Joining, pc[Main] = "waiting"
        PROVE  IF write'[r] = NoWrite THEN status' = "WHISPERING_SUMMARY"
               ELSE write'[r].col = "status" /\ write'[r].value = "WHISPERING_SUMMARY"
    <3>1. CASE pc'[r] \in {"whispering", "briefed"}
      <4>1. pc[r] = "to_whispering"
        BY <2>1, <3>1 DEF After
      <4>2. Send(r, "status", "WHISPERING_SUMMARY")
        BY <1>1, <3>1, <4>1 DEF Run, Dials
      <4>3. write'[r] = [col |-> "status", value |-> "WHISPERING_SUMMARY", committed |-> FALSE]
        BY <1>p, <1>w, <4>2 DEF Send
      <4> QED
        BY <4>3 DEF NoWrite
    <3>2. CASE pc'[r] \in Joining
      <4>1. pc[r] \in {"whispering", "briefed"} \cup Joining
        BY <2>1, <3>2 DEF After, Joining
      <4>2. write' = write
        BY <1>1, <3>2 DEF Run, Dials, Joining
      <4> QED
        BY <1>p, <2>1, <2>5, <4>1, <4>2 DEF HangUpInv, Idle
    <3> QED
      BY <2>5, <3>1, <3>2
  <2>6. ASSUME bridged', faults' = 0, pc'[r] \in {"failing", "apologising", "hanging_up"}
        PROVE  ~caller' \/ ~human' \/ ~room'
    <3>1. CASE bridged
      <4>1. pc[r] \in {"failing", "apologising"}
        BY <1>p, <2>1, <2>6, <3>1 DEF HangUpInv, After, Past
      <4> QED
        BY <1>p, <2>1, <2>2, <2>6, <3>1, <4>1 DEF HangUpInv
    <3>2. CASE ~bridged
      <4>1. pc[r] = "flagging"
        BY <2>2, <2>6, <3>2
      <4>2. status # "WHISPERING_SUMMARY"
        BY <1>1, <2>6, <4>1 DEF Run, Dials
      <4>3. pc[Main] # "waiting"
        BY <1>p, <2>1, <4>1, <4>2 DEF HangUpInv, Joining
      <4>4. ~caller \/ ~room
        BY <3>2, <4>3 DEF PlacesInv, HangUpInv
      <4> QED
        BY <2>2, <4>1, <4>4
    <3> QED
      BY <3>1, <3>2
  <2> QED
    BY <2>1, <2>3, <2>4, <2>5, <2>6 DEF HangUpInv, Idle
<1>2. CASE MainRun
  <2>1. pc'[r] \in {pc[r], "cancelling", "cancelled"}
    BY <1>2, <1>p DEF MainRun
  <2>2. /\ UNCHANGED <<bridged, ended, caller, human, room>> /\ pc'[Main] # "waiting"
        /\ faults' = 0 => faults = 0
    BY <1>2 DEF MainRun, world
  <2> QED
    BY <2>1, <2>2 DEF HangUpInv, Past
<1>3. CASE Broken(r)
  <2>1. /\ pc'[r] \in {"failing", "dead"} /\ faults' # 0
        /\ UNCHANGED <<bridged, ended, caller, human, room>>
    BY <1>3 DEF Broken, world
  <2> QED
    BY <2>1 DEF HangUpInv, Past, Joining
<1>4. ASSUME NEW p \in Procs, Commit(p) \/ Settle(p) PROVE HangUpInv'
  <2>1. /\ UNCHANGED <<pc, faults, bridged, ended, caller, human, room>>
        /\ pc[Main] = "waiting" => p = r
        /\ ~Idle(p)
    BY <1>4, LandPlaces DEF world
  <2>2. ASSUME pc[r] \in {"whispering", "briefed"} \cup Joining, pc[Main] = "waiting"
        PROVE  IF write'[r] = NoWrite THEN status' = "WHISPERING_SUMMARY"
               ELSE write'[r].col = "status" /\ write'[r].value = "WHISPERING_SUMMARY"
    <3>1. p = r /\ write[r].col = "status" /\ write[r].value = "WHISPERING_SUMMARY"
      BY <1>p, <2>1, <2>2 DEF HangUpInv
    <3>2. CASE Commit(p)
      <4>1. write'[r] = [write[r] EXCEPT !.committed = TRUE]
        BY <1>p, <1>w, <3>1, <3>2 DEF Commit
      <4>2. write[r] \in Writes
        BY <1>p, <1>w
      <4>3. write'[r].col = "status" /\ write'[r].value = "WHISPERING_SUMMARY"
        BY <3>1, <4>1, <4>2 DEF Writes
      <4> QED
        BY <4>3 DEF NoWrite
    <3>3. CASE Settle(p)
      <4>1. write'[r] = NoWrite /\ status' = "WHISPERING_SUMMARY"
        BY <1>p, <1>w, <3>1, <3>3 DEF Settle
      <4> QED
        BY <4>1
    <3> QED
      BY <1>4, <3>2, <3>3
  <2> QED
    BY <2>1, <2>2 DEF HangUpInv, Idle
<1>5. CASE Leaves
  <2>1. /\ (caller' => caller) /\ (human' => human) /\ (room' => room) /\ (ended => ended')
        /\ ended' => ended \/ ~caller' \/ bridged
        /\ UNCHANGED <<pc, write, status, faults, bridged>>
    BY <1>5 DEF Leaves
  <2> QED
    BY <2>1 DEF HangUpInv, Idle
<1>6. CASE Swallowed(r)
  <2>1. /\ pc'[Main] = pc[Main] /\ UNCHANGED <<status, write, bridged, ended, caller, human, room>>
        /\ faults' # 0 /\ Idle(r)
        /\ \/ pc[r] = "leaving_ai" /\ pc'[r] = "flagging"
           \/ pc[r] = "hanging_up" /\ pc'[r] = "to_completed"
    BY <1>6, <1>p DEF Swallowed, Procs
  <2>2. pc'[r] \in {"whispering", "briefed"} \cup Joining => pc[r] \in Joining
    BY <2>1 DEF Joining
  <2>3. bridged => pc'[r] \in Past
    BY <1>p, <2>1 DEF HangUpInv, Past
  <2> QED
    BY <1>p, <2>1, <2>2, <2>3 DEF HangUpInv, Idle
<1> QED
  BY <1>1, <1>2, <1>3, <1>4, <1>5, <1>6, StepCases

LEMMA HangUpInit == Init => HangUpInv
<1> SUFFICES ASSUME Init PROVE HangUpInv
  OBVIOUS
<1>1. \A p \in Reqs : pc[p] = "idle"
  BY DEF Init, Procs
<1>2. ~ended /\ ~bridged
  BY DEF Init
<1> QED
  BY <1>1, <1>2 DEF HangUpInv, Joining

LEMMA HangUpCases ==
  ASSUME NEW r, Reqs = {r}, TypeOK, PlacesInv, HangUpInv, [Next]_vars,
         faults = 0, bridged, caller, human, room, ~room'
  PROVE  ~caller'
<1>1. CASE Run(r)
  <2>1. pc[r] = "hanging_up"
    BY <1>1 DEF Run, People
  <2> QED
    BY <2>1 DEF HangUpInv
<1>2. ~MainRun /\ ~Broken(r) /\ ~Swallowed(r)
  BY DEF MainRun, Broken, Swallowed, world
<1>3. ~(\E p \in Procs : Commit(p) \/ Settle(p))
  BY LandPlaces DEF world
<1>4. CASE Leaves
  BY <1>4 DEF Leaves
<1> QED
  BY <1>1, <1>2, <1>3, <1>4, StepCases

\* TR-8: as long as no write and no call of the room fails, the worker never closes the room on
\* a caller who is talking to the agent; only the watchdog does, with both legs.
THEOREM BridgedStaysConnected ==
  ASSUME NEW r, Reqs = {r}
  PROVE  Spec => ConnectedNotHungUp
<1> DEFINE UInv == TypeOK /\ PlacesInv /\ TaskInv /\ HangUpInv
<1>1. Init => UInv
  BY TypeInit, PlacesInit, TaskInit, HangUpInit
<1>2. UInv /\ [Next]_vars => UInv'
  BY TypeStep, PlacesStep, TaskStep, HangUpStep
<1>3. UInv /\ [Next]_vars =>
        [(faults = 0 /\ bridged /\ caller /\ human /\ room /\ ~room') => ~caller']_vars
  BY HangUpCases
<1> QED
  BY <1>1, <1>2, <1>3, PTL DEF Spec, ConnectedNotHungUp

-----------------------------------------------------------------------------
(* The agent is prepared *)

\* One transfer: the track of the hold loop is published while the caller waits.
LoopInv == \A p \in Reqs : pc[p] \in OnHold /\ pc[Main] = "waiting" => hold = "published"

\* The agent is prepared: they heard the summary, or skipped it, or need none.
Prepared(p) == heard \/ skip = "agent" \/ current[p] \in DestSet \ Whispered

BriefInv ==
  /\ skip # "caller"
  /\ \A p \in Reqs :
       /\ pc[p] \in RequestLabels \cup RunLabels \cup {"done"} => current[p] \in DestSet
       /\ pc[p] = "briefed" => current[p] \notin Whispered
       /\ pc[p] \in Joining => Prepared(p)
  /\ bridged => \E p \in Reqs : pc[p] \in Past /\ Prepared(p)

LEMMA LoopStep ==
  ASSUME NEW r, Reqs = {r}, TypeOK, PlacesInv, LoopInv, [Next]_vars
  PROVE  LoopInv'
<1>p. r \in Procs /\ r # Main /\ r \in Reqs
  BY DEF Procs
<1>1. CASE Run(r)
  <2>1. pc'[r] \in After(pc[r]) /\ pc'[Main] = pc[Main]
    BY <1>1, RunPlaces
  <2>2. pc'[r] \in OnHold => pc[r] = "announcing" \/ pc[r] \in OnHold
    BY <2>1 DEF After, OnHold
  <2>3. pc[r] = "announcing" => hold' = "published"
    BY <1>1 DEF Run, Sounds
  <2>4. pc[r] \in OnHold => hold' = hold
    BY <1>1 DEF Run, Sounds, OnHold
  <2> QED
    BY <1>p, <2>1, <2>2, <2>3, <2>4 DEF LoopInv
<1>2. CASE MainRun
  BY <1>2 DEF MainRun, LoopInv
<1>3. CASE Broken(r)
  BY <1>3 DEF Broken, LoopInv, OnHold
<1>4. ASSUME NEW p \in Procs, Commit(p) \/ Settle(p) PROVE LoopInv'
  BY <1>4, LandPlaces DEF LoopInv, audio
<1>5. CASE Leaves
  BY <1>5 DEF Leaves, LoopInv
<1>6. CASE Swallowed(r)
  BY <1>6 DEF Swallowed, LoopInv, OnHold
<1> QED
  BY <1>1, <1>2, <1>3, <1>4, <1>5, <1>6, StepCases

LEMMA BriefStep ==
  ASSUME NEW r, Reqs = {r}, "caller_dtmf" \notin Disturbances, "tts_fails" \notin Disturbances,
         TypeOK, PlacesInv, TaskInv, BriefInv, [Next]_vars
  PROVE  BriefInv'
<1>p. r \in Procs /\ r # Main /\ r \in Reqs
  BY DEF Procs
<1>1. CASE Run(r)
  <2>1. pc'[r] \in After(pc[r])
    BY <1>1, RunPlaces
  <2>2. skip' = skip /\ (heard => heard') /\ bridged' = (bridged \/ pc[r] = "flagging")
    BY <1>1 DEF Run, Sounds, People
  <2>3. pc'[r] \in RequestLabels \cup RunLabels \cup {"done"} => current'[r] \in DestSet
    <3>1. pc'[r] \in RequestLabels \cup RunLabels \cup {"done"} =>
            pc[r] \in RequestLabels \cup RunLabels \/ pc'[r] = "to_transferring"
      BY <2>1 DEF After, RequestLabels, RunLabels
    <3>2. pc[r] \notin {"idle", "dialing"} => current'[r] = current[r]
      BY <1>1, <1>p DEF Run, Dials
    <3>3. pc[r] = "dialing" => current'[r] = current[r] \/ current'[r] \in DestSet
      BY <1>1 DEF Run, Dials
    <3>4. pc'[r] = "to_transferring" => current'[r] \in DestSet
      BY <1>1 DEF Run, Dials
    <3>5. "idle" \notin RequestLabels \cup RunLabels
      BY DEF RequestLabels, RunLabels
    <3> QED
      BY <1>p, <3>1, <3>2, <3>3, <3>4, <3>5 DEF BriefInv
  <2>4. ASSUME Prepared(r), pc[r] \notin {"idle", "dialing"} PROVE Prepared(r)'
    <3>1. current'[r] = current[r]
      BY <1>1, <1>p, <2>4 DEF Run, Dials
    <3> QED
      BY <2>2, <2>4, <3>1 DEF Prepared
  <2>5. pc'[r] = "briefed" => current'[r] \notin Whispered
    <3>1. pc'[r] = "briefed" => pc[r] = "to_whispering"
      BY <2>1 DEF After
    <3>2. pc'[r] = "briefed" => current[r] \notin Whispered /\ current'[r] = current[r]
      BY <1>1, <1>p, <3>1 DEF Run, Dials
    <3> QED
      BY <3>2
  <2>6. ASSUME pc'[r] \in Joining PROVE Prepared(r)'
    <3>1. /\ pc[r] \in {"whispering", "briefed"} \cup Joining
          /\ pc[r] = "whispering" => pc'[r] = "bridging"
      BY <2>1, <2>6 DEF After, Joining
    <3>2. CASE pc[r] = "whispering"
      <4>1. heard' \/ skip # "nobody"
        BY <1>1, <3>1, <3>2 DEF Run, Sounds
      <4>2. heard' \/ skip' = "agent"
        BY <2>2, <4>1 DEF BriefInv, TypeOK
      <4> QED
        BY <4>2 DEF Prepared
    <3>3. CASE pc[r] = "briefed"
      <4>1. current[r] \in DestSet \ Whispered
        BY <1>p, <3>3 DEF BriefInv, RunLabels
      <4> QED
        BY <2>4, <3>3, <4>1 DEF Prepared
    <3>4. CASE pc[r] \in Joining
      BY <1>p, <2>4, <3>4 DEF BriefInv, Joining
    <3> QED
      BY <3>1, <3>2, <3>3, <3>4
  <2>7. ASSUME bridged' PROVE pc'[r] \in Past /\ Prepared(r)'
    <3>1. pc[r] \in Past \cup {"flagging"} /\ Prepared(r)
      BY <1>p, <2>2, <2>7 DEF BriefInv, Joining
    <3>2. pc'[r] \in Past
      BY <2>1, <3>1 DEF After, Past
    <3>3. pc[r] \notin {"idle", "dialing"}
      BY <3>1 DEF Past
    <3> QED
      BY <2>4, <3>1, <3>2, <3>3
  <2> QED
    BY <1>p, <2>2, <2>3, <2>5, <2>6, <2>7 DEF BriefInv
<1>2. CASE MainRun
  <2>1. pc'[r] \in {pc[r], "cancelling", "cancelled"}
    BY <1>2, <1>p DEF MainRun
  <2>2. UNCHANGED <<bridged, heard, skip, current>>
    BY <1>2 DEF MainRun
  <2>3. /\ {"cancelling", "cancelled"} \cap (RequestLabels \cup RunLabels \cup {"done"} \cup Joining) = {}
        /\ {"cancelling", "cancelled"} \subseteq Past
    BY DEF RequestLabels, RunLabels, Past, Joining
  <2> QED
    BY <2>1, <2>2, <2>3 DEF BriefInv, Prepared
<1>3. CASE Broken(r)
  <2>1. /\ pc'[r] \in {"failing", "dead"} /\ UNCHANGED <<bridged, heard, skip, current>>
        /\ pc'[r] = "failing" => ~Requesting(r) /\ (~Idle(r) \/ pc[r] \in {"announcing", "apologising", "whispering", "unmuting"})
        /\ ~Idle(r) => pc[r] # "cancelling"
    BY <1>3 DEF Broken
  <2>2. pc[r] \in Finished \cup {"cancelling"} \cup RequestLabels \cup RunLabels
    BY <1>p DEF PlacesInv
  <2>3. pc'[r] = "failing" => pc[r] \in RunLabels \cup {"done"}
    BY <1>p, <2>1, <2>2 DEF TaskInv, Requesting, Finished, RequestLabels, RunLabels
  <2>4. /\ {"failing", "dead"} \subseteq Past /\ "dead" \notin RequestLabels \cup RunLabels \cup {"done"}
        /\ {"failing", "dead"} \cap Joining = {}
    BY DEF Past, RequestLabels, RunLabels, Joining
  <2> QED
    BY <2>1, <2>3, <2>4 DEF BriefInv, Prepared
<1>4. ASSUME NEW p \in Procs, Commit(p) \/ Settle(p) PROVE BriefInv'
  <2>1. UNCHANGED <<pc, bridged, skip, current, heard>>
    BY <1>4, LandPlaces DEF audio
  <2> QED
    BY <2>1 DEF BriefInv, Prepared
<1>5. CASE Leaves
  <2>1. /\ skip' = skip \/ (skip = "nobody" /\ skip' = "agent")
        /\ UNCHANGED <<pc, bridged, heard, current>>
    BY <1>5 DEF Leaves
  <2> QED
    BY <2>1 DEF BriefInv, Prepared
<1>6. CASE Swallowed(r)
  <2>1. /\ UNCHANGED <<bridged, heard, skip, current>>
        /\ \/ pc[r] = "leaving_ai" /\ pc'[r] = "flagging"
           \/ pc[r] = "hanging_up" /\ pc'[r] = "to_completed"
    BY <1>6 DEF Swallowed
  <2>2. pc[r] \in RunLabels /\ pc'[r] \notin {"briefed"}
    BY <2>1 DEF RunLabels
  <2>3. pc'[r] \in Joining => pc[r] \in Joining
    BY <2>1 DEF Joining
  <2>4. pc[r] \in Past => pc'[r] \in Past
    BY <2>1 DEF Past
  <2> QED
    BY <1>p, <2>1, <2>2, <2>3, <2>4 DEF BriefInv, Prepared
<1> QED
  BY <1>1, <1>2, <1>3, <1>4, <1>5, <1>6, StepCases

\* TR-4, TR-5: while the caller waits the track of the hold loop stays published, and the legs are
\* bridged only with an agent who heard the summary, skipped it or needs none.  As the
\* engine looks at the digit and not at who pressed it, and play() swallows a synthesis
\* that breaks off, it holds of calls in which neither happens.
THEOREM BridgeIsPrepared ==
  ASSUME NEW r, Reqs = {r}, "caller_dtmf" \notin Disturbances, "tts_fails" \notin Disturbances
  PROVE  Spec => []PreparedBridge
<1> DEFINE GInv == TypeOK /\ PlacesInv /\ TaskInv /\ LoopInv /\ BriefInv
<1>1. Init => GInv
  <2> SUFFICES ASSUME Init PROVE LoopInv /\ BriefInv
    BY TypeInit, PlacesInit, TaskInit
  <2>1. \A p \in Reqs : pc[p] = "idle"
    BY DEF Init, Procs
  <2>2. skip = "nobody" /\ ~bridged
    BY DEF Init
  <2> QED
    BY <2>1, <2>2 DEF LoopInv, BriefInv, OnHold, RequestLabels, RunLabels, Joining
<1>2. GInv /\ [Next]_vars => GInv'
  BY TypeStep, PlacesStep, TaskStep, LoopStep, BriefStep
<1>3. GInv => PreparedBridge
  BY DEF LoopInv, BriefInv, Prepared, OnHold, PreparedBridge
<1> QED
  BY <1>1, <1>2, <1>3, PTL DEF Spec
=============================================================================
