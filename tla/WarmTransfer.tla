----------------------------- MODULE WarmTransfer -----------------------------
(***************************************************************************)
(* One call's warm transfer: the engine (worker/transfer/engine.py), the   *)
(* call-state tracker it writes through (worker/call_state.py) and the end *)
(* of the call in worker/entrypoint.py, which runs beside it.              *)
(*                                                                         *)
(* All of them are coroutines of one event loop, so a step runs to its     *)
(* next await.  The awaits that matter are kept apart: a status write      *)
(* CHECKS the in-memory status, then COMMITS to PostgreSQL, then SETTLES   *)
(* the in-memory copy, and any other coroutine may run in between.         *)
(*                                                                         *)
(* A process p \in Reqs is one execution of the transfer_call tool and the *)
(* _run task it spawns; Main is _run_call from the moment the conversation *)
(* is in progress and _wait_for_disconnect is listening.                   *)
(***************************************************************************)
EXTENDS CallEnums, Naturals, Sequences

CONSTANTS
  Reqs,            \* executions of the transfer_call tool on this call
  Main,            \* the coroutine of _run_call
  Destinations,    \* the tenant's active destinations, in name order
  Whispered,       \* the destinations with whisper_summary set
  FallbackAction,  \* routing_rules.fallback_action, "NONE" when absent
  FallbackId,      \* its destination_id (possibly no longer active), or NoDest
  NoDest, NoTask,
  Disturbances,    \* what callers, agents and phones may do (see below)
  MaxFaults        \* bound: failed database writes and calls of the room or the session

AllDisturbances ==
  {"caller_leaves",       \* the caller hangs up
   "caller_dtmf",         \* the caller presses the skip digit
   "agent_dtmf",          \* the human agent presses the skip digit
   "agent_leaves",        \* the human agent hangs up
   "tts_fails",           \* synthesis breaks off, which play() swallows
   "ringing_leg_leaves",  \* a leg that never answered was in the room, and left
   "watchdog"}            \* max_call_duration_seconds deletes the room

DestSet == {Destinations[i] : i \in 1..Len(Destinations)}

ASSUME TransferAssumption ==
  /\ Main \notin Reqs
  /\ Destinations \in Seq(DestSet)
  /\ Destinations # <<>>
  /\ NoDest \notin DestSet
  /\ NoTask \notin Reqs
  /\ Whispered \subseteq DestSet
  /\ FallbackAction \in {"NONE", "SECONDARY_AGENT", "PBX_QUEUE", "VOICEMAIL", "HANGUP"}
  /\ Disturbances \subseteq AllDisturbances
  /\ MaxFaults \in Nat

Procs == Reqs \cup {Main}

VARIABLES
  status,     \* WarmTransfer._status
  rowStatus,  \* calls.transfer_status
  callState,  \* CallStateTracker._state
  rowState,   \* calls.state
  pc,         \* where each coroutine stands; a label is entered once its write landed
  write,      \* the database write each coroutine is awaiting
  current,    \* _run: the destination being tried
  tried,      \* _run: destinations already dialled
  failure,    \* _fail's arguments: the status and whether the plan hangs up
  handling,   \* _run is in its `except Exception` handler
  task,       \* WarmTransfer._task
  abandoned, humanLeft, bridged,  \* WarmTransfer's events and flag
  skip,       \* _skip: who pressed the digit ("nobody" while unset)
  hold,       \* the caller's track: "published" with its hold loop, or "spoken" by _fail
  muted,      \* the caller may only subscribe to the track _start_hold published
  ai,         \* the AgentSession: "open", "closed", or "failed" when its close was swallowed
  heard,      \* the summary was played to the end of its time
  room,       \* the worker is connected to the room
  caller, human,  \* the leg is in the room
  ended,      \* _wait_for_disconnect's future is resolved
  stranded,   \* _hangup could not leave the room, and went on
  faults      \* faults so far

engine == <<status, task, abandoned, humanLeft, bridged, skip>>
rows   == <<rowStatus, rowState>>
run    == <<current, tried, failure, handling>>
audio  == <<hold, muted, ai, heard>>
world  == <<room, caller, human, ended, stranded>>
vars   == <<engine, rows, callState, pc, write, run, audio, world, faults>>

-----------------------------------------------------------------------------
(* Database writes *)

NoWrite == [col |-> "none", value |-> "NOT_REQUESTED", committed |-> FALSE]

Writes ==
  [col : {"none", "status", "patch"}, value : TransferStatuses, committed : BOOLEAN]
    \cup [col : {"state"}, value : CallStates, committed : BOOLEAN]

Idle(p) == write[p] = NoWrite

Goto(p, label) == pc' = [pc EXCEPT ![p] = label]

Send(p, col, value) ==
  write' = [write EXCEPT ![p] = [col |-> col, value |-> value, committed |-> FALSE]]

\* _advance / tracker.transition: the legality check reads memory, the write is awaited.
LegalStatus(to) == to \in TransferStatusTransitions[status]
LegalState(to)  == to \in CallStateTransitions[callState]

\* UPDATE calls ... WHERE id = :id: nothing in the row's current value is tested.
Commit(p) ==
  /\ ~Idle(p) /\ ~write[p].committed
  /\ IF write[p].col = "state"
     THEN rowState' = write[p].value /\ UNCHANGED rowStatus
     ELSE rowStatus' = write[p].value /\ UNCHANGED rowState
  /\ write' = [write EXCEPT ![p] =
                 IF write[p].col = "patch" THEN NoWrite ELSE [@ EXCEPT !.committed = TRUE]]
  /\ UNCHANGED <<engine, callState, pc, run, audio, world, faults>>

\* self._status = to_status / self._state = to_state, after the await, which a cancelled
\* coroutine never reaches.
Settle(p) ==
  /\ ~Idle(p) /\ write[p].committed /\ pc[p] # "cancelling"
  /\ IF write[p].col = "state"
     THEN callState' = write[p].value /\ UNCHANGED status
     ELSE status' = write[p].value /\ UNCHANGED callState
  /\ write' = [write EXCEPT ![p] = NoWrite]
  /\ UNCHANGED <<task, abandoned, humanLeft, bridged, skip, rows, pc, run, audio, world, faults>>

-----------------------------------------------------------------------------
(* plan_fallback *)

\* resolve_destination(destination_id=...): by id, else the first active one.
ResolveId(d) == IF d \in DestSet THEN d ELSE Destinations[1]

\* The untried destination plan_fallback offers to dial next; NoDest is a hang-up.
PlanFallback(alreadyTried) ==
  IF /\ FallbackAction \in {"PBX_QUEUE", "VOICEMAIL"}
     /\ FallbackId # NoDest
     /\ ResolveId(FallbackId) \notin alreadyTried
  THEN ResolveId(FallbackId)
  ELSE NoDest

\* Enter _fail with the status to record and plan_fallback's verdict.  A plan with a
\* destination never hangs up, and _fail itself never dials.
Fail(p, trigger, alreadyTried) ==
  /\ failure' = [failure EXCEPT ![p] = [status |-> trigger, hangup |-> PlanFallback(alreadyTried) = NoDest]]
  /\ Goto(p, "failing")

\* An exception inside _run: the handler records FAILED; one inside the handler
\* ends the task.
Raise(p) ==
  IF handling[p]
  THEN Goto(p, "dead") /\ UNCHANGED run
  ELSE /\ Fail(p, "FAILED", tried[p])
       /\ handling' = [handling EXCEPT ![p] = TRUE]
       /\ UNCHANGED <<current, tried>>

\* _advance(to) from a _run step: illegal raises.
AdvanceOrRaise(p, to, label) ==
  IF LegalStatus(to)
  THEN Send(p, "status", to) /\ Goto(p, label) /\ UNCHANGED run
  ELSE Raise(p) /\ UNCHANGED write

\* tracker.transition(to) where IllegalTransitionError is swallowed.
TransitionOrSkip(p, to, label) ==
  /\ Goto(p, label)
  /\ IF LegalState(to) THEN Send(p, "state", to) ELSE UNCHANGED write

-----------------------------------------------------------------------------
(* WarmTransfer.request *)

\* The window in which transfer_call has begun and its task does not exist yet.
Requesting(p) == pc[p] \in {"to_transferring", "to_spawn"}

RequestBegin(p) ==
  /\ pc[p] = "idle" /\ ai # "closed" /\ pc[Main] \notin {"reaping", "over"}
  /\ IF status # "NOT_REQUESTED"
     THEN Goto(p, "refused") /\ UNCHANGED <<write, current>>
     ELSE \E d \in DestSet :
            /\ current' = [current EXCEPT ![p] = d]
            /\ Send(p, "status", "REQUESTED")
            /\ Goto(p, "to_transferring")
  /\ UNCHANGED <<engine, rows, callState, tried, failure, handling, audio, world, faults>>

RequestTransferring(p) ==
  /\ pc[p] = "to_transferring" /\ Idle(p)
  /\ TransitionOrSkip(p, "TRANSFERRING", "to_spawn")
  /\ UNCHANGED <<engine, rows, callState, run, audio, world, faults>>

RequestSpawn(p) ==
  /\ pc[p] = "to_spawn" /\ Idle(p)
  /\ task' = p
  /\ Goto(p, "to_announcing")
  /\ UNCHANGED <<status, abandoned, humanLeft, bridged, skip, rows, callState, write, run, audio, world, faults>>

-----------------------------------------------------------------------------
(* WarmTransfer._run *)

RunAnnouncing(p) ==
  /\ pc[p] = "to_announcing" /\ Idle(p)
  /\ AdvanceOrRaise(p, "ANNOUNCING", "announcing")
  /\ UNCHANGED <<engine, rows, callState, audio, world, faults>>

\* _announce, then _start_hold: the hold track is published, the caller restricted to it.
RunAnnounce(p) ==
  /\ pc[p] = "announcing" /\ Idle(p)
  /\ hold' = "published"
  /\ muted' = (muted \/ caller)
  /\ Goto(p, "to_dialing")
  /\ UNCHANGED <<engine, rows, callState, write, run, ai, heard, world, faults>>

RunDialing(p) ==
  /\ Idle(p)
  /\ tried' = [tried EXCEPT ![p] = @ \cup {current[p]}]
  /\ \/ /\ pc[p] = "to_dialing" /\ LegalStatus("DIALING_AGENT")
        /\ Send(p, "status", "DIALING_AGENT")
        /\ Goto(p, "dialing")
        /\ UNCHANGED <<failure, handling>>
     \/ /\ pc[p] = "to_dialing" /\ ~LegalStatus("DIALING_AGENT")
        /\ Fail(p, "FAILED", tried'[p])
        /\ handling' = [handling EXCEPT ![p] = TRUE]
        /\ UNCHANGED write
     \/ /\ pc[p] = "redialing"
        /\ Send(p, "patch", status)
        /\ Goto(p, "dialing")
        /\ UNCHANGED <<failure, handling>>
  /\ UNCHANGED <<engine, rows, callState, current, audio, world, faults>>

DialAnswered(p) ==
  /\ pc[p] = "dialing" /\ Idle(p)
  /\ human' = TRUE
  /\ Goto(p, "answered")
  /\ UNCHANGED <<engine, rows, callState, write, run, audio, room, caller, ended, stranded, faults>>

\* map_sip_error names the outcome; a queue or voicemail not tried yet is dialled next.
DialFailed(p) ==
  /\ pc[p] = "dialing" /\ Idle(p)
  /\ LET next == PlanFallback(tried[p])
     IN IF next # NoDest
        THEN /\ current' = [current EXCEPT ![p] = next]
             /\ Goto(p, "redialing")
             /\ UNCHANGED failure
        ELSE /\ \E trigger \in TransferFallbackTriggers : Fail(p, trigger, tried[p])
             /\ UNCHANGED current
  /\ humanLeft' \in IF "ringing_leg_leaves" \in Disturbances /\ room /\ ~bridged
                    THEN {humanLeft, TRUE} ELSE {humanLeft}
  /\ UNCHANGED <<status, task, abandoned, bridged, skip, rows, callState, write, tried, handling, audio, world, faults>>

-----------------------------------------------------------------------------
(* WarmTransfer._on_answered and _bridge *)

\* abandon() called by coroutine p, which goes on at `after`.
Abandon(p, after) ==
  IF bridged \/ status \in {"BRIDGED", "ABANDONED", "NOT_REQUESTED"}
  THEN Goto(p, after[1]) /\ UNCHANGED <<abandoned, write>>
  ELSE /\ abandoned' = TRUE
       /\ Goto(p, after[2])
       /\ IF status \in TransferCanAbandon
          THEN Send(p, "status", "ABANDONED") ELSE UNCHANGED write

RunAbandons(p) ==
  /\ Abandon(p, <<"done", "hushing">>)
  /\ UNCHANGED <<status, task, humanLeft, bridged, skip, rows, callState, run>>

\* The tail of abandon(): _stop_audio.
RunHush(p) ==
  /\ pc[p] = "hushing" /\ Idle(p)
  /\ hold' = "none"
  /\ Goto(p, "done")
  /\ UNCHANGED <<engine, rows, callState, write, run, muted, ai, heard, world, faults>>

\* isolate_remote_legs and the summary (neither fails the transfer), then
\* _persist_summary, which rewrites the status it read.
AnsweredSummary(p) ==
  /\ pc[p] = "answered" /\ Idle(p)
  /\ \/ abandoned /\ RunAbandons(p)
     \/ /\ ~abandoned
        /\ Send(p, "patch", status)
        /\ Goto(p, "to_whispering")
        /\ UNCHANGED <<engine, rows, callState, run>>
  /\ UNCHANGED <<audio, world, faults>>

\* Mutants: the whisper is left out; WHISPERING_SUMMARY is recorded only with a whisper.
AnsweredWhisperingMute(p) ==
  /\ pc[p] = "to_whispering" /\ Idle(p)
  /\ AdvanceOrRaise(p, "WHISPERING_SUMMARY", "briefed")
  /\ UNCHANGED <<engine, rows, callState, audio, world, faults>>

AnsweredWhisperingUnrecorded(p) ==
  /\ pc[p] = "to_whispering" /\ Idle(p)
  /\ IF current[p] \in Whispered
     THEN AdvanceOrRaise(p, "WHISPERING_SUMMARY", "whispering")
     ELSE Goto(p, "briefed") /\ UNCHANGED <<write, run>>
  /\ UNCHANGED <<engine, rows, callState, audio, world, faults>>

AnsweredWhispering(p) ==
  /\ pc[p] = "to_whispering" /\ Idle(p)
  /\ AdvanceOrRaise(p, "WHISPERING_SUMMARY",
                    IF current[p] \in Whispered THEN "whispering" ELSE "briefed")
  /\ UNCHANGED <<engine, rows, callState, audio, world, faults>>

\* _whisper_to_agent returns on the first of: played, skipped, agent left, abandoned.
\* An agent who left without skipping is a rejection; only this destination counts as tried.
WhisperEnds(p) ==
  /\ pc[p] = "whispering" /\ Idle(p)
  /\ heard' \in IF \/ skip # "nobody" \/ humanLeft \/ abandoned
                   \/ "tts_fails" \in Disturbances
                THEN {heard, TRUE} ELSE {TRUE}
  /\ IF humanLeft /\ skip = "nobody"
     THEN /\ Fail(p, "AGENT_REJECTED", {current[p]})
          /\ UNCHANGED <<current, tried, handling, write, engine, rows, callState>>
     ELSE IF abandoned
     THEN RunAbandons(p)
     ELSE Goto(p, "bridging") /\ UNCHANGED <<run, write, engine, rows, callState>>
  /\ UNCHANGED <<hold, muted, ai, world, faults>>

Briefed(p) ==
  /\ pc[p] = "briefed" /\ Idle(p)
  /\ IF abandoned
     THEN RunAbandons(p)
     ELSE Goto(p, "bridging") /\ UNCHANGED <<run, write, engine, rows, callState>>
  /\ UNCHANGED <<audio, world, faults>>

\* _bridge, one action per await: _stop_audio, ...
StopHold(p) ==
  /\ pc[p] = "bridging" /\ Idle(p)
  /\ hold' = "none"
  /\ Goto(p, "unmuting")
  /\ UNCHANGED <<engine, rows, callState, write, run, muted, ai, heard, world, faults>>

\* ... allow_all_local_tracks: the caller may hear every track again, the AI's too, ...
Unmute(p) ==
  /\ pc[p] = "unmuting" /\ Idle(p)
  /\ muted' = FALSE
  /\ Goto(p, "joining")
  /\ UNCHANGED <<engine, rows, callState, write, run, hold, ai, heard, world, faults>>

\* ... bridge_remote_legs, which swallows its own failures, ...
JoinLegs(p) ==
  /\ pc[p] = "joining" /\ Idle(p)
  /\ Goto(p, "leaving_ai")
  /\ UNCHANGED <<engine, rows, callState, write, run, audio, world, faults>>

\* ... and _leave_ai.
LeaveAi(p) ==
  /\ pc[p] = "leaving_ai" /\ Idle(p)
  /\ ai' = "closed"
  /\ Goto(p, "flagging")
  /\ UNCHANGED <<engine, rows, callState, write, run, hold, muted, heard, world, faults>>

\* Mutant: _bridged is not set before BRIDGED is written.
BridgeFlagLate(p) ==
  /\ pc[p] = "flagging" /\ Idle(p)
  /\ AdvanceOrRaise(p, "BRIDGED", "to_human_agent")
  /\ UNCHANGED <<engine, rows, callState, audio, world, faults>>

\* self._bridged = True, then _advance(BRIDGED).
BridgeFlag(p) ==
  /\ pc[p] = "flagging" /\ Idle(p)
  /\ bridged' = TRUE
  /\ AdvanceOrRaise(p, "BRIDGED", "to_human_agent")
  /\ UNCHANGED <<status, task, abandoned, humanLeft, skip, rows, callState, audio, world, faults>>

BridgeState(p) ==
  /\ pc[p] = "to_human_agent" /\ Idle(p)
  /\ TransitionOrSkip(p, "HUMAN_AGENT", "done")
  /\ UNCHANGED <<engine, rows, callState, run, audio, world, faults>>

-----------------------------------------------------------------------------
(* WarmTransfer._fail and _hangup *)

\* Mutant: _fail writes its status without the legality check.
FailRecordUnchecked(p) ==
  /\ pc[p] = "failing" /\ Idle(p)
  /\ Goto(p, "apologising")
  /\ Send(p, "status", failure[p].status)
  /\ UNCHANGED <<engine, rows, callState, run, audio, world, faults>>

FailRecord(p) ==
  /\ pc[p] = "failing" /\ Idle(p)
  /\ Goto(p, "apologising")
  /\ IF LegalStatus(failure[p].status)
     THEN Send(p, "status", failure[p].status) ELSE UNCHANGED write
  /\ UNCHANGED <<engine, rows, callState, run, audio, world, faults>>

\* Mutant: _fail speaks and never hangs up.
FailSpeakOnly(p) ==
  /\ pc[p] = "apologising" /\ Idle(p)
  /\ hold' = "spoken"
  /\ Goto(p, "done")
  /\ UNCHANGED <<engine, rows, callState, write, run, muted, ai, heard, world, faults>>

\* _stop_audio, then the plan's sentence on a fresh hold track.
FailSpeak(p) ==
  /\ pc[p] = "apologising" /\ Idle(p)
  /\ hold' = "spoken"
  /\ Goto(p, IF failure[p].hangup THEN "hanging_up" ELSE "done")
  /\ UNCHANGED <<engine, rows, callState, write, run, muted, ai, heard, world, faults>>

HangupRoom(p) ==
  /\ pc[p] = "hanging_up" /\ Idle(p)
  /\ room' = FALSE /\ ended' = TRUE
  /\ Goto(p, "to_completed")
  /\ UNCHANGED <<engine, rows, callState, write, run, audio, caller, human, stranded, faults>>

HangupState(p) ==
  /\ pc[p] = "to_completed" /\ Idle(p)
  /\ TransitionOrSkip(p, "COMPLETED", "done")
  /\ UNCHANGED <<engine, rows, callState, run, audio, world, faults>>

-----------------------------------------------------------------------------
(* _run_call, from _wait_for_call_end to the end of its finally block *)

MainAbandon ==
  /\ pc[Main] = "waiting" /\ ended
  /\ Abandon(Main, <<"completing", "hushing">>)
  /\ UNCHANGED <<status, task, humanLeft, bridged, skip, rows, callState, run, audio, world, faults>>

MainHush ==
  /\ pc[Main] = "hushing" /\ Idle(Main)
  /\ hold' = "none"
  /\ Goto(Main, "completing")
  /\ UNCHANGED <<engine, rows, callState, write, run, muted, ai, heard, world, faults>>

\* Mutant: the is_terminal test is missing, so a call the engine completed stalls here.
MainCompleteStrict ==
  /\ pc[Main] = "completing" /\ Idle(Main)
  /\ LegalState("COMPLETED")
  /\ Send(Main, "state", "COMPLETED")
  /\ Goto(Main, "closing")
  /\ UNCHANGED <<engine, rows, callState, run, audio, world, faults>>

MainComplete ==
  /\ pc[Main] = "completing" /\ Idle(Main)
  /\ TransitionOrSkip(Main, "COMPLETED", "closing")
  /\ UNCHANGED <<engine, rows, callState, run, audio, world, faults>>

\* The except branch: a failed write in abandon() or in the COMPLETED transition.
MainFail ==
  /\ pc[Main] = "raising" /\ Idle(Main)
  /\ TransitionOrSkip(Main, "FAILED", "closing_failed")
  /\ UNCHANGED <<engine, rows, callState, run, audio, world, faults>>

Finished == {"idle", "refused", "done", "dead", "cancelled"}

\* A coroutine in Finished whose last write has landed is a task that is done().
Running(p) == pc[p] \notin Finished \/ ~Idle(p)

\* Mutant: aclose cancels the task and does not wait for it.
MainCloseUnawaited ==
  /\ pc[Main] \in {"closing", "closing_failed"} /\ Idle(Main)
  /\ hold' = "none"
  /\ IF task # NoTask /\ Running(task)
     THEN pc' = [pc EXCEPT ![Main] = "over", ![task] = "cancelling"]
     ELSE Goto(Main, "over")
  /\ UNCHANGED <<engine, rows, callState, write, run, muted, ai, heard, world, faults>>

\* unregister_transfer, then aclose: a task that runs is cancelled and awaited.
MainClose ==
  /\ pc[Main] \in {"closing", "closing_failed"} /\ Idle(Main)
  /\ IF task # NoTask /\ Running(task)
     THEN /\ pc' = [pc EXCEPT ![Main] = "reaping", ![task] = "cancelling"]
          /\ UNCHANGED hold
     ELSE Goto(Main, "over") /\ hold' = "none"
  /\ UNCHANGED <<engine, rows, callState, write, run, muted, ai, heard, world, faults>>

\* CancelledError reaches the await of the task; the write it was in may have landed.
Unwind(p) ==
  /\ pc[p] = "cancelling"
  /\ write' = [write EXCEPT ![p] = NoWrite]
  /\ Goto(p, "cancelled")
  /\ UNCHANGED <<engine, rows, callState, run, audio, world, faults>>

\* await self._task, then _stop_audio.
MainReap ==
  /\ pc[Main] = "reaping"
  /\ ~\E p \in Reqs : pc[p] = "cancelling"
  /\ hold' = "none"
  /\ Goto(Main, "over")
  /\ UNCHANGED <<engine, rows, callState, write, run, muted, ai, heard, world, faults>>

-----------------------------------------------------------------------------
(* The caller, the human agent, the watchdog and faults *)

CallerLeaves ==
  /\ "caller_leaves" \in Disturbances
  /\ caller /\ room
  /\ caller' = FALSE /\ ended' = TRUE
  /\ UNCHANGED <<engine, rows, callState, pc, write, run, audio, room, human, stranded, faults>>

\* Both handlers of participant_disconnected: before the bridge it only sets the
\* event, after it the call is over.
HumanLeaves ==
  /\ "agent_leaves" \in Disturbances
  /\ human /\ room
  /\ human' = FALSE
  /\ humanLeft' = (humanLeft \/ ~bridged)
  /\ ended' = (ended \/ bridged)
  /\ UNCHANGED <<status, task, abandoned, bridged, skip, rows, callState, pc, write, run, audio, room, caller, stranded, faults>>

Watchdog ==
  /\ "watchdog" \in Disturbances
  /\ pc[Main] = "waiting" /\ room
  /\ room' = FALSE /\ caller' = FALSE /\ human' = FALSE /\ ended' = TRUE
  /\ UNCHANGED <<engine, rows, callState, pc, write, run, audio, stranded, faults>>

\* The handler looks at the digit only, not at who pressed it or when.
SkipDigit ==
  /\ task # NoTask /\ room /\ skip = "nobody"
  /\ \/ "caller_dtmf" \in Disturbances /\ caller /\ skip' = "caller"
     \/ "agent_dtmf" \in Disturbances /\ human /\ skip' = "agent"
  /\ UNCHANGED <<status, task, abandoned, humanLeft, bridged, rows, callState, pc, write, run, audio, world, faults>>

\* A write fails before it commits.  In request it fails the tool call; in _run it
\* raises; in _run_call it goes to the except branch, and from there to finally.
WriteFails(p) ==
  /\ faults < MaxFaults
  /\ ~Idle(p) /\ ~write[p].committed /\ pc[p] # "cancelling"
  /\ faults' = faults + 1
  /\ write' = [write EXCEPT ![p] = NoWrite]
  /\ \/ /\ p \in Reqs /\ Requesting(p) /\ Goto(p, "dead") /\ UNCHANGED run
     \/ /\ p \in Reqs /\ ~Requesting(p) /\ Raise(p)
     \/ /\ p = Main
        /\ Goto(p, IF pc[p] = "closing_failed" THEN "closing_failed" ELSE "raising")
        /\ UNCHANGED run
  /\ UNCHANGED <<engine, rows, callState, audio, world>>

\* A track cannot be published, or the room refuses a change of permissions: in
\* _announce and _start_hold, when _fail speaks, for the whisper, before the legs join.
PublishFails(p) ==
  /\ faults < MaxFaults
  /\ pc[p] \in {"announcing", "apologising", "whispering", "unmuting"} /\ Idle(p)
  /\ faults' = faults + 1
  /\ hold' \in CASE pc[p] = "announcing"  -> {"none", "published"}
                  [] pc[p] = "apologising" -> {"none"}
                  [] OTHER                 -> {hold}
  /\ Raise(p)
  /\ UNCHANGED <<engine, rows, callState, write, muted, ai, heard, world>>

\* session.aclose() fails; _leave_ai swallows it.
LeaveAiFails(p) ==
  /\ faults < MaxFaults
  /\ pc[p] = "leaving_ai" /\ Idle(p)
  /\ faults' = faults + 1
  /\ ai' = "failed"
  /\ Goto(p, "flagging")
  /\ UNCHANGED <<engine, rows, callState, write, run, hold, muted, heard, world>>

\* room.disconnect() fails; _hangup swallows it.
HangupFails(p) ==
  /\ faults < MaxFaults
  /\ pc[p] = "hanging_up" /\ Idle(p)
  /\ faults' = faults + 1
  /\ stranded' = TRUE
  /\ Goto(p, "to_completed")
  /\ UNCHANGED <<engine, rows, callState, write, run, audio, room, caller, human, ended>>

-----------------------------------------------------------------------------
Init ==
  /\ status = "NOT_REQUESTED" /\ rowStatus = "NOT_REQUESTED"
  /\ callState = "IN_PROGRESS" /\ rowState = "IN_PROGRESS"
  /\ pc = [p \in Procs |-> IF p = Main THEN "waiting" ELSE "idle"]
  /\ write = [p \in Procs |-> NoWrite]
  /\ current = [p \in Reqs |-> NoDest]
  /\ tried = [p \in Reqs |-> {}]
  /\ failure = [p \in Reqs |-> [status |-> "FAILED", hangup |-> TRUE]]
  /\ handling = [p \in Reqs |-> FALSE]
  /\ task = NoTask
  /\ abandoned = FALSE /\ humanLeft = FALSE /\ bridged = FALSE /\ skip = "nobody"
  /\ hold = "none" /\ muted = FALSE /\ ai = "open" /\ heard = FALSE
  /\ room = TRUE /\ caller = TRUE /\ human = FALSE /\ ended = FALSE /\ stranded = FALSE
  /\ faults = 0

RunStep(p) ==
  \/ RequestTransferring(p) \/ RequestSpawn(p)
  \/ RunAnnouncing(p) \/ RunAnnounce(p) \/ RunDialing(p) \/ RunHush(p)
  \/ DialAnswered(p) \/ DialFailed(p)
  \/ AnsweredSummary(p) \/ AnsweredWhispering(p) \/ WhisperEnds(p) \/ Briefed(p)
  \/ StopHold(p) \/ Unmute(p) \/ JoinLegs(p) \/ LeaveAi(p)
  \/ BridgeFlag(p) \/ BridgeState(p)
  \/ FailRecord(p) \/ FailSpeak(p) \/ HangupRoom(p) \/ HangupState(p)

MainStep ==
  MainAbandon \/ MainHush \/ MainComplete \/ MainFail \/ MainClose \/ MainReap

WriteStep(p) == Commit(p) \/ Settle(p)

Environment ==
  \/ CallerLeaves \/ HumanLeaves \/ Watchdog \/ SkipDigit
  \/ \E p \in Procs : WriteFails(p)
  \/ \E p \in Reqs : PublishFails(p) \/ LeaveAiFails(p) \/ HangupFails(p)

Next ==
  \/ \E p \in Reqs : RequestBegin(p) \/ RunStep(p) \/ Unwind(p)
  \/ MainStep
  \/ \E p \in Procs : WriteStep(p)
  \/ Environment

\* The event loop keeps running every coroutine whose await is over; a write, a dial
\* (ring timeout) and a whisper (max_seconds) end.  Nobody is obliged to hang up, to
\* ask for a transfer or to press a key.
Fairness ==
  /\ \A p \in Reqs : WF_vars(RunStep(p)) /\ WF_vars(Unwind(p))
  /\ \A p \in Procs : WF_vars(WriteStep(p))
  /\ WF_vars(MainStep)

Spec == Init /\ [][Next]_vars /\ Fairness
-----------------------------------------------------------------------------
(* Properties *)

RequestLabels == {"to_transferring", "to_spawn"}

RunLabels ==
  {"to_announcing", "announcing", "to_dialing", "redialing", "dialing", "answered",
   "to_whispering", "whispering", "briefed", "bridging", "unmuting", "joining",
   "leaving_ai", "flagging", "to_human_agent",
   "hushing", "failing", "apologising", "hanging_up", "to_completed"}

MainLabels ==
  {"waiting", "hushing", "completing", "raising", "closing", "closing_failed",
   "reaping", "over"}

Labels == Finished \cup {"cancelling"} \cup RequestLabels \cup RunLabels \cup MainLabels

\* Every variable keeps to the values its field or coroutine can take.
TypeOK ==
  /\ status \in TransferStatuses /\ rowStatus \in TransferStatuses
  /\ callState \in CallStates /\ rowState \in CallStates
  /\ pc \in [Procs -> Labels]
  /\ write \in [Procs -> Writes]
  /\ current \in [Reqs -> DestSet \cup {NoDest}]
  /\ tried \in [Reqs -> SUBSET (DestSet \cup {NoDest})]
  /\ failure \in [Reqs -> [status : TransferFallbackTriggers, hangup : BOOLEAN]]
  /\ handling \in [Reqs -> BOOLEAN]
  /\ task \in Reqs \cup {NoTask}
  /\ abandoned \in BOOLEAN /\ humanLeft \in BOOLEAN /\ bridged \in BOOLEAN
  /\ skip \in {"nobody", "caller", "agent"}
  /\ hold \in {"none", "published", "spoken"}
  /\ muted \in BOOLEAN /\ ai \in {"open", "failed", "closed"} /\ heard \in BOOLEAN
  /\ room \in BOOLEAN /\ caller \in BOOLEAN /\ human \in BOOLEAN /\ ended \in BOOLEAN /\ stranded \in BOOLEAN
  /\ faults \in 0..MaxFaults

\* TR-8: whatever overlaps or fails, calls.transfer_status says BRIDGED only once the
\* engine counts the call as bridged and has called aclose on the AI session; whether
\* that call succeeded it does not look at, so the session may still be open.
RowNeverAheadOfBridge == rowStatus = "BRIDGED" => bridged /\ ai # "open"

\* aclose cancels the task it knows wherever it awaits and returns only when that task is
\* gone; a tool call that has not created its task yet is beyond its reach.
NothingAfterClose ==
  [][/\ pc[Main] \in {"closing", "closing_failed"} /\ pc'[Main] \in {"reaping", "over"} =>
          \A p \in Reqs : pc'[p] \in Finished \cup {"cancelling"} \/ Requesting(p)
     /\ pc[Main] # "over" /\ pc'[Main] = "over" =>
          \A p \in Reqs : pc'[p] # "cancelling"]_vars

\* TR-8: unless a write failed, the worker never hangs up on a caller who is talking to
\* the agent; only the watchdog, which takes both legs out, may.
ConnectedNotHungUp ==
  [][(faults = 0 /\ bridged /\ caller /\ human /\ room /\ ~room') => ~caller']_vars

\* Until the end of the call abandons the transfer, calls.transfer_status only moves along
\* TRANSFER_STATUS_TRANSITIONS, whichever write fails.
RowStatusLegal ==
  [][pc[Main] = "waiting" => rowStatus' \in TransferStatusTransitions[rowStatus]]_rowStatus

\* The engine gives a caller up without ending the call: its task died in its own
\* exception handler, the room could not be left, or plan_fallback named a queue or
\* voicemail at a moment when nothing dials any more.
Stuck ==
  stranded \/ \E p \in Reqs : pc[p] = "dead" \/ ~failure[p].hangup

\* TR-2, TR-10: a recorded request ends in a bridge or in the end of the call, whichever
\* write, publication or permission fails once; the three ways out of it are those of Stuck.
NotLeftInSilence == rowStatus = "REQUESTED" ~> bridged \/ ended \/ Stuck

\* Once the call has ended, _run_call reaches its end: neither abandoning a transfer nor
\* awaiting the task it cancelled in any of its awaits blocks it.  On the way, unless two
\* writes failed, calls.state is written to a terminal value (which a transition that was
\* checked before and lands later may still replace).
EndedCallCloses ==
  /\ ended ~> pc[Main] = "over"
  /\ <>ended => <>(CallStateTransitions[rowState] = {} \/ faults > 1)

\* The caller hears every track again, and the engine has not left the AI yet.
HandingOver == \E p \in Reqs : pc[p] \in {"joining", "leaving_ai", "flagging"}

\* The caller's side of the state, and the promise the engine keeps: the code's phases
\* are those of TransferPromise, and nobody stays on hold for ever unless Stuck.
CallerPhase ==
  CASE ended                                           -> "over"
    [] ~ended /\ bridged                               -> "human"
    [] ~ended /\ ~bridged /\ HandingOver               -> "handover"
    [] ~ended /\ ~bridged /\ ~HandingOver /\ muted     -> "connecting"
    [] OTHER                                           -> "ai"

Promise == INSTANCE TransferPromise WITH phase <- CallerPhase, broken <- Stuck
KeepsPromise == Promise!Spec

\* TR-4, TR-5: from the announcement to the bridge the track of the hold loop stays
\* published, and the legs are bridged only after the agent heard the summary or skipped
\* it, unless the destination asks for no whisper.
PreparedBridge ==
  /\ \A p \in Reqs :
       /\ pc[p] \in {"to_dialing", "redialing", "dialing", "answered", "to_whispering", "whispering", "briefed"}
       /\ pc[Main] = "waiting" /\ ~abandoned
       => hold = "published"
  /\ bridged => \/ heard
                \/ skip = "agent"
                \/ \E p \in Reqs : current[p] \in DestSet \ Whispered
=============================================================================
