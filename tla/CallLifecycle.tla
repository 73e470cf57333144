---------------------------- MODULE CallLifecycle ----------------------------
(***************************************************************************)
(* The calls of one tenant, from the dispatch of the job to its last        *)
(* bookkeeping: worker/entrypoint.py (entrypoint, _run_call and their       *)
(* helpers) and worker/config_loader.py (CallConfigLoader.load with the     *)
(* tenant's limits, update_usage, write_recording_row).  Every call is      *)
(* a process of its own; calls meet in PostgreSQL only, one statement at    *)
(* a time.  The transfer, the observer and the filler have modules of       *)
(* their own; here a transfer is the moment at which it bridges a human.    *)
(* All calls fall on one day of the tenant; a caller is in the room when    *)
(* the job starts or never comes; a room whose job is over is left out.     *)
(***************************************************************************)
EXTENDS Naturals, FiniteSets, CallEnums

CONSTANTS
  Calls,          \* dispatched jobs
  MaxConcurrent,  \* max_concurrent_calls
  MaxDaily,       \* max_daily_calls
  Parallel,       \* bound: calls between the limit check and the insert of their row
  Watched,        \* calls whose agent has max_call_duration_seconds
  Recorded,       \* calls whose agent has recording_enabled
  Handed,         \* calls whose agent has transfer_enabled
  MaxFaults       \* bound: failures of all calls together

ASSUME CallsAssumption ==
  /\ IsFiniteSet(Calls) /\ Watched \subseteq Calls /\ Recorded \subseteq Calls
  /\ Handed \subseteq Calls
  /\ MaxConcurrent \in Nat \ {0} /\ MaxDaily \in Nat \ {0}
  /\ Parallel \in Nat \ {0} /\ MaxFaults \in Nat

VARIABLES
  pc,        \* where the coroutine of the call's entrypoint is
  row,       \* calls.state; "none" without a row
  caller,    \* the SIP participant: "present" or "gone"
  human,     \* the human agent: "none", "bridged" or "gone"
  open,      \* the LiveKit room is open
  noticed,   \* the future of _wait_for_disconnect is resolved
  egress,    \* the LiveKit recording: "none", "running" or "stopped"
  kept,      \* calls that have a call_recordings row
  active,    \* worker_state.active_calls of the call's process
  usage,     \* the tenant's row of the day in usage
  faults,
  troubled   \* history: calls that lost a step the code does not make up for

room == <<caller, human, open, noticed>>
books == <<egress, kept, active, usage>>
history == <<faults, troubled>>
vars == <<pc, row, caller, human, open, noticed, egress, kept, active, usage, faults, troubled>>

Stored == {c \in Calls : row[c] # "none"}
Active == {c \in Stored : row[c] \notin TerminalCallStates}   \* _CONCURRENCY_SQL
Passed == {c \in Calls : pc[c] \in {"daily", "route"}}

Init ==
  /\ pc = [c \in Calls |-> "awaiting"]
  /\ row = [c \in Calls |-> "none"]
  /\ caller \in [Calls -> {"present", "gone"}]
  /\ human = [c \in Calls |-> "none"]
  /\ open = [c \in Calls |-> TRUE]
  /\ noticed = [c \in Calls |-> FALSE]
  /\ egress = [c \in Calls |-> "none"]
  /\ kept = {}
  /\ active = [c \in Calls |-> 0]
  /\ usage = [answered |-> 0, failed |-> 0]
  /\ faults = 0
  /\ troubled = {}

At(c, here) == pc[c] = here
Goto(c, there) == pc' = [pc EXCEPT ![c] = there]
Step(c, here, there) == At(c, here) /\ Goto(c, there)
Works == UNCHANGED history
Raises == faults < MaxFaults /\ faults' = faults + 1 /\ UNCHANGED troubled
Loses(c) == faults < MaxFaults /\ faults' = faults + 1 /\ troubled' = troubled \cup {c}

\* tracker.transition: what the tables do not allow raises IllegalTransitionError.
Moves(c, state) ==
  /\ row[c] = state \/ state \in CallStateTransitions[row[c]]
  /\ row' = [row EXCEPT ![c] = state]

-----------------------------------------------------------------------------
(* The room *)

\* participant_disconnected and disconnected are heard while _wait_for_disconnect has its
\* handlers in place, and by nobody otherwise.
Listening(c) == At(c, "talking")
Hears(c) == noticed' = [noticed EXCEPT ![c] = @ \/ Listening(c)]

HangUp(c) ==
  /\ caller[c] = "present" /\ open[c] /\ ~At(c, "done")
  /\ caller' = [caller EXCEPT ![c] = "gone"]
  /\ Hears(c)
  /\ UNCHANGED <<pc, row, human, open, books, history>>

\* The warm transfer of a running conversation bridges the caller to a human.
Bridge(c) ==
  /\ c \in Handed /\ Listening(c) /\ ~noticed[c] /\ open[c] /\ human[c] = "none"
  /\ human' = [human EXCEPT ![c] = "bridged"]
  /\ row' = [row EXCEPT ![c] = "HUMAN_AGENT"]
  /\ UNCHANGED <<pc, caller, open, noticed, books, history>>

\* After the bridge either leg ends the wait.
HumanLeaves(c) ==
  /\ human[c] = "bridged" /\ open[c] /\ ~At(c, "done")
  /\ human' = [human EXCEPT ![c] = "gone"]
  /\ Hears(c)
  /\ UNCHANGED <<pc, row, caller, open, books, history>>

\* delete_room puts everyone out.
Closes(c) ==
  /\ open' = [open EXCEPT ![c] = FALSE]
  /\ caller' = [caller EXCEPT ![c] = "gone"]
  /\ human' = [human EXCEPT ![c] = IF @ = "bridged" THEN "gone" ELSE @]
  /\ Hears(c)

-----------------------------------------------------------------------------
(* entrypoint: who calls, and may the call be taken? *)

\* _await_caller: a participant who is in the room, or nobody within the timeout, which
\* ends the job and leaves the room.
AwaitCaller(c) ==
  /\ \/ caller[c] = "present" /\ Step(c, "awaiting", "concurrent")
     \/ caller[c] # "present" /\ Step(c, "awaiting", "done")
  /\ UNCHANGED <<row, room, books>> /\ Works

\* A call that is refused: TenantLimitExceededError, NoRouteError, NotPublishedError,
\* ConfigurationError.
Refuse(c) == Goto(c, "refused")

\* Mutant: the limit itself is still below the limit.
CheckConcurrentLate(c) ==
  /\ At(c, "concurrent")
  /\ \/ Refuse(c)
     \/ /\ Cardinality(Active) <= MaxConcurrent
        /\ Cardinality(Passed) < Parallel
        /\ Goto(c, "daily")
  /\ UNCHANGED <<row, room, books>> /\ Works

\* _RESOLVE_SQL and the first limit.  A limit is compared with the rows of this moment.
CheckConcurrent(c) ==
  /\ At(c, "concurrent")
  /\ \/ Refuse(c)
     \/ /\ Cardinality(Active) < MaxConcurrent
        /\ Cardinality(Passed) < Parallel
        /\ Goto(c, "daily")
  /\ UNCHANGED <<row, room, books>> /\ Works

\* The day's calls are counted; the month's minutes, which are not modelled, may refuse
\* the call as well.
CheckDaily(c) ==
  /\ At(c, "daily")
  /\ \/ Refuse(c)
     \/ Cardinality(Stored) < MaxDaily /\ Goto(c, "route")
  /\ UNCHANGED <<row, room, books>> /\ Works

\* The row is there, committed, from here on.
Answers(c) == row' = [row EXCEPT ![c] = "ANSWERED"]

\* Routing, the agent's version and its providers, then _create_call_row.
CreateCallRow(c) ==
  /\ At(c, "route")
  /\ \/ Refuse(c) /\ UNCHANGED row
     \/ Goto(c, "loading") /\ Answers(c)
  /\ UNCHANGED <<room, books>> /\ Works

\* delete_room of a refused call; the job ends either way.
Dismiss(c) ==
  /\ Step(c, "refused", "done")
  /\ \/ Closes(c) /\ Works
     \/ UNCHANGED room /\ Loses(c)
  /\ UNCHANGED <<row, books>>

\* Knowledge, tools and transfer destinations are loaded after the row is committed:
\* a failure ends the job and leaves the row.
Load(c) ==
  /\ \/ /\ Step(c, "loading", "opening")
        /\ active' = [active EXCEPT ![c] = @ + 1]
        /\ Works
     \/ Step(c, "loading", "done") /\ UNCHANGED active /\ Loses(c)
  /\ UNCHANGED <<row, room, egress, kept, usage>>

-----------------------------------------------------------------------------
(* _run_call *)

\* Observer, transfer and filler are set up, then AI_CONNECTED.
Open(c) ==
  /\ Step(c, "opening", "starting")
  /\ Moves(c, "AI_CONNECTED")
  /\ UNCHANGED <<room, books>> /\ Works

\* session.start and IN_PROGRESS.
Start(c) ==
  /\ Step(c, "starting", "recording")
  /\ Moves(c, "IN_PROGRESS")
  /\ UNCHANGED <<room, books>> /\ Works

\* _start_recording, whose failure is no failure of the call, and the greeting.
StartRecording(c) ==
  /\ Step(c, "recording", "talking")
  /\ \/ c \in Recorded /\ egress' = [egress EXCEPT ![c] = "running"] /\ Works
     \/ c \notin Recorded /\ UNCHANGED egress /\ Works
     \/ c \in Recorded /\ UNCHANGED egress /\ Raises
  /\ UNCHANGED <<row, room, kept, active, usage>>

\* _max_duration_watchdog may fire.
Overdue(c) ==
  /\ c \in Watched
  /\ At(c, "talking") /\ open[c]

\* It deletes the room; if that fails the watchdog is done and the wait over all the same.
MaxDuration(c) ==
  /\ Overdue(c)
  /\ Goto(c, "ending")
  /\ \/ Closes(c) /\ Works
     \/ UNCHANGED room /\ Loses(c)
  /\ UNCHANGED <<row, books>>

\* _wait_for_call_end returns.
WaitEnds(c) ==
  /\ Step(c, "talking", "ending")
  /\ noticed[c]
  /\ UNCHANGED <<row, room, books>> /\ Works

\* Mutant: a bridged call is left to the transfer.
CompleteUnbridged(c) ==
  /\ Step(c, "ending", "closing")
  /\ IF human[c] = "none" THEN Moves(c, "COMPLETED") ELSE UNCHANGED row
  /\ UNCHANGED <<room, books>> /\ Works

\* The transfer is abandoned, and the call COMPLETED unless the transfer did it already.
Complete(c) ==
  /\ Step(c, "ending", "closing")
  /\ Moves(c, "COMPLETED")
  /\ UNCHANGED <<room, books>> /\ Works

\* An exception anywhere in the try block,
Fail(c) ==
  /\ pc[c] \in {"opening", "starting", "recording", "talking", "ending"}
  /\ Goto(c, "failing")
  /\ UNCHANGED <<row, room, books>> /\ Raises

\* which the handler turns into FAILED, and which raises again if PostgreSQL fails, too.
Failed(c) ==
  /\ Step(c, "failing", "closing")
  /\ \/ Moves(c, "FAILED") /\ Works
     \/ UNCHANGED row /\ Loses(c)
  /\ UNCHANGED <<room, books>>

\* The job is cancelled: no handler sees a CancelledError, the finally block runs.
Cancel(c) ==
  /\ pc[c] \in {"opening", "starting", "recording", "talking", "ending", "failing"}
  /\ Goto(c, "closing")
  /\ UNCHANGED <<row, room, books>> /\ Loses(c)

\* Mutant: a recording of a call that failed goes on.
StopOfCompleted(c) ==
  egress' = [egress EXCEPT ![c] = IF @ = "running" /\ row[c] = "COMPLETED"
                                  THEN "stopped" ELSE @]

StopsRecording(c) == egress' = [egress EXCEPT ![c] = IF @ = "running" THEN "stopped" ELSE @]

\* transfer.aclose, _stop_recording (a failure is logged) and observer.aclose; if one of
\* the two aclose raises, nothing of what follows is done.
Close(c) ==
  /\ \/ Step(c, "closing", "accounting") /\ StopsRecording(c) /\ Works
     \/ Step(c, "closing", "accounting") /\ UNCHANGED egress /\ Loses(c)
     \/ Step(c, "closing", "done") /\ (StopsRecording(c) \/ UNCHANGED egress) /\ Loses(c)
  /\ UNCHANGED <<row, room, kept, active, usage>>

\* Mutant: every call counts as answered.
BillAnswered(c) == usage' = [usage EXCEPT !.answered = @ + 1]

Bill(c) ==
  usage' = IF row[c] = "COMPLETED" THEN [usage EXCEPT !.answered = @ + 1]
                                   ELSE [usage EXCEPT !.failed = @ + 1]

Uncount(c) == active' = [active EXCEPT ![c] = IF @ = 0 THEN 0 ELSE @ - 1]

\* write_recording_row, if something was recorded.
Keeps(c) == kept' = IF egress[c] = "none" THEN kept ELSE kept \cup {c}

\* The call_recordings row, the day's usage and the counter; a failed write is logged.
Account(c) ==
  /\ Step(c, "accounting", "done")
  /\ \/ Bill(c) /\ Keeps(c) /\ Works
     \/ (Bill(c) \/ UNCHANGED usage) /\ (Keeps(c) \/ UNCHANGED kept) /\ Loses(c)
  /\ Uncount(c)
  /\ UNCHANGED <<row, room, egress>>

\* The process of the call is killed.
Kill(c) ==
  /\ pc[c] \notin {"awaiting", "done"}
  /\ Goto(c, "done")
  /\ active' = [active EXCEPT ![c] = 0]
  /\ UNCHANGED <<row, room, egress, kept, usage>> /\ Loses(c)

-----------------------------------------------------------------------------
Admit(c) == AwaitCaller(c) \/ CheckConcurrent(c) \/ CheckDaily(c) \/ CreateCallRow(c)
              \/ Dismiss(c) \/ Load(c)
Run(c) == Open(c) \/ Start(c) \/ StartRecording(c) \/ WaitEnds(c) \/ Complete(c)
            \/ Failed(c) \/ Close(c) \/ Account(c)
Breaks(c) == Fail(c) \/ Cancel(c) \/ Kill(c)
World(c) == HangUp(c) \/ Bridge(c) \/ HumanLeaves(c)

Next == \E c \in Calls : Admit(c) \/ Run(c) \/ MaxDuration(c) \/ Breaks(c) \/ World(c)

\* The event loop runs what can run and the watchdog's timer expires; people owe nothing.
Fairness == \A c \in Calls : WF_vars(Admit(c) \/ Run(c)) /\ WF_vars(MaxDuration(c))

Spec == Init /\ [][Next]_vars /\ Fairness

-----------------------------------------------------------------------------
(* Properties *)

Places == {"awaiting", "concurrent", "daily", "route", "refused", "loading", "opening",
           "starting", "recording", "talking", "ending", "failing", "closing",
           "accounting", "done"}

\* Every variable keeps to its type, and the counter of a process never leaves 0..1.
TypeOK ==
  /\ pc \in [Calls -> Places]
  /\ row \in [Calls -> CallStates \cup {"none"}]
  /\ caller \in [Calls -> {"present", "gone"}]
  /\ human \in [Calls -> {"none", "bridged", "gone"}]
  /\ open \in [Calls -> BOOLEAN] /\ noticed \in [Calls -> BOOLEAN]
  /\ egress \in [Calls -> {"none", "running", "stopped"}]
  /\ kept \subseteq Calls
  /\ active \in [Calls -> 0..1]
  /\ usage \in [answered : Nat, failed : Nat]
  /\ faults \in 0..MaxFaults /\ troubled \subseteq Calls

\* "Enforced before accepting the call" (load, _enforce_limits): the check and the insert
\* are statements apart, so the limits can be overshot, but by no more than the calls that
\* are between the two at once.
OvershootBounded ==
  /\ Cardinality(Active) + Cardinality(Passed) <= MaxConcurrent - 1 + Parallel
  /\ Cardinality(Stored) <= MaxDaily - 1 + Parallel

\* The finally block of _run_call: a call that took its steps leaves a row in a terminal
\* state, no recording running, a call_recordings row exactly if something was recorded,
\* and a process that counts no call; and the usage row (spec 47, 61) has every finished
\* call once, by its outcome.
ClosedClean ==
  /\ \A c \in Calls \ troubled : At(c, "done") =>
       /\ c \notin Active
       /\ egress[c] # "running" /\ (c \in kept <=> egress[c] = "stopped")
       /\ active[c] = 0
  /\ troubled = {} =>
       /\ usage.answered = Cardinality({c \in Calls : At(c, "done") /\ row[c] = "COMPLETED"})
       /\ usage.failed = Cardinality({c \in Calls : At(c, "done") /\ row[c] = "FAILED"})

\* The watchdog (spec 18): a call with a maximum duration reaches a terminal state whether
\* or not anyone hears the caller leave, and so does, without it, a call whose end was
\* heard.
CallsEnd ==
  \A c \in Calls :
    c \in Active /\ (c \in Watched \/ noticed[c]) ~> c \notin Active \/ c \in troubled
=============================================================================
