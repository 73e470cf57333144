---------------------------- MODULE Conversation ----------------------------
(***************************************************************************)
(* One conversation of the AI agent: the turns (ConfigurableAgent in       *)
(* worker/entrypoint.py, worker/memory.py), the filler spoken while a      *)
(* reply is slow (worker/filler_track.py) and the tools the model calls    *)
(* (worker/tools), with the support tickets of the tenant, which other     *)
(* calls and the staff (api/v1/tickets.py) file at the same time.          *)
(*                                                                         *)
(* The worker is one event loop: a step runs to its next await.  What the  *)
(* LiveKit session does, when a turn commits, a reply starts, the model    *)
(* calls a tool, is external and chosen freely; it handles the turns of a  *)
(* call one after the other and runs the tool calls of a reply in parallel.*)
(***************************************************************************)
EXTENDS Integers, Sequences, FiniteSetsExt, SequencesExt

CONSTANTS
  Uses,        \* tool calls of the model
  Ticketing,   \* the calls of create_ticket; the others call the tenant's API
  Rival,       \* create_ticket on another call of the tenant
  Desk,        \* the staff's POST /tickets
  Trigger,     \* ROLLING_TRIGGER_TURNS
  Keep,        \* the turns a roll leaves
  Limit,       \* max_calls_per_conversation of each tool
  Retries,     \* max_retries of the tenant's API tool
  MaxTurns, MaxTicket, MaxDeletes   \* bounds

Filers == Ticketing \cup {Rival, Desk}

ASSUME ConversationAssumption ==
  /\ Ticketing \subseteq Uses
  /\ Rival # Desk /\ {Rival, Desk} \cap Uses = {}
  /\ Trigger \in Nat \ {0} /\ Keep \in Nat /\ Limit \in Nat /\ Retries \in Nat
  /\ MaxTurns \in Nat /\ MaxTicket \in Nat /\ MaxDeletes \in Nat

VARIABLES
  phase,     \* "listening", "search", "roll", "reply", "speaking" or "over"
  user,      \* whether the session hears the caller speak
  turns,     \* user_turns
  rolled,    \* last_rolled_at
  recent,    \* recent_turns, each by its number
  summary,   \* the turns the summary was made from
  misses,    \* history: rolls that gave nothing since the last that did
  filler,    \* "idle", "waiting" for the delay or "playing"
  late,      \* history: the filler was armed while the agent was speaking
  use,       \* where each tool call stands
  counts,    \* ToolRuntime._counts
  performed, \* external: operations the tenant's API carried out
  tickets,   \* number -> who filed it, the committed rows
  number,    \* the number a filer has read and is going to insert
  beaten,    \* history: filers overtaken by a row committed after their read
  deletes

conversation == <<phase, user, turns, rolled, recent, summary, misses>>
fillers      == <<filler, late>>
tools        == <<use, counts, performed>>
desk         == <<tickets, number, beaten, deletes>>
vars         == <<conversation, fillers, tools, desk>>

UseStates == {"none", "filing", "asking", "ok", "failed"}

TypeOK ==
  /\ phase \in {"listening", "search", "roll", "reply", "speaking", "over"}
  /\ user \in BOOLEAN /\ turns \in 0..MaxTurns /\ rolled \in 0..turns
  /\ recent \in Seq(1..turns) /\ summary \subseteq 1..turns /\ misses \in 0..turns
  /\ filler \in {"idle", "waiting", "playing"} /\ late \in BOOLEAN
  /\ use \in [Uses -> UseStates] /\ counts \in [{"ticket", "api"} -> 0..Limit]
  /\ performed \in Nat
  /\ DOMAIN tickets \subseteq 1..MaxTicket
  /\ \A n \in DOMAIN tickets : tickets[n] \in Filers
  /\ number \in [Filers -> 0..MaxTicket] /\ beaten \subseteq Filers
  /\ deletes \in 0..MaxDeletes

\* With a greeting the agent speaks first.
Init ==
  /\ phase \in {"listening", "speaking"} /\ user = FALSE
  /\ turns = 0 /\ rolled = 0 /\ recent = <<>> /\ summary = {} /\ misses = 0
  /\ filler = "idle" /\ late = FALSE
  /\ use = [i \in Uses |-> "none"] /\ counts = [t \in {"ticket", "api"} |-> 0]
  /\ performed = 0
  /\ tickets = <<>> /\ number = [f \in Filers |-> 0] /\ beaten = {} /\ deletes = 0

(***************************************************************************)
(* Turns and memory                                                        *)
(***************************************************************************)

\* The session commits the caller's turn: on_user_turn_completed up to its first await.
TurnCompleted ==
  /\ phase = "listening" /\ turns < MaxTurns
  /\ turns' = turns + 1
  /\ recent' = Append(recent, turns + 1)
  /\ phase' = "search"
  /\ UNCHANGED <<user, rolled, summary, misses, fillers, tools, desk>>

\* Mutant: the turn the roll is due on is not counted.
ShouldRollLate == turns > rolled + Trigger

ShouldRoll == turns >= rolled + Trigger

\* search_chunks answers, or fails and is logged: either way the turn goes on.
Searched ==
  /\ phase = "search"
  /\ phase' = IF ShouldRoll THEN "roll" ELSE "reply"
  /\ UNCHANGED <<user, turns, rolled, recent, summary, misses, fillers, tools, desk>>

LastOf(s, n) == SubSeq(s, Max({1, Len(s) - n + 1}), Len(s))

\* Mutant: the turns are cut whether or not a summary came back.
RollCutsFirst(success) ==
  /\ recent' = LastOf(recent, Keep)
  /\ summary' = IF success THEN summary \cup ToSet(recent) ELSE summary
  /\ rolled' = IF success THEN turns ELSE rolled
  /\ misses' = IF success THEN 0 ELSE misses + 1

\* roll_summary: no summary, an error or NO_SUMMARY changes nothing, so the next turn
\* tries again.
Roll(success) ==
  IF success
  THEN /\ summary' = summary \cup ToSet(recent)
       /\ rolled' = turns
       /\ recent' = LastOf(recent, Keep)
       /\ misses' = 0
  ELSE misses' = misses + 1 /\ UNCHANGED <<summary, rolled, recent>>

Rolled ==
  /\ phase = "roll"
  /\ \E success \in BOOLEAN : Roll(success)
  /\ phase' = "reply"
  /\ UNCHANGED <<user, turns, fillers, tools, desk>>

(***************************************************************************)
(* The filler                                                              *)
(***************************************************************************)

\* Mutant: only the task that waits is cancelled.
StopWaiting == filler' = IF filler = "waiting" THEN "idle" ELSE filler

\* stop: both tasks are cancelled and the generation moves on, so that a writer gives up
\* before its next frame.
Stop == filler' = "idle"

\* user_state_changed from speaking to listening arms the filler; the agent's own state
\* is not looked at.
Arm == filler' = "waiting" /\ late' = (phase = "speaking")

UserSpeaks ==
  /\ phase # "over" /\ ~user
  /\ user' = TRUE
  /\ UNCHANGED <<phase, turns, rolled, recent, summary, misses, fillers, tools, desk>>

UserPauses ==
  /\ phase # "over" /\ user
  /\ user' = FALSE
  /\ Arm
  /\ UNCHANGED <<phase, turns, rolled, recent, summary, misses, tools, desk>>

\* _after_delay; with no clip ready nothing is played.
DelayOver ==
  /\ filler = "waiting"
  /\ filler' \in {"playing", "idle"}
  /\ UNCHANGED <<late, conversation, tools, desk>>

ClipEnds ==
  /\ filler = "playing"
  /\ filler' = "idle"
  /\ UNCHANGED <<late, conversation, tools, desk>>

\* agent_state_changed to speaking.
Answer ==
  /\ phase = "reply"
  /\ phase' = "speaking"
  /\ Stop
  /\ UNCHANGED <<user, turns, rolled, recent, summary, misses, late, tools, desk>>

\* The answer is spoken, or the caller interrupts it.
AnswerEnds ==
  /\ phase = "speaking"
  /\ phase' = "listening"
  /\ UNCHANGED <<user, turns, rolled, recent, summary, misses, fillers, tools, desk>>

\* _run_call after the wait: the filler is closed; the session's tasks are cancelled, a
\* write under way may or may not reach the server.
HangUp ==
  /\ phase # "over"
  /\ phase' = "over"
  /\ Stop
  /\ use' = [i \in Uses |-> IF use[i] \in {"filing", "asking"} THEN "failed" ELSE use[i]]
  /\ UNCHANGED <<user, turns, rolled, recent, summary, misses, late, counts, performed, desk>>

(***************************************************************************)
(* Tools                                                                   *)
(***************************************************************************)

ToolOf(i) == IF i \in Ticketing THEN "ticket" ELSE "api"

\* Mutant: a call is counted when it has succeeded.
CountedSuccesses(i) ==
  /\ Cardinality({j \in Uses : ToolOf(j) = ToolOf(i) /\ use[j] = "ok"}) < Limit
  /\ counts' = counts

\* ToolRuntime.invoke: the limit is tested and the call counted with no await between.
Admit(i) ==
  /\ counts[ToolOf(i)] < Limit
  /\ counts' = [counts EXCEPT ![ToolOf(i)] = @ + 1]

Highest == IF DOMAIN tickets = {} THEN 0 ELSE Max(DOMAIN tickets)

\* Mutant: the worker counts the rows as the API does.
NextByCount == Cardinality(DOMAIN tickets) + 1

\* create_ticket of the worker: MAX of the numbers, plus one.
NextOfAgent == Highest + 1

\* next_ticket_number of the API: COUNT of the rows, plus one.
NextOfStaff == Cardinality(DOMAIN tickets) + 1

Reads(f, n) ==
  /\ n <= MaxTicket
  /\ number' = [number EXCEPT ![f] = n]
  /\ beaten' = beaten \ {f}
  /\ UNCHANGED <<tickets, deletes>>

FileTicket(i) ==
  /\ i \in Ticketing /\ phase = "reply" /\ use[i] = "none"
  /\ Admit(i)
  /\ Reads(i, NextOfAgent)
  /\ use' = [use EXCEPT ![i] = "filing"]
  /\ UNCHANGED <<performed, conversation, fillers>>

\* Mutant: the table has no such constraint.
NeverTaken(n) == FALSE

\* uq_tickets_tenant_number
Taken(n) == n \in DOMAIN tickets

Inserts(f) ==
  /\ ~Taken(number[f])
  /\ tickets' = [n \in DOMAIN tickets \cup {number[f]} |->
                   IF n = number[f] THEN f ELSE tickets[n]]
  /\ beaten' = beaten \cup {g \in Filers \ {f} : number[g] # 0}
  /\ number' = [number EXCEPT ![f] = 0]
  /\ UNCHANGED deletes

\* The insert breaks the constraint: the transaction is rolled back.
Refused(f) ==
  /\ Taken(number[f])
  /\ number' = [number EXCEPT ![f] = 0]
  /\ UNCHANGED <<tickets, beaten, deletes>>

\* The write of a call that was cut off may still reach the server.
TicketFiled(i) ==
  /\ i \in Ticketing /\ number[i] # 0
  /\ \/ Inserts(i) /\ use' = [use EXCEPT ![i] = IF @ = "filing" THEN "ok" ELSE @]
     \/ Refused(i) /\ use' = [use EXCEPT ![i] = "failed"]
  /\ UNCHANGED <<counts, performed, conversation, fillers>>

\* A request of execute_http; every attempt may be carried out, the last answer counts.
\* A timeout or a 5xx is tried again whatever the method.
AskApi(i) ==
  /\ i \in Uses \ Ticketing /\ phase = "reply" /\ use[i] = "none"
  /\ Admit(i)
  /\ use' = [use EXCEPT ![i] = "asking"]
  /\ UNCHANGED <<performed, conversation, fillers, desk>>

ApiAnswers(i) ==
  /\ i \in Uses \ Ticketing /\ use[i] = "asking"
  /\ \E done \in 0..Retries + 1 :
       /\ performed' = performed + done
       /\ use' \in {[use EXCEPT ![i] = r] : r \in IF done = 0 THEN {"failed"} ELSE {"ok", "failed"}}
  /\ UNCHANGED <<counts, conversation, fillers, desk>>

(***************************************************************************)
(* The other filers                                                        *)
(***************************************************************************)

OtherReads(f) ==
  /\ f \in {Rival, Desk} /\ number[f] = 0
  /\ Reads(f, IF f = Desk THEN NextOfStaff ELSE NextOfAgent)
  /\ UNCHANGED <<conversation, fillers, tools>>

OtherFiles(f) ==
  /\ f \in {Rival, Desk} /\ number[f] # 0
  /\ Inserts(f) \/ Refused(f)
  /\ UNCHANGED <<conversation, fillers, tools>>

\* delete_ticket by the staff.
DeleteTicket ==
  /\ deletes < MaxDeletes
  /\ \E n \in DOMAIN tickets : tickets' = [m \in DOMAIN tickets \ {n} |-> tickets[m]]
  /\ deletes' = deletes + 1
  /\ UNCHANGED <<number, beaten, conversation, fillers, tools>>

Next ==
  \/ TurnCompleted \/ Searched \/ Rolled
  \/ UserSpeaks \/ UserPauses \/ DelayOver \/ ClipEnds \/ Answer \/ AnswerEnds \/ HangUp
  \/ \E i \in Uses : FileTicket(i) \/ TicketFiled(i) \/ AskApi(i) \/ ApiAnswers(i)
  \/ \E f \in {Rival, Desk} : OtherReads(f) \/ OtherFiles(f)
  \/ DeleteTicket

Spec == Init /\ [][Next]_vars

(***************************************************************************)
(* Properties                                                              *)
(***************************************************************************)

\* Rolling the summary loses nothing the caller said: every turn is in the summary or
\* still among the recent turns, whatever the summariser answers.
NothingForgotten == 1..turns = summary \cup ToSet(recent)

\* The memory a briefing or a roll has to send stays bounded: the trigger, what a roll
\* keeps, and one turn for every roll that gave nothing.
MemoryBounded ==
  /\ turns - rolled <= Trigger + misses
  /\ Len(recent) <= Keep + turns - rolled

\* "The real answer is starting: silence the filler" (entrypoint.py): a filler that
\* sounds over an answer was armed by a caller who spoke during it.
FillerYields == filler = "playing" /\ phase = "speaking" => late

\* max_calls_per_conversation, with the tool calls of a reply running in parallel; a call
\* of the tenant's API may carry its operation out once per attempt, never more.
LimitHolds ==
  /\ \A i \in Uses : Cardinality({j \in Uses : ToolOf(j) = ToolOf(i) /\ use[j] # "none"}) <= Limit
  /\ performed <= Limit * (Retries + 1)

\* A ticket the caller was told of is that call's ticket, until the staff delete one.
ToldTicketExists ==
  \A i \in Ticketing : use[i] = "ok" /\ deletes = 0 => \E n \in DOMAIN tickets : tickets[n] = i

\* Filing is refused only to somebody another filer overtook, except that the count of
\* the staff's API also repeats a number once a ticket was deleted.
RefusedForACause ==
  [][\A f \in Filers :
       number[f] # 0 /\ number'[f] = 0 /\ tickets' = tickets =>
         f \in beaten \/ (f = Desk /\ deletes > 0)]_vars

\* What the memory and the tickets keep at every moment.
RecordsSound == TypeOK /\ NothingForgotten /\ MemoryBounded /\ ToldTicketExists
=============================================================================
