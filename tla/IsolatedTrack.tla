---------------------------- MODULE IsolatedTrack ----------------------------
(***************************************************************************)
(* One named audio track of a transfer: the caller's hold track or the     *)
(* agent's whisper (worker/transfer/audio.py).  play() speaks once, loop() *)
(* starts a task that is to repeat a sentence, stop() and aclose() silence *)
(* whoever speaks; a generation counter tells the current voice from the   *)
(* ones it replaced.  All run on one event loop: a step runs to its next   *)
(* await, and a cancelled task ends at its next await.                     *)
(***************************************************************************)
EXTENDS Naturals, FiniteSets

CONSTANTS
  Speakers,   \* coroutines that call play() on the track
  Loops,      \* tasks that loop() creates, one per call
  NoTask,
  MaxStops    \* bound: calls of stop() and aclose()

ASSUME TrackAssumption ==
  /\ Speakers \cap Loops = {}
  /\ NoTask \notin Loops \cup Speakers
  /\ MaxStops \in Nat

Voices == Speakers \cup Loops

VARIABLES
  generation,  \* _generation
  source,      \* _source is set: start() has run since the last aclose()
  playing,     \* _playing
  pc,          \* where each voice stands
  born,        \* the generation a voice's current play() compares with
  looped,      \* the generation a loop task was created with
  cancelled,   \* tasks with a cancellation pending or delivered
  heard,       \* history: the last frame written, by generation and voice
  silenced,    \* history: voices that someone else's stop() cut off
  stops

trackVars == <<generation, source, playing, pc, born, looped, cancelled, heard, silenced, stops>>

Live == {v \in Voices : pc[v] \in {"ready", "speaking"}}

Goto(v, label) == pc' = [pc EXCEPT ![v] = label]

TrackInit ==
  /\ generation = 0 /\ source = FALSE /\ playing = NoTask
  /\ pc = [v \in Voices |-> "idle"]
  /\ born = [v \in Voices |-> 0] /\ looped = [t \in Loops |-> 0]
  /\ cancelled = {} /\ heard = <<0, NoTask>> /\ silenced = {}
  /\ stops = 0

-----------------------------------------------------------------------------
\* Mutants: stop() relies on the cancellation alone; frames are not checked.
SameGeneration == generation
WritesUnchecked(v) == pc[v] = "speaking" /\ v \notin cancelled /\ source

\* stop() on behalf of `by`: the generation moves on and the loop task, be it `by`
\* itself, is cancelled.
AfterStop == generation + 1

StopVoices(by) ==
  /\ cancelled' = cancelled \cup {t \in Loops : t = playing /\ pc[t] # "done"}
  /\ playing' = NoTask
  /\ silenced' = silenced \cup (Live \ by)

\* start() in play() or loop(): the first caller publishes the track and awaits that.
Start(v) ==
  /\ pc[v] = "idle"
  /\ source' = TRUE
  /\ Goto(v, "started")
  /\ UNCHANGED <<generation, playing, born, looped, cancelled, heard, silenced, stops>>

\* The rest of play() up to the synthesis.
Speak(v) ==
  /\ generation' = AfterStop + 1
  /\ born' = [born EXCEPT ![v] = generation']
  /\ StopVoices({v})
  /\ Goto(v, "speaking")
  /\ UNCHANGED <<source, looped, heard, stops>>

Play(p) == pc[p] = "started" /\ Speak(p)

\* The rest of loop(): the task t is created.
Loop(t) ==
  /\ pc[t] = "started"
  /\ generation' = AfterStop + 1
  /\ looped' = [looped EXCEPT ![t] = generation']
  /\ cancelled' = cancelled \cup {u \in Loops : u = playing /\ pc[u] # "done"}
  /\ silenced' = silenced \cup Live
  /\ playing' = t
  /\ Goto(t, "ready")
  /\ UNCHANGED <<source, born, heard, stops>>

\* The task's while condition, and the play() it calls (start() has nothing to publish:
\* after an aclose() the generation has moved on).
LoopRound(t) ==
  /\ pc[t] = "ready" /\ t \notin cancelled
  /\ looped[t] = generation
  /\ Speak(t)

\* Synthesis delivers a frame to a play() that is still the current one.
Writes(v) ==
  pc[v] = "speaking" /\ v \notin cancelled /\ source /\ born[v] = generation

Frame(v) ==
  /\ Writes(v)
  /\ heard' = <<born[v], v>>
  /\ UNCHANGED <<generation, source, playing, pc, born, looped, cancelled, silenced, stops>>

\* play() ends: all said, replaced, out of time or synthesis failed.  A loop task
\* sleeps and tests its while condition again, unless its own generation is over.
PlayEnds(v) ==
  /\ pc[v] = "speaking" /\ v \notin cancelled
  /\ Goto(v, IF v \in Loops /\ looped[v] = generation THEN "ready" ELSE "done")
  /\ UNCHANGED <<generation, source, playing, born, looped, cancelled, heard, silenced, stops>>

\* CancelledError at the task's next await, or the while condition failing.
LoopDies(t) ==
  /\ pc[t] \in {"ready", "speaking"}
  /\ t \in cancelled \/ (pc[t] = "ready" /\ looped[t] # generation)
  /\ Goto(t, "done")
  /\ UNCHANGED <<generation, source, playing, born, looped, cancelled, heard, silenced, stops>>

\* stop() by the whisper's end; aclose() by _stop_audio also takes the track down.
StopOrClose ==
  /\ stops < MaxStops
  /\ stops' = stops + 1
  /\ generation' = AfterStop
  /\ StopVoices({})
  /\ source' \in {source, FALSE}
  /\ UNCHANGED <<pc, born, looped, heard>>

TrackNext ==
  \/ \E v \in Voices : Start(v) \/ Frame(v) \/ PlayEnds(v)
  \/ \E p \in Speakers : Play(p)
  \/ \E t \in Loops : Loop(t) \/ LoopRound(t) \/ LoopDies(t)
  \/ StopOrClose

\* The event loop runs what can run and synthesis delivers its first frame.
TrackFairness ==
  /\ \A v \in Voices : WF_trackVars(Frame(v))
  /\ \A p \in Speakers : WF_trackVars(Play(p))
  /\ \A t \in Loops : WF_trackVars(Loop(t)) /\ WF_trackVars(LoopRound(t)) /\ WF_trackVars(LoopDies(t))

TrackSpec == TrackInit /\ [][TrackNext]_trackVars /\ TrackFairness

-----------------------------------------------------------------------------
(* Properties *)

\* Every field keeps to its type, and the current loop is a task that was created.
TrackTypeOK ==
  /\ generation \in Nat /\ source \in BOOLEAN
  /\ playing \in Loops \cup {NoTask}
  /\ playing # NoTask => pc[playing] # "idle"
  /\ pc \in [Voices -> {"idle", "started", "ready", "speaking", "done"}]
  /\ born \in [Voices -> 0..generation] /\ looped \in [Loops -> 0..generation]
  /\ cancelled \subseteq Loops
  /\ heard \in (0..generation) \X (Voices \cup {NoTask}) /\ silenced \subseteq Voices
  /\ stops \in 0..MaxStops

\* "Stopping is ceasing to write frames": whoever was cut off, by stop(), aclose() or a
\* newer voice, never writes again, whatever is still in flight.
StopSilences == \A v \in silenced : ~Writes(v)

\* Two voices never mix on one track: a voice other than the last one heard is heard only
\* if it began later, and the older one never comes back.
OneVoice == [][heard'[2] # heard[2] => heard'[1] > heard[1]]_heard

\* Who was silenced stays silent, in a state of the right types.
TrackSound == TrackTypeOK /\ StopSilences
=============================================================================
