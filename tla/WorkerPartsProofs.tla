-------------------------- MODULE WorkerPartsProofs --------------------------
(***************************************************************************)
(* Theorems about parts of the worker, each a specification of its own:    *)
(* the circuit breaker of a provider, the hold and whisper track, the call *)
(* observer, and the conversation with its memory, filler and tools.       *)
(***************************************************************************)
EXTENDS CircuitBreaker, IsolatedTrack, CallObserver, Conversation,
        SequenceTheorems, FiniteSetTheorems, WellFoundedInduction, TLAPS

(***************************************************************************)
(* The circuit breaker, for any set of requests and any thresholds.        *)
(***************************************************************************)

LEMMA TypeInit == BreakerInit => BreakerTypeOK
<1> SUFFICES ASSUME BreakerInit PROVE BreakerTypeOK
  OBVIOUS
<1>1. failures \in Nat /\ successes \in Nat
  BY DEF BreakerInit
<1>2. cooled \in BOOLEAN /\ up \in BOOLEAN
  BY DEF BreakerInit
<1>3. cb \in {"closed", "open", "half_open"} /\ inFlight \subseteq Reqs
  BY DEF BreakerInit
<1>4. QED BY <1>1, <1>2, <1>3 DEF BreakerTypeOK

LEMMA TypeStep == BreakerTypeOK /\ [BreakerNext]_breakerVars => BreakerTypeOK'
<1> SUFFICES ASSUME BreakerTypeOK, [BreakerNext]_breakerVars PROVE BreakerTypeOK'
  OBVIOUS
<1>1. ASSUME NEW r \in Reqs, Gate(r) PROVE BreakerTypeOK'
  BY <1>1 DEF Gate, BreakerTypeOK
<1>2. ASSUME NEW r \in Reqs, Succeeds(r) PROVE BreakerTypeOK'
  <2>1. failures' \in Nat /\ successes' \in Nat
    <3>1. CASE cb = "half_open"
      BY <1>2, <3>1 DEF Succeeds, RecordSuccess, BreakerTypeOK
    <3>2. CASE cb = "closed"
      <4>1. successes' = successes /\ failures' = IF failures = 0 THEN 0 ELSE failures - 1
        BY <1>2, <3>2 DEF Succeeds, RecordSuccess
      <4>2. failures \in Nat /\ successes \in Nat
        BY DEF BreakerTypeOK
      <4>3. QED BY <4>1, <4>2
    <3>3. CASE cb = "open"
      BY <1>2, <3>3 DEF Succeeds, RecordSuccess, BreakerTypeOK
    <3>4. QED BY <3>1, <3>2, <3>3 DEF BreakerTypeOK
  <2>2. cb' \in {"closed", "open", "half_open"}
    BY <1>2 DEF Succeeds, RecordSuccess, BreakerTypeOK
  <2>3. UNCHANGED <<cooled, up>> /\ inFlight' \subseteq Reqs
    BY <1>2 DEF Succeeds, RecordSuccess, BreakerTypeOK
  <2>4. QED BY <2>1, <2>2, <2>3 DEF BreakerTypeOK
<1>3. ASSUME NEW r \in Reqs, Fails(r) PROVE BreakerTypeOK'
  <2>1. failures' \in Nat /\ successes' \in Nat
    BY <1>3 DEF Fails, RecordFailure, BreakerTypeOK
  <2>2. cb' \in {"closed", "open", "half_open"} /\ cooled' \in BOOLEAN
    BY <1>3 DEF Fails, RecordFailure, BreakerTypeOK
  <2>3. UNCHANGED up /\ inFlight' \subseteq Reqs
    BY <1>3 DEF Fails, BreakerTypeOK
  <2>4. QED BY <2>1, <2>2, <2>3 DEF BreakerTypeOK
<1>4. ASSUME NEW r \in Reqs, Cancelled(r) PROVE BreakerTypeOK'
  BY <1>4 DEF Cancelled, BreakerTypeOK
<1>5. CASE CoolDown
  BY <1>5 DEF CoolDown, BreakerTypeOK
<1>6. CASE ProviderChanges
  BY <1>6 DEF ProviderChanges, BreakerTypeOK
<1>7. CASE UNCHANGED breakerVars
  BY <1>7 DEF breakerVars, BreakerTypeOK
<1>8. QED BY <1>1, <1>2, <1>3, <1>4, <1>5, <1>6, <1>7 DEF BreakerNext

\* Every field of the breaker keeps to its type.
THEOREM BreakerTypeCorrect == BreakerSpec => []BreakerTypeOK
BY TypeInit, TypeStep, PTL DEF BreakerSpec

-----------------------------------------------------------------------------
(* The counters.  A half-open breaker has just been given a zero success count, and   *)
(* each success either closes it or leaves the count below the threshold; a failure   *)
(* always leaves the half-open state.  In the closed state only a failure raises the  *)
(* count, and it trips at the threshold.  Failures counted while open or half-open     *)
(* do no harm: the only way back to closed resets the count.                           *)

LEMMA CountersInit == BreakerInit => CountersBelowThreshold
BY BreakerAssumption DEF BreakerInit, CountersBelowThreshold

LEMMA CountersStep == BreakerTypeOK /\ CountersBelowThreshold /\ [BreakerNext]_breakerVars => CountersBelowThreshold'
<1> SUFFICES ASSUME BreakerTypeOK, CountersBelowThreshold, [BreakerNext]_breakerVars
             PROVE  CountersBelowThreshold'
  OBVIOUS
<1> USE BreakerAssumption DEF BreakerTypeOK, CountersBelowThreshold
<1>1. ASSUME NEW r \in Reqs, Gate(r) PROVE CountersBelowThreshold'
  BY <1>1 DEF Gate
<1>2. ASSUME NEW r \in Reqs, Succeeds(r) PROVE CountersBelowThreshold'
  <2>1. CASE cb = "half_open"
    BY <1>2, <2>1 DEF Succeeds, RecordSuccess
  <2>2. CASE cb = "closed"
    BY <1>2, <2>2 DEF Succeeds, RecordSuccess
  <2>3. CASE cb = "open"
    BY <1>2, <2>3 DEF Succeeds, RecordSuccess
  <2>4. QED BY <2>1, <2>2, <2>3
<1>3. ASSUME NEW r \in Reqs, Fails(r) PROVE CountersBelowThreshold'
  BY <1>3 DEF Fails, RecordFailure, Trips
<1>4. ASSUME NEW r \in Reqs, Cancelled(r) PROVE CountersBelowThreshold'
  BY <1>4 DEF Cancelled
<1>5. CASE CoolDown
  BY <1>5 DEF CoolDown
<1>6. CASE ProviderChanges
  BY <1>6 DEF ProviderChanges
<1>7. CASE UNCHANGED breakerVars
  BY <1>7 DEF breakerVars
<1>8. QED BY <1>1, <1>2, <1>3, <1>4, <1>5, <1>6, <1>7 DEF BreakerNext

\* Whatever the order of late answers, a breaker is never closed with a full failure
\* count nor half-open with enough successes (record_success and record_failure).
THEOREM CountersCorrect == BreakerSpec => []CountersBelowThreshold
BY TypeInit, TypeStep, CountersInit, CountersStep, PTL DEF BreakerSpec

-----------------------------------------------------------------------------
(* Failures counted while open.  A breaker opens on the answer of a request, with a   *)
(* zero count; from then on the gate is shut until half-open, so a failure counted    *)
(* while open is taken out of the requests in flight.                                 *)

LEMMA InFlightFinite == BreakerTypeOK => IsFiniteSet(inFlight) /\ Cardinality(inFlight) \in Nat
                                  /\ Cardinality(inFlight) <= Cardinality(Reqs)
                                  /\ Cardinality(Reqs) \in Nat
BY BreakerAssumption, FS_Subset, FS_CardinalityType DEF BreakerTypeOK

LEMMA AnswerLeaves ==
  ASSUME BreakerTypeOK, NEW r \in inFlight
  PROVE  Cardinality(inFlight \ {r}) = Cardinality(inFlight) - 1
BY InFlightFinite, FS_RemoveElement

LEMMA OpenCountStep ==
  ASSUME BreakerTypeOK, [BreakerNext]_breakerVars, cb' = "open"
  PROVE  IF cb = "open"
         THEN failures' + Cardinality(inFlight') <= failures + Cardinality(inFlight)
         ELSE failures' = 0 \/ UNCHANGED breakerVars
<1>t. failures \in Nat /\ cb \in {"closed", "open", "half_open"}
  BY DEF BreakerTypeOK
<1>c. Cardinality(inFlight) \in Nat
  BY InFlightFinite
<1>1. ASSUME NEW r \in Reqs, Gate(r) PROVE FALSE
  BY <1>1, <1>t DEF Gate
<1>2. ASSUME NEW r \in Reqs, Succeeds(r)
      PROVE  cb = "open" /\ failures' + Cardinality(inFlight') <= failures + Cardinality(inFlight)
  <2>1. r \in inFlight /\ inFlight' = inFlight \ {r}
    BY <1>2 DEF Succeeds
  <2>2. cb = "open" /\ failures' = failures
    BY <1>2, <1>t DEF Succeeds, RecordSuccess
  <2>3. QED BY <1>t, <1>c, <2>1, <2>2, AnswerLeaves
<1>3. ASSUME NEW r \in Reqs, Fails(r)
      PROVE  IF cb = "open"
             THEN failures' + Cardinality(inFlight') <= failures + Cardinality(inFlight)
             ELSE failures' = 0
  <2>1. r \in inFlight /\ inFlight' = inFlight \ {r}
    BY <1>3 DEF Fails
  <2>2. CASE cb = "open"
    <3>1. failures' = failures + 1
      BY <1>3, <2>2 DEF Fails, RecordFailure, Trips
    <3>2. QED BY <1>t, <1>c, <2>1, <2>2, <3>1, AnswerLeaves
  <2>3. CASE cb # "open"
    BY <1>3, <1>t, <2>3 DEF Fails, RecordFailure, Trips
  <2>4. QED BY <2>2, <2>3
<1>4. ASSUME NEW r \in Reqs, Cancelled(r)
      PROVE  cb = "open" /\ failures' + Cardinality(inFlight') <= failures + Cardinality(inFlight)
  <2>1. r \in inFlight /\ inFlight' = inFlight \ {r} /\ cb = "open" /\ failures' = failures
    BY <1>4 DEF Cancelled
  <2>2. QED BY <1>t, <1>c, <2>1, AnswerLeaves
<1>5. ASSUME UNCHANGED <<cb, failures, inFlight>>
      PROVE  cb = "open" /\ failures' + Cardinality(inFlight') <= failures + Cardinality(inFlight)
  BY <1>5, <1>t, <1>c
<1>6. QED BY <1>1, <1>2, <1>3, <1>4, <1>5 DEF BreakerNext, CoolDown, ProviderChanges, breakerVars

\* The count of failures cannot drift away during an outage: the breaker opens with a zero
\* count, and while it is open it counts only requests that were past the gate when it
\* opened (record_failure, is_open), however many those are.
THEOREM OpenCountCorrect == BreakerSpec => OpenCountBounded
<1>1. BreakerTypeOK /\ [BreakerNext]_breakerVars
        => [cb' = "open" =>
              IF cb = "open"
              THEN failures' + Cardinality(inFlight') <= failures + Cardinality(inFlight)
              ELSE failures' = 0]_breakerVars
  BY OpenCountStep DEF breakerVars
<1>2. QED BY TypeInit, TypeStep, <1>1, PTL DEF BreakerSpec, OpenCountBounded

-----------------------------------------------------------------------------
(***************************************************************************)
(* For every set of speakers and loop tasks and every number of stops, an  *)
(* audio track never carries a voice that was cut off, and two voices      *)
(* never mix on it.                                                        *)
(***************************************************************************)

\* A voice that was cut off has begun, and both numbers it may compare with the
\* generation are older than it: the generation only grows.
Overtaken ==
  \A v \in silenced :
    /\ pc[v] \in {"ready", "speaking", "done"}
    /\ born[v] < generation
    /\ v \in Loops => looped[v] < generation

\* Generations tell voices apart, and a voice that speaks has one.
OwnGeneration ==
  /\ \A v, w \in Voices : born[v] = born[w] /\ born[v] > 0 => v = w
  /\ \A v \in Voices : pc[v] = "speaking" => born[v] > 0

\* The last frame heard is of its voice's generation, or of an earlier one of the same voice.
HeardIsBorn ==
  /\ heard[2] = NoTask => heard[1] = 0
  /\ heard[2] \in Voices => heard[1] <= born[heard[2]]

TrackIInv == TrackTypeOK /\ Overtaken /\ OwnGeneration /\ HeardIsBorn

-----------------------------------------------------------------------------

\* The initial state: nobody has spoken.
LEMMA TrackInitInv == TrackInit => TrackIInv
<1> SUFFICES ASSUME TrackInit PROVE TrackIInv
    OBVIOUS
<1> USE TrackAssumption DEF TrackAssumption, TrackInit, Voices
<1>1. TrackTypeOK
  <2>1. generation \in Nat /\ playing = NoTask /\ stops \in 0..MaxStops
    OBVIOUS
  <2>4. source \in BOOLEAN /\ cancelled \subseteq Loops /\ silenced \subseteq Voices
    OBVIOUS
  <2>2. /\ pc \in [Voices -> {"idle", "started", "ready", "speaking", "done"}]
        /\ born \in [Voices -> 0..generation] /\ looped \in [Loops -> 0..generation]
    OBVIOUS
  <2>3. heard \in (0..generation) \X (Voices \cup {NoTask})
    OBVIOUS
  <2> QED
    BY <2>1, <2>2, <2>3, <2>4 DEF TrackTypeOK
<1>2. Overtaken /\ OwnGeneration /\ HeardIsBorn
  BY DEF Overtaken, OwnGeneration, HeardIsBorn
<1> QED
  BY <1>1, <1>2 DEF TrackIInv

\* A growing generation keeps the type of what was heard.
LEMMA HeardTyped ==
  ASSUME TrackTypeOK, heard' = heard, generation' \in Nat, generation <= generation'
  PROVE  heard' \in (0..generation') \X (Voices \cup {NoTask})
<1>1. 0..generation \subseteq 0..generation'
  BY DEF TrackTypeOK
<1>2. heard \in (0..generation) \X (Voices \cup {NoTask})
  BY DEF TrackTypeOK
<1> QED
  BY <1>1, <1>2

\* A voice that takes the track over gets a generation nobody had, and whoever was on the
\* track falls behind it.
LEMMA SpeakKeeps ==
  ASSUME TrackIInv, NEW v \in Voices, Speak(v), pc[v] \in {"started", "ready"},
         pc[v] = "ready" => (v \in Loops /\ looped[v] = generation)
  PROVE  TrackIInv'
<1> USE TrackAssumption DEF TrackAssumption, TrackIInv, Speak, StopVoices, AfterStop, Goto, Voices
<1>1. /\ generation' = generation + 2
      /\ born' = [born EXCEPT ![v] = generation + 2]
      /\ pc' = [pc EXCEPT ![v] = "speaking"]
  BY DEF TrackTypeOK
<1>2. TrackTypeOK'
  <2>1. /\ generation' \in Nat /\ source' \in BOOLEAN /\ playing' = NoTask
        /\ cancelled' \subseteq Loops /\ silenced' \subseteq Voices /\ stops' \in 0..MaxStops
    BY <1>1 DEF TrackTypeOK, Live
  <2>2. /\ pc' \in [Voices -> {"idle", "started", "ready", "speaking", "done"}]
        /\ born' \in [Voices -> 0..generation'] /\ looped' \in [Loops -> 0..generation']
    BY <1>1 DEF TrackTypeOK
  <2>3. heard' \in (0..generation') \X (Voices \cup {NoTask})
    BY <1>1, HeardTyped DEF TrackTypeOK
  <2> QED
    BY <2>1, <2>2, <2>3 DEF TrackTypeOK
<1>3. v \notin silenced'
  <2>1. v \notin silenced
    BY DEF Overtaken, TrackTypeOK
  <2> QED
    BY <2>1
<1>4. \A w \in silenced' : w # v /\ w \in Voices /\ (w \in silenced \/ w \in Live)
  BY <1>3 DEF Live, TrackTypeOK
<1>5. Overtaken'
  BY <1>1, <1>4 DEF Overtaken, TrackTypeOK, Live
<1>6. OwnGeneration'
  BY <1>1 DEF OwnGeneration, TrackTypeOK
<1>7. HeardIsBorn'
  BY <1>1 DEF HeardIsBorn, TrackTypeOK
<1> QED
  BY <1>2, <1>5, <1>6, <1>7

\* loop() cuts everybody off and gives its task a generation of its own.
LEMMA LoopKeeps ==
  ASSUME TrackIInv, NEW t \in Loops, Loop(t)
  PROVE  TrackIInv'
<1> USE TrackAssumption DEF TrackAssumption, TrackIInv, Loop, AfterStop, Goto, Voices
<1>1. /\ generation' = generation + 2
      /\ looped' = [looped EXCEPT ![t] = generation + 2]
      /\ pc' = [pc EXCEPT ![t] = "ready"]
  BY DEF TrackTypeOK
<1>2. TrackTypeOK'
  <2>1. /\ generation' \in Nat /\ source' \in BOOLEAN /\ playing' = t /\ pc'[t] = "ready"
        /\ cancelled' \subseteq Loops /\ silenced' \subseteq Voices /\ stops' \in 0..MaxStops
    BY <1>1 DEF TrackTypeOK, Live
  <2>2. /\ pc' \in [Voices -> {"idle", "started", "ready", "speaking", "done"}]
        /\ born' \in [Voices -> 0..generation'] /\ looped' \in [Loops -> 0..generation']
    BY <1>1 DEF TrackTypeOK
  <2>3. heard' \in (0..generation') \X (Voices \cup {NoTask})
    BY <1>1, HeardTyped DEF TrackTypeOK
  <2> QED
    BY <2>1, <2>2, <2>3 DEF TrackTypeOK
<1>3. \A w \in silenced' : w # t /\ w \in Voices /\ (w \in silenced \/ w \in Live)
  BY DEF Live, TrackTypeOK, Overtaken
<1>4. Overtaken'
  BY <1>1, <1>3 DEF Overtaken, TrackTypeOK, Live
<1>5. OwnGeneration' /\ HeardIsBorn'
  BY <1>1 DEF OwnGeneration, HeardIsBorn, TrackTypeOK
<1> QED
  BY <1>2, <1>4, <1>5

\* stop() and aclose() leave everybody behind.
LEMMA StopKeeps ==
  ASSUME TrackIInv, StopOrClose
  PROVE  TrackIInv'
<1> USE TrackAssumption DEF TrackAssumption, TrackIInv, StopOrClose, StopVoices, AfterStop, Voices
<1>1. TrackTypeOK'
  <2>1. /\ generation' \in Nat /\ playing' = NoTask /\ stops' \in 0..MaxStops
        /\ cancelled' \subseteq Loops /\ silenced' \subseteq Voices
    BY DEF TrackTypeOK, Live
  <2>4. source' \in BOOLEAN
    BY Zenon DEF TrackTypeOK
  <2>2. /\ pc' \in [Voices -> {"idle", "started", "ready", "speaking", "done"}]
        /\ born' \in [Voices -> 0..generation'] /\ looped' \in [Loops -> 0..generation']
    BY DEF TrackTypeOK
  <2>3. heard' \in (0..generation') \X (Voices \cup {NoTask})
    BY HeardTyped DEF TrackTypeOK
  <2> QED
    BY <2>1, <2>2, <2>3, <2>4 DEF TrackTypeOK
<1>2. Overtaken'
  BY DEF Overtaken, TrackTypeOK, Live
<1>3. OwnGeneration' /\ HeardIsBorn'
  BY DEF OwnGeneration, HeardIsBorn, TrackTypeOK
<1> QED
  BY <1>1, <1>2, <1>3

\* A voice that starts, ends a sentence or dies moves no generation.
LEMMA StandingKeeps ==
  ASSUME TrackIInv, NEW v \in Voices,
         \/ Start(v)
         \/ PlayEnds(v)
         \/ v \in Loops /\ LoopDies(v)
  PROVE  TrackIInv'
<1> USE TrackAssumption DEF TrackAssumption, TrackIInv, Start, PlayEnds, LoopDies, Goto, Voices
<1>1. TrackTypeOK'
  BY DEF TrackTypeOK
<1>2. Overtaken'
  BY DEF Overtaken, TrackTypeOK
<1>3. OwnGeneration' /\ HeardIsBorn'
  BY DEF OwnGeneration, HeardIsBorn, TrackTypeOK
<1> QED
  BY <1>1, <1>2, <1>3

\* A frame is heard under the generation of the voice that wrote it.
LEMMA FrameKeeps ==
  ASSUME TrackIInv, NEW v \in Voices, Frame(v)
  PROVE  TrackIInv'
<1> USE TrackAssumption DEF TrackAssumption, TrackIInv, Frame, Writes, Voices
<1>1. heard' = <<born[v], v>>
  OBVIOUS
<1>2. TrackTypeOK'
  BY <1>1 DEF TrackTypeOK
<1>3. Overtaken' /\ OwnGeneration'
  BY DEF Overtaken, OwnGeneration
<1>4. HeardIsBorn'
  BY <1>1 DEF HeardIsBorn, TrackTypeOK
<1> QED
  BY <1>2, <1>3, <1>4

\* Every step keeps the invariant.
LEMMA TrackNextInv == TrackIInv /\ [TrackNext]_trackVars => TrackIInv'
<1> SUFFICES ASSUME TrackIInv, [TrackNext]_trackVars PROVE TrackIInv'
    OBVIOUS
<1>1. ASSUME NEW v \in Voices, Start(v) \/ Frame(v) \/ PlayEnds(v) PROVE TrackIInv'
  BY <1>1, StandingKeeps, FrameKeeps
<1>2. ASSUME NEW p \in Speakers, Play(p) PROVE TrackIInv'
  BY <1>2, SpeakKeeps DEF Play, Voices
<1>3. ASSUME NEW t \in Loops, Loop(t) \/ LoopRound(t) \/ LoopDies(t) PROVE TrackIInv'
  <2>1. CASE Loop(t)
    BY <2>1, LoopKeeps
  <2>2. CASE LoopRound(t)
    BY <2>2, SpeakKeeps DEF LoopRound, Voices
  <2>3. CASE LoopDies(t)
    BY <2>3, StandingKeeps DEF Voices
  <2> QED
    BY <1>3, <2>1, <2>2, <2>3
<1>4. CASE StopOrClose
  BY <1>4, StopKeeps
<1>5. CASE UNCHANGED trackVars
  BY <1>5 DEF trackVars, TrackIInv, TrackTypeOK, Overtaken, OwnGeneration, HeardIsBorn
<1> QED
  BY <1>1, <1>2, <1>3, <1>4, <1>5 DEF TrackNext

\* A generation that is behind cannot write.
LEMMA InvSound == TrackIInv => TrackSound
BY DEF TrackIInv, TrackSound, StopSilences, Overtaken, Writes, TrackTypeOK

\* Who was cut off by stop(), aclose() or a newer voice never writes another frame
\* (IsolatedTrack's generation counter).
THEOREM SilenceHolds == TrackSpec => []TrackSound
<1>1. TrackInit => TrackIInv
  BY TrackInitInv
<1>2. TrackIInv /\ [TrackNext]_trackVars => TrackIInv'
  BY TrackNextInv
<1>3. TrackIInv => TrackSound
  BY InvSound
<1> QED
  BY <1>1, <1>2, <1>3, PTL DEF TrackSpec

\* Only a frame changes what is heard, and a frame of another voice is of a later generation.
LEMMA NextVoice == TrackIInv /\ [TrackNext]_trackVars => [heard'[2] # heard[2] => heard'[1] > heard[1]]_heard
<1> SUFFICES ASSUME TrackIInv, [TrackNext]_trackVars, heard' # heard, heard'[2] # heard[2]
             PROVE  heard'[1] > heard[1]
    OBVIOUS
<1>1. PICK v \in Voices : Frame(v)
  BY DEF TrackNext, trackVars, Start, PlayEnds, Play, Speak, Loop, LoopRound, LoopDies, StopOrClose
<1>2. heard' = <<born[v], v>> /\ born[v] = generation /\ generation > 0
  BY <1>1 DEF Frame, Writes, TrackIInv, OwnGeneration
<1>3. heard[1] \in Nat /\ heard[1] <= generation /\ heard[2] \in Voices \cup {NoTask}
  BY DEF TrackIInv, TrackTypeOK
<1>4. CASE heard[2] = NoTask
  BY <1>2, <1>3, <1>4 DEF TrackIInv, HeardIsBorn
<1>5. CASE heard[2] \in Voices
  <2>1. born[heard[2]] # generation
    BY <1>2, <1>5 DEF TrackIInv, OwnGeneration
  <2>2. born[heard[2]] \in 0..generation /\ heard[1] <= born[heard[2]]
    BY <1>5 DEF TrackIInv, TrackTypeOK, HeardIsBorn
  <2> QED
    BY <1>2, <1>3, <2>1, <2>2 DEF TrackIInv, TrackTypeOK
<1> QED
  BY <1>3, <1>4, <1>5

\* Two voices never mix on one track, and an older voice never comes back (play and loop
\* compare the generation they began with before each frame).
THEOREM VoicesDoNotMix == TrackSpec => OneVoice
<1>1. TrackInit => TrackIInv
  BY TrackInitInv
<1>2. TrackIInv /\ [TrackNext]_trackVars => TrackIInv'
  BY TrackNextInv
<1>3. TrackIInv /\ [TrackNext]_trackVars => [heard'[2] # heard[2] => heard'[1] > heard[1]]_heard
  BY NextVoice
<1> QED
  BY <1>1, <1>2, <1>3, PTL DEF TrackSpec, OneVoice

-----------------------------------------------------------------------------
(***************************************************************************)
(* For every queue limit, batch size, number of utterances and of failed   *)
(* writes: the transcript keeps the order of the conversation, accounts    *)
(* for every utterance, and gets its batch when the call ends.             *)
(***************************************************************************)

Climbs(s)   == \A i, j \in DOMAIN s : i < j => s[i] < s[j]
Below(s, t) == \A i \in DOMAIN s, j \in DOMAIN t : s[i] < t[j]
UpTo(s, n)  == \A i \in DOMAIN s : s[i] <= n

\* InOrder, said of the table, the batch and the queue one by one, so that a part may
\* go; and no utterance is ahead of the count.
Parted ==
  /\ Climbs(rows) /\ Climbs(batch) /\ Climbs(queue)
  /\ Below(rows, batch) /\ Below(rows, queue) /\ Below(batch, queue)
  /\ UpTo(rows, sequence) /\ UpTo(batch, sequence) /\ UpTo(queue, sequence)

\* Only one coroutine drains, and only while it writes is there a batch.
Handover ==
  /\ closer # "open" <=> flusher = "stopped"
  /\ ~Writing => batch = <<>> /\ ~counted

\* What aclose found is at the front of the queue; then the batch holds all of it or as
\* much as a batch holds.
Owed ==
  /\ \A r \in owed : r <= sequence
  /\ closer = "open" => owed = {}
  /\ closer = "draining" =>
       /\ owed \subseteq ToSet(queue)
       /\ \A i, j \in DOMAIN queue : i < j /\ queue[j] \in owed => queue[i] \in owed
  /\ closer = "writing" => \/ owed \subseteq ToSet(batch)
                           \/ ToSet(batch) \subseteq owed /\ Len(batch) = BatchSize

ObserverIInv == ObserverTypeOK /\ Parted /\ Handover /\ NothingUnaccounted /\ Owed /\ CloseWritesABatch

-----------------------------------------------------------------------------
(* Sequences that climb *)

\* Utterances and positions are numbers.
LEMMA Typed ==
  ASSUME NEW s \in Seq(Records)
  PROVE  /\ Len(s) \in Nat /\ DOMAIN s = 1..Len(s)
         /\ \A i \in DOMAIN s : s[i] \in Records /\ s[i] \in Nat /\ i \in Nat /\ i <= Len(s)
<1>1. \A r \in Records : r \in Nat
  BY DEF Records
<1>2. Len(s) \in Nat /\ DOMAIN s = 1..Len(s) /\ \A i \in DOMAIN s : s[i] \in Records
  OBVIOUS
<1> QED
  BY <1>1, <1>2

\* Appending a later utterance.
LEMMA Appends ==
  ASSUME NEW s \in Seq(Records), NEW x \in Records
  PROVE  /\ Append(s, x) \in Seq(Records) /\ Len(Append(s, x)) = Len(s) + 1
         /\ \A i \in DOMAIN Append(s, x) : \/ i \in DOMAIN s /\ Append(s, x)[i] = s[i]
                                           \/ i = Len(s) + 1 /\ Append(s, x)[i] = x
         /\ \A i \in DOMAIN s : i \in DOMAIN Append(s, x) /\ Append(s, x)[i] = s[i]
OBVIOUS

\* Cutting a sequence in two.
LEMMA Splits ==
  ASSUME NEW s \in Seq(Records), NEW n \in 0..Len(s)
  PROVE  /\ SubSeq(s, 1, n) \in Seq(Records) /\ Len(SubSeq(s, 1, n)) = n
         /\ \A i \in 1..n : SubSeq(s, 1, n)[i] = s[i]
         /\ SubSeq(s, n + 1, Len(s)) \in Seq(Records)
         /\ Len(SubSeq(s, n + 1, Len(s))) = Len(s) - n
         /\ \A i \in 1..(Len(s) - n) : SubSeq(s, n + 1, Len(s))[i] = s[n + i]
<1>1. n \in Int /\ Len(s) \in Nat /\ \A i \in 1..Len(s) : s[i] \in Records
  OBVIOUS
<1>2. /\ SubSeq(s, 1, n) \in Seq(Records)
      /\ Len(SubSeq(s, 1, n)) = IF 1 <= n THEN n - 1 + 1 ELSE 0
      /\ \A i \in 1..(n - 1 + 1) : SubSeq(s, 1, n)[i] = s[1 + i - 1]
  <2>1. \A i \in 1..n : s[i] \in Records
    BY <1>1
  <2> QED
    BY <1>1, <2>1, SubSeqProperties
<1>3. /\ SubSeq(s, n + 1, Len(s)) \in Seq(Records)
      /\ Len(SubSeq(s, n + 1, Len(s))) = IF n + 1 <= Len(s) THEN Len(s) - (n + 1) + 1 ELSE 0
      /\ \A i \in 1..(Len(s) - (n + 1) + 1) : SubSeq(s, n + 1, Len(s))[i] = s[(n + 1) + i - 1]
  <2>1. n + 1 \in Int /\ Len(s) \in Int /\ \A i \in (n + 1)..Len(s) : s[i] \in Records
    BY <1>1
  <2> HIDE DEF Records
  <2> QED
    BY <2>1, SubSeqProperties
<1> QED
  BY <1>1, <1>2, <1>3

\* Putting a sequence behind another.
LEMMA Joins ==
  ASSUME NEW s \in Seq(Records), NEW t \in Seq(Records)
  PROVE  /\ s \o t \in Seq(Records) /\ Len(s \o t) = Len(s) + Len(t)
         /\ \A i \in DOMAIN (s \o t) : \/ i \in DOMAIN s /\ (s \o t)[i] = s[i]
                                       \/ /\ i - Len(s) \in DOMAIN t /\ i > Len(s)
                                          /\ (s \o t)[i] = t[i - Len(s)]
         /\ \A i \in DOMAIN s : i \in DOMAIN (s \o t) /\ (s \o t)[i] = s[i]
         /\ \A i \in DOMAIN t : i + Len(s) \in DOMAIN (s \o t) /\ (s \o t)[i + Len(s)] = t[i]
OBVIOUS

\* It still climbs when the first part is below the second.
LEMMA JoinsClimb ==
  ASSUME NEW s \in Seq(Records), NEW t \in Seq(Records), Climbs(s), Climbs(t), Below(s, t)
  PROVE  Climbs(s \o t)
<1>1. \A i \in DOMAIN s : s[i] \in Nat /\ i \in Nat /\ i <= Len(s)
  BY Typed
<1>2. \A i \in DOMAIN t : t[i] \in Nat /\ i \in Nat
  BY Typed
<1>3. SUFFICES ASSUME NEW i \in DOMAIN (s \o t), NEW j \in DOMAIN (s \o t), i < j
               PROVE  (s \o t)[i] < (s \o t)[j]
  BY DEF Climbs
<1>4. i \in Nat /\ j \in Nat /\ Len(s) \in Nat
  BY Joins
<1>5. \/ i \in DOMAIN s /\ (s \o t)[i] = s[i]
      \/ i - Len(s) \in DOMAIN t /\ i > Len(s) /\ (s \o t)[i] = t[i - Len(s)]
  BY Joins
<1>6. \/ j \in DOMAIN s /\ (s \o t)[j] = s[j]
      \/ j - Len(s) \in DOMAIN t /\ j > Len(s) /\ (s \o t)[j] = t[j - Len(s)]
  BY Joins
<1> QED
  BY <1>1, <1>2, <1>3, <1>4, <1>5, <1>6 DEF Climbs, Below

\* A climbing sequence holds as many utterances as it is long.
LEMMA ClimbingSize ==
  ASSUME NEW s \in Seq(Records), Climbs(s)
  PROVE  IsFiniteSet(ToSet(s)) /\ Cardinality(ToSet(s)) = Len(s)
<1>1. Len(s) \in Nat /\ DOMAIN s = 1..Len(s)
  OBVIOUS
<1>2. s \in Bijection(1..Len(s), ToSet(s))
  <2>1. \A i, j \in 1..Len(s) : s[i] = s[j] => i = j
    <3>1. SUFFICES ASSUME NEW i \in 1..Len(s), NEW j \in 1..Len(s), s[i] = s[j], i # j
                   PROVE  FALSE
      OBVIOUS
    <3>2. s[i] \in Nat /\ s[j] \in Nat /\ (i < j \/ j < i)
      BY <1>1, <3>1, Typed
    <3> QED
      BY <1>1, <3>1, <3>2 DEF Climbs
  <2>2. s \in [1..Len(s) -> ToSet(s)] /\ \A r \in ToSet(s) : \E i \in 1..Len(s) : s[i] = r
    BY <1>1 DEF ToSet
  <2> QED
    BY <2>1, <2>2 DEF Bijection, Injection, Surjection, IsInjective
<1>3. IsFiniteSet(1..Len(s)) /\ Cardinality(1..Len(s)) = Len(s)
  BY <1>1, FS_Interval
<1>4. ExistsBijection(1..Len(s), ToSet(s))
  BY <1>2 DEF ExistsBijection
<1>5. IsFiniteSet(ToSet(s)) /\ Cardinality(ToSet(s)) = Cardinality(1..Len(s))
  BY <1>3, <1>4, FS_Bijection
<1> QED
  BY <1>3, <1>5

-----------------------------------------------------------------------------
(* Steps *)

\* A call that has just begun has recorded nothing.
LEMMA ObserverInitInv == ObserverInit => ObserverIInv
<1> SUFFICES ASSUME ObserverInit PROVE ObserverIInv
    OBVIOUS
<1> USE ObserverAssumption DEF ObserverAssumption, ObserverInit
<1>1. ObserverTypeOK
  <2>1. /\ 0 \in 0..MaxRecords /\ 0 \in 0..MaxFaults
        /\ <<>> \in Seq(Records) /\ Len(<<>>) = 0 /\ 0 <= QueueLimit
    OBVIOUS
  <2> QED
    BY <2>1 DEF ObserverTypeOK
<1>2. Parted
  BY DEF Parted, Climbs, Below, UpTo
<1>3. Handover /\ NothingUnaccounted /\ Owed /\ CloseWritesABatch
  BY DEF Handover, Writing, NothingUnaccounted, Owed, CloseWritesABatch
<1> QED
  BY <1>1, <1>2, <1>3 DEF ObserverIInv

\* A new utterance is later than every other.
LEMMA RecordKeeps == ObserverIInv /\ Record => ObserverIInv'
<1> SUFFICES ASSUME ObserverIInv, Record PROVE ObserverIInv'
    OBVIOUS
<1> USE ObserverAssumption DEF ObserverAssumption
<1>1. /\ sequence' = sequence + 1 /\ sequence \in Nat /\ sequence' \in Records
      /\ sequence' \in 0..MaxRecords /\ sequence' \in Nat
      /\ UNCHANGED <<batch, counted, flusher, closer, rows, segmentsWritten, faults, owed>>
      /\ queue \in Seq(Records) /\ rows \in Seq(Records) /\ batch \in Seq(Records)
      /\ closer # "closed"
  BY DEF ObserverIInv, ObserverTypeOK, Record, Records
<1>2. \/ queue' = queue /\ dropped' = dropped + 1
      \/ queue' = Append(queue, sequence') /\ dropped' = dropped /\ Len(queue) < QueueLimit
  BY DEF Record
<1>3. /\ queue' \in Seq(Records) /\ Len(queue') <= QueueLimit
      /\ Len(queue') + dropped' = Len(queue) + dropped + 1
      /\ \A i \in DOMAIN queue : i \in DOMAIN queue' /\ queue'[i] = queue[i]
      /\ \A i \in DOMAIN queue' : \/ i \in DOMAIN queue /\ queue'[i] = queue[i]
                                  \/ i = Len(queue) + 1 /\ queue'[i] = sequence'
  <2>1. Len(queue) \in Nat /\ Len(queue) <= QueueLimit /\ dropped \in Nat
    BY Typed DEF ObserverIInv, ObserverTypeOK
  <2>2. CASE queue' = queue /\ dropped' = dropped + 1
    BY <1>1, <2>1, <2>2
  <2>3. CASE queue' = Append(queue, sequence') /\ dropped' = dropped /\ Len(queue) < QueueLimit
    <3>1. /\ queue' \in Seq(Records) /\ Len(queue') = Len(queue) + 1
          /\ \A i \in DOMAIN queue : i \in DOMAIN queue' /\ queue'[i] = queue[i]
          /\ \A i \in DOMAIN queue' : \/ i \in DOMAIN queue /\ queue'[i] = queue[i]
                                      \/ i = Len(queue) + 1 /\ queue'[i] = sequence'
      BY <1>1, <2>3, Appends
    <3> QED
      BY <2>1, <2>3, <3>1
  <2> QED
    BY <1>2, <2>2, <2>3
<1>4. ObserverTypeOK'
  <2>1. batch' \in Seq(Records)
    BY <1>1, <1>2
  <2> QED
    BY <1>1, <1>2, <1>3, <2>1 DEF ObserverIInv, ObserverTypeOK
<1>5. Parted'
  <2>1. UpTo(rows', sequence') /\ UpTo(batch', sequence') /\ UpTo(queue', sequence')
    BY <1>1, <1>3, Typed DEF ObserverIInv, Parted, UpTo
  <2>2. Climbs(queue')
    <3>1. SUFFICES ASSUME NEW i \in DOMAIN queue', NEW j \in DOMAIN queue', i < j
                   PROVE  queue'[i] < queue'[j]
      BY DEF Climbs
    <3>2. i \in 1..Len(queue') /\ j \in 1..Len(queue') /\ Len(queue) \in Nat /\ DOMAIN queue = 1..Len(queue)
      BY <1>1, <1>3, Typed
    <3>3. i \in DOMAIN queue /\ queue'[i] = queue[i]
      BY <1>3, <3>1, <3>2
    <3>4. queue[i] \in Nat /\ queue[i] <= sequence
      BY <1>1, <3>3, Typed DEF ObserverIInv, Parted, UpTo
    <3> QED
      BY <1>1, <1>3, <3>1, <3>3, <3>4 DEF ObserverIInv, Parted, Climbs
  <2>3. Below(rows', queue') /\ Below(batch', queue')
    <3>1. ASSUME NEW s \in {rows, batch}
          PROVE  Below(s, queue')
      <4>1. Below(s, queue) /\ UpTo(s, sequence) /\ \A i \in DOMAIN s : s[i] \in Nat
        BY <1>1, Typed DEF ObserverIInv, Parted
      <4>2. ASSUME NEW i \in DOMAIN s, NEW j \in DOMAIN queue'
            PROVE  s[i] < queue'[j]
        <5>1. CASE j \in DOMAIN queue /\ queue'[j] = queue[j]
          BY <4>1, <5>1 DEF Below
        <5>2. CASE queue'[j] = sequence'
          BY <1>1, <4>1, <5>2 DEF UpTo
        <5> QED
          BY <1>3, <5>1, <5>2
      <4> QED
        BY <4>2 DEF Below
    <3> QED
      BY <1>1, <3>1
  <2> QED
    BY <1>1, <2>1, <2>2, <2>3 DEF ObserverIInv, Parted
<1>6. Handover'
  BY <1>1 DEF ObserverIInv, Handover, Writing
<1>7. NothingUnaccounted'
  <2>1. /\ Len(queue) \in Nat /\ Len(rows) \in Nat /\ Len(batch) \in Nat /\ Len(queue') \in Nat
        /\ dropped \in Nat /\ dropped' \in Nat
    BY <1>1, <1>2, <1>3, Typed DEF ObserverIInv, ObserverTypeOK
  <2>2. Len(queue') + dropped' = Len(queue) + dropped + 1
    BY <1>3
  <2>3. faults = 0 /\ closer = "open" =>
          Len(rows) + Len(batch) + Len(queue) + dropped = sequence
    BY DEF ObserverIInv, NothingUnaccounted
  <2>4. faults = 0 /\ closer = "open" =>
          Len(rows) + Len(batch) + Len(queue') + dropped' = sequence + 1
    <3>1. SUFFICES ASSUME Len(rows) + Len(batch) + Len(queue) + dropped = sequence
                   PROVE  Len(rows) + Len(batch) + Len(queue') + dropped' = sequence + 1
      BY <2>3
    <3>2. Len(rows) + Len(batch) + (Len(queue) + dropped + 1) = sequence + 1
      BY <1>1, <2>1, <3>1
    <3>3. Len(rows) + Len(batch) + (Len(queue') + dropped') = sequence + 1
      BY <2>2, <3>2
    <3> QED
      BY <2>1, <3>3
  <2> QED
    BY <1>1, <2>4 DEF NothingUnaccounted
<1>8. Owed'
  <2>1. \A r \in owed : r <= sequence /\ r \in Nat
    BY DEF ObserverIInv, Owed, ObserverTypeOK, Records
  <2>2. CASE closer = "draining"
    <3>1. ToSet(queue) \subseteq ToSet(queue')
      BY <1>3 DEF ToSet
    <3>2. ASSUME NEW i \in DOMAIN queue', NEW j \in DOMAIN queue', i < j, queue'[j] \in owed
          PROVE  queue'[i] \in owed
      <4>1. j \in DOMAIN queue /\ queue'[j] = queue[j]
        BY <1>1, <1>3, <2>1, <3>2
      <4>2. i \in DOMAIN queue
        BY <1>1, <1>3, <3>2, <4>1, Typed
      <4> QED
        BY <1>3, <2>2, <3>2, <4>1, <4>2 DEF ObserverIInv, Owed
    <3> QED
      BY <1>1, <2>1, <2>2, <3>1, <3>2 DEF ObserverIInv, Owed
  <2>3. CASE closer # "draining"
    BY <1>1, <2>1, <2>3 DEF ObserverIInv, Owed
  <2> QED
    BY <2>2, <2>3
<1>9. CloseWritesABatch'
  BY <1>1 DEF CloseWritesABatch
<1> QED
  BY <1>4, <1>5, <1>6, <1>7, <1>8, <1>9 DEF ObserverIInv

\* A batch is the front of the queue.
LEMMA TakeKeeps ==
  ASSUME ObserverIInv, Take, batch = <<>>, UNCHANGED <<sequence, rows>>
  PROVE  /\ Parted' /\ queue' \in Seq(Records) /\ batch' \in Seq(Records)
         /\ Len(queue') <= QueueLimit /\ Len(batch') + Len(queue') = Len(queue)
         /\ Len(batch') \in {BatchSize, Len(queue)}
         /\ \A i \in DOMAIN batch' : i \in DOMAIN queue /\ batch'[i] = queue[i]
         /\ \A i \in DOMAIN queue' : /\ i + Len(batch') \in DOMAIN queue
                                     /\ queue'[i] = queue[i + Len(batch')]
         /\ \A i \in DOMAIN queue : \/ i \in DOMAIN batch'
                                    \/ Len(batch') = BatchSize /\ \A k \in DOMAIN batch' : k < i
<1> USE ObserverAssumption DEF ObserverAssumption
<1>1. /\ queue \in Seq(Records) /\ rows \in Seq(Records) /\ Len(queue) \in Nat
      /\ Len(queue) <= QueueLimit
  BY Typed DEF ObserverIInv, ObserverTypeOK
<1>2. /\ BatchLen \in 0..Len(queue) /\ BatchLen \in {BatchSize, Len(queue)}
      /\ BatchLen # BatchSize => BatchLen = Len(queue)
  BY <1>1 DEF BatchLen
<1>3. batch' = SubSeq(queue, 1, BatchLen) /\ queue' = SubSeq(queue, BatchLen + 1, Len(queue))
  BY DEF Take
<1> HIDE DEF BatchLen
<1>4. /\ batch' \in Seq(Records) /\ Len(batch') = BatchLen
      /\ \A i \in 1..BatchLen : batch'[i] = queue[i]
      /\ queue' \in Seq(Records) /\ Len(queue') = Len(queue) - BatchLen
      /\ \A i \in 1..(Len(queue) - BatchLen) : queue'[i] = queue[BatchLen + i]
  BY <1>1, <1>2, <1>3, Splits
<1>5. /\ DOMAIN batch' = 1..BatchLen /\ DOMAIN queue' = 1..(Len(queue) - BatchLen)
      /\ DOMAIN queue = 1..Len(queue) /\ BatchLen \in Nat
  BY <1>1, <1>2, <1>4
<1>6. /\ \A i \in DOMAIN batch' : i \in DOMAIN queue /\ batch'[i] = queue[i]
      /\ \A i \in DOMAIN queue' : i + BatchLen \in DOMAIN queue /\ queue'[i] = queue[i + BatchLen]
      /\ \A i \in DOMAIN queue : i \in DOMAIN batch' \/ i > BatchLen
  BY <1>1, <1>2, <1>4, <1>5
<1>7. Parted'
  <2>1. Climbs(batch') /\ Climbs(queue') /\ Below(batch', queue')
    <3>1. Climbs(queue)
      BY DEF ObserverIInv, Parted
    <3>2. Climbs(batch')
      <4>1. \A i, j \in DOMAIN batch' : i < j => batch'[i] < batch'[j]
        BY <1>6, <3>1 DEF Climbs
      <4> QED
        BY <4>1 DEF Climbs
    <3>3. Climbs(queue')
      <4>1. ASSUME NEW i \in DOMAIN queue', NEW j \in DOMAIN queue', i < j
            PROVE  queue'[i] < queue'[j]
        <5>1. /\ i + BatchLen \in DOMAIN queue /\ queue'[i] = queue[i + BatchLen]
              /\ j + BatchLen \in DOMAIN queue /\ queue'[j] = queue[j + BatchLen]
          BY <1>6
        <5>2. i + BatchLen < j + BatchLen
          BY <1>1, <1>5, <4>1
        <5> QED
          BY <3>1, <5>1, <5>2 DEF Climbs
      <4> QED
        BY <4>1 DEF Climbs
    <3>4. Below(batch', queue')
      <4>1. ASSUME NEW i \in DOMAIN batch', NEW j \in DOMAIN queue'
            PROVE  batch'[i] < queue'[j]
        <5>1. /\ i \in DOMAIN queue /\ batch'[i] = queue[i]
              /\ j + BatchLen \in DOMAIN queue /\ queue'[j] = queue[j + BatchLen]
          BY <1>6
        <5>2. i < j + BatchLen
          BY <1>1, <1>5
        <5> QED
          BY <3>1, <5>1, <5>2 DEF Climbs
      <4> QED
        BY <4>1 DEF Below
    <3> QED
      BY <3>2, <3>3, <3>4
  <2>2. Below(rows, batch') /\ Below(rows, queue') /\ UpTo(batch', sequence) /\ UpTo(queue', sequence)
    <3>1. Below(rows, queue) /\ UpTo(queue, sequence)
      BY DEF ObserverIInv, Parted
    <3> QED
      BY <1>6, <3>1 DEF Below, UpTo
  <2> QED
    BY <2>1, <2>2 DEF ObserverIInv, Parted
<1>8. Len(queue') <= QueueLimit /\ Len(batch') + Len(queue') = Len(queue)
  BY <1>1, <1>2, <1>4
<1>9. \A i \in DOMAIN queue : \/ i \in DOMAIN batch'
                              \/ BatchLen = BatchSize /\ \A k \in DOMAIN batch' : k < i
  <2> SUFFICES ASSUME NEW i \in DOMAIN queue, i \notin DOMAIN batch'
               PROVE  BatchLen = BatchSize /\ \A k \in DOMAIN batch' : k < i
    OBVIOUS
  <2>1. i \in Nat /\ i > BatchLen /\ i <= Len(queue)
    BY <1>1, <1>5, <1>6
  <2>2. BatchLen # Len(queue)
    BY <1>1, <1>5, <2>1
  <2>3. \A k \in 1..BatchLen : k < i
    BY <1>5, <2>1
  <2> QED
    BY <1>2, <1>5, <2>2, <2>3
<1> QED
  BY <1>2, <1>4, <1>6, <1>7, <1>8, <1>9

\* One flush round: the flusher is the only one that drains.
LEMMA FlushKeeps == ObserverIInv /\ Flush => ObserverIInv'
<1> SUFFICES ASSUME ObserverIInv, Flush PROVE ObserverIInv'
    OBVIOUS
<1>1. /\ flusher = "sleeping" /\ flusher' = "writing" /\ Take /\ counted' = FALSE
      /\ UNCHANGED <<sequence, dropped, closer, rows, segmentsWritten, faults, owed>>
  BY DEF Flush, Take
<1>2. closer = "open" /\ batch = <<>>
  BY <1>1 DEF ObserverIInv, Handover, Writing, ObserverTypeOK
<1>3. /\ Parted' /\ queue' \in Seq(Records) /\ batch' \in Seq(Records)
      /\ Len(queue') <= QueueLimit /\ Len(batch') + Len(queue') = Len(queue)
  BY <1>1, <1>2, TakeKeeps
<1>4. ObserverTypeOK'
  BY <1>1, <1>3 DEF ObserverIInv, ObserverTypeOK
<1>5. Handover' /\ Owed' /\ CloseWritesABatch'
  BY <1>1, <1>2 DEF ObserverIInv, Handover, Writing, Owed, CloseWritesABatch
<1>6. NothingUnaccounted'
  <2>1. /\ Len(queue) \in Nat /\ Len(rows) \in Nat /\ Len(batch) = 0 /\ dropped \in Nat
        /\ Len(batch') \in Nat /\ Len(queue') \in Nat
    BY <1>2, <1>3, Typed DEF ObserverIInv, ObserverTypeOK
  <2>2. faults = 0 => Len(rows) + Len(queue) + dropped = sequence
    BY <1>2, <2>1 DEF ObserverIInv, NothingUnaccounted
  <2>3. faults = 0 => Len(rows) + (Len(batch') + Len(queue')) + dropped = sequence
    BY <1>3, <2>2
  <2>4. faults = 0 => Len(rows) + Len(batch') + Len(queue') + dropped = sequence
    BY <2>1, <2>3
  <2> QED
    BY <1>1, <2>4 DEF NothingUnaccounted
<1> QED
  BY <1>3, <1>4, <1>5, <1>6 DEF ObserverIInv

\* The counter of written segments is no part of the transcript.
LEMMA CountKeeps == ObserverIInv /\ Count => ObserverIInv'
<1> SUFFICES ASSUME ObserverIInv, Count PROVE ObserverIInv'
    OBVIOUS
<1>1. /\ Writing /\ counted' = TRUE /\ segmentsWritten' = segmentsWritten + Len(batch)
      /\ UNCHANGED <<sequence, queue, dropped, batch, flusher, closer, rows, faults, owed>>
  BY DEF Count
<1>2. segmentsWritten' \in Nat
  BY <1>1, Typed DEF ObserverIInv, ObserverTypeOK
<1>3. ObserverTypeOK'
  BY <1>1, <1>2 DEF ObserverIInv, ObserverTypeOK
<1> QED
  BY <1>1, <1>3
     DEF ObserverIInv, Parted, Handover, Writing, NothingUnaccounted, Owed, CloseWritesABatch

\* Whoever wrote leaves no batch behind.
LEMMA OverKeeps ==
  ASSUME ObserverIInv, Writing, DrainOver, UNCHANGED <<sequence, queue, owed>>
  PROVE  /\ batch' = <<>> /\ counted' = FALSE /\ Handover' /\ Owed'
         /\ flusher' \in {"sleeping", "stopped"} /\ closer' \in {"open", "draining", "closed"}
         /\ closer' = "closed" => closer = "writing"
         /\ closer' = "open" => closer = "open"
<1>1. /\ batch' = <<>> /\ counted' = FALSE
      /\ flusher' = IF flusher = "writing" THEN "sleeping" ELSE flusher
      /\ closer' = IF closer = "writing" THEN "closed" ELSE closer
  BY DEF DrainOver
<1>2. \/ flusher = "writing" /\ closer = "open"
      \/ flusher = "stopped" /\ closer = "writing"
  BY DEF ObserverIInv, Handover, Writing
<1> QED
  BY <1>1, <1>2 DEF ObserverIInv, Handover, Writing, Owed

\* What the table has gained.
LEMMA RowsJoin ==
  ASSUME ObserverIInv, rows' = rows \o batch
  PROVE  /\ rows' \in Seq(Records) /\ Len(rows') = Len(rows) + Len(batch)
         /\ Climbs(rows') /\ Below(rows', queue) /\ UpTo(rows', sequence)
         /\ ToSet(batch) \subseteq ToSet(rows')
<1>1. /\ rows \in Seq(Records) /\ batch \in Seq(Records)
      /\ Climbs(rows) /\ Climbs(batch) /\ Below(rows, batch) /\ Below(rows, queue)
      /\ Below(batch, queue) /\ UpTo(rows, sequence) /\ UpTo(batch, sequence)
  BY DEF ObserverIInv, ObserverTypeOK, Parted
<1>2. Climbs(rows')
  BY <1>1, JoinsClimb
<1>3. /\ rows' \in Seq(Records) /\ Len(rows') = Len(rows) + Len(batch)
      /\ \A i \in DOMAIN rows' : \/ i \in DOMAIN rows /\ rows'[i] = rows[i]
                                 \/ i - Len(rows) \in DOMAIN batch /\ rows'[i] = batch[i - Len(rows)]
      /\ \A i \in DOMAIN batch : i + Len(rows) \in DOMAIN rows' /\ rows'[i + Len(rows)] = batch[i]
  BY <1>1, Joins
<1>4. Below(rows', queue)
  BY <1>1, <1>3 DEF Below
<1>5. UpTo(rows', sequence)
  BY <1>1, <1>3 DEF UpTo
<1>6. ToSet(batch) \subseteq ToSet(rows')
  <2>1. \A i \in DOMAIN batch : batch[i] \in ToSet(rows')
    BY <1>3 DEF ToSet
  <2>2. \A r \in ToSet(batch) : \E i \in DOMAIN batch : r = batch[i]
    BY DEF ToSet
  <2> QED
    BY <2>1, <2>2
<1> QED
  BY <1>2, <1>3, <1>4, <1>5, <1>6

\* What aclose owed is in the table, or as much of it as a batch holds.
LEMMA Paid ==
  ASSUME ObserverIInv, owed' = owed, rows' \in Seq(Records), ToSet(batch) \subseteq ToSet(rows'),
         owed \subseteq ToSet(batch) \/ (ToSet(batch) \subseteq owed /\ Len(batch) = BatchSize)
  PROVE  CloseWritesABatch'
<1>1. CASE owed \subseteq ToSet(batch)
  <2>1. owed' \cap ToSet(rows') = owed'
    BY <1>1
  <2> QED
    BY <2>1 DEF CloseWritesABatch
<1>2. CASE ToSet(batch) \subseteq owed /\ Len(batch) = BatchSize
  <2>1. IsFiniteSet(owed) /\ ToSet(batch) \subseteq owed \cap ToSet(rows')
    <3>1. IsFiniteSet(Records) /\ owed \subseteq Records
      BY ObserverAssumption, FS_Interval DEF ObserverAssumption, Records, ObserverIInv, ObserverTypeOK
    <3> QED
      BY <1>2, <3>1, FS_Subset
  <2>2. IsFiniteSet(owed \cap ToSet(rows'))
    BY <2>1, FS_Subset
  <2>3. Cardinality(ToSet(batch)) <= Cardinality(owed \cap ToSet(rows'))
    BY <2>1, <2>2, FS_Subset
  <2>4. Cardinality(ToSet(batch)) = BatchSize
    BY <1>2, ClimbingSize DEF ObserverIInv, ObserverTypeOK, Parted
  <2>5. Cardinality(owed \cap ToSet(rows')) \in Nat /\ BatchSize \in Nat
    BY <2>2, FS_CardinalityType, ObserverAssumption DEF ObserverAssumption
  <2> QED
    BY <2>3, <2>4, <2>5 DEF CloseWritesABatch
<1> QED
  BY <1>1, <1>2

\* A committed batch follows the table and precedes the queue.
LEMMA CommitKeeps == ObserverIInv /\ Commit => ObserverIInv'
<1> SUFFICES ASSUME ObserverIInv, Commit PROVE ObserverIInv'
    OBVIOUS
<1>1. /\ Writing /\ DrainOver /\ rows' = rows \o batch
      /\ UNCHANGED <<sequence, queue, dropped, segmentsWritten, faults, owed>>
  BY DEF Commit
<1>2. /\ batch' = <<>> /\ counted' = FALSE /\ Handover' /\ Owed'
      /\ flusher' \in {"sleeping", "stopped"} /\ closer' \in {"open", "draining", "closed"}
      /\ closer' = "closed" => closer = "writing"
      /\ closer' = "open" => closer = "open"
  BY <1>1, OverKeeps
<1>3. /\ rows' \in Seq(Records) /\ Len(rows') = Len(rows) + Len(batch)
      /\ Climbs(rows') /\ Below(rows', queue) /\ UpTo(rows', sequence)
      /\ ToSet(batch) \subseteq ToSet(rows')
  BY <1>1, RowsJoin
<1>4. ObserverTypeOK'
  <2>1. batch' \in Seq(Records)
    BY <1>1, <1>2
  <2> QED
    BY <1>1, <1>2, <1>3, <2>1 DEF ObserverIInv, ObserverTypeOK
<1>5. Parted'
  BY <1>1, <1>2, <1>3 DEF ObserverIInv, Parted, Climbs, Below, UpTo
<1>6. NothingUnaccounted'
  <2>1. Len(batch') = 0 /\ Len(queue) \in Nat /\ Len(rows) \in Nat /\ Len(batch) \in Nat /\ dropped \in Nat
    BY <1>2, Typed DEF ObserverIInv, ObserverTypeOK
  <2> QED
    BY <1>1, <1>2, <1>3, <2>1 DEF ObserverIInv, NothingUnaccounted
<1>7. CloseWritesABatch'
  <2>1. CASE closer' = "closed"
    <3>1. owed \subseteq ToSet(batch) \/ (ToSet(batch) \subseteq owed /\ Len(batch) = BatchSize)
      <4>1. closer = "writing"
        BY <1>2, <2>1
      <4> QED
        BY <4>1 DEF ObserverIInv, Owed
    <3>2. owed' = owed
      BY <1>1
    <3> QED
      BY <1>3, <3>1, <3>2, Paid
  <2>2. CASE closer' # "closed"
    BY <2>2 DEF CloseWritesABatch
  <2> QED
    BY <2>1, <2>2
<1> QED
  BY <1>2, <1>4, <1>5, <1>6, <1>7 DEF ObserverIInv

\* A failed write loses its batch, and no more.
LEMMA WriteFailsKeeps == ObserverIInv /\ WriteFails => ObserverIInv'
<1> SUFFICES ASSUME ObserverIInv, WriteFails PROVE ObserverIInv'
    OBVIOUS
<1>1. /\ Writing /\ DrainOver /\ faults < MaxFaults /\ faults' = faults + 1
      /\ UNCHANGED <<sequence, queue, dropped, rows, segmentsWritten, owed>>
  BY DEF WriteFails
<1>2. /\ batch' = <<>> /\ counted' = FALSE /\ Handover' /\ Owed'
      /\ flusher' \in {"sleeping", "stopped"} /\ closer' \in {"open", "draining", "closed"}
  BY <1>1, OverKeeps
<1>3. faults' \in 0..MaxFaults /\ faults' # 0
  BY <1>1, ObserverAssumption DEF ObserverAssumption, ObserverIInv, ObserverTypeOK
<1>4. ObserverTypeOK'
  <2>1. batch' \in Seq(Records)
    BY <1>1, <1>2
  <2> QED
    BY <1>1, <1>2, <1>3, <2>1 DEF ObserverIInv, ObserverTypeOK
<1>5. Parted'
  BY <1>1, <1>2 DEF ObserverIInv, Parted, Climbs, Below, UpTo
<1>6. NothingUnaccounted' /\ CloseWritesABatch'
  BY <1>3 DEF NothingUnaccounted, CloseWritesABatch
<1> QED
  BY <1>2, <1>4, <1>5, <1>6 DEF ObserverIInv

\* aclose takes the flusher's batch away, committed or not.
LEMMA CloseKeeps == ObserverIInv /\ Close => ObserverIInv'
<1> SUFFICES ASSUME ObserverIInv, Close PROVE ObserverIInv'
    OBVIOUS
<1>1. /\ closer = "open" /\ flusher' = "stopped" /\ closer' = "draining"
      /\ batch' = <<>> /\ counted' = FALSE /\ owed' = ToSet(queue)
      /\ UNCHANGED <<sequence, queue, dropped, segmentsWritten, faults>>
      /\ rows' = rows \/ rows' = rows \o batch
  BY DEF Close
<1>2. /\ rows' \in Seq(Records)
      /\ Climbs(rows') /\ Below(rows', queue) /\ UpTo(rows', sequence)
  BY <1>1, RowsJoin DEF ObserverIInv, ObserverTypeOK, Parted
<1>3. \A r \in ToSet(queue) : r \in Records /\ r <= sequence
  BY Typed DEF ToSet, ObserverIInv, ObserverTypeOK, Parted, UpTo
<1>4. ObserverTypeOK'
  <2>1. batch' \in Seq(Records)
    BY <1>1, <1>2
  <2> QED
    BY <1>1, <1>2, <1>3, <2>1 DEF ObserverIInv, ObserverTypeOK
<1>5. Parted'
  BY <1>1, <1>2 DEF ObserverIInv, Parted, Climbs, Below, UpTo
<1>6. Handover' /\ NothingUnaccounted' /\ CloseWritesABatch'
  BY <1>1 DEF Handover, Writing, NothingUnaccounted, CloseWritesABatch
<1>7. Owed'
  <2>1. \A i \in DOMAIN queue : queue[i] \in ToSet(queue)
    BY DEF ToSet
  <2> QED
    BY <1>1, <1>3, <2>1 DEF Owed
<1> QED
  BY <1>4, <1>5, <1>6, <1>7 DEF ObserverIInv

\* The last drain: the owed utterances stand first, so the batch is theirs.
LEMMA FinalDrainKeeps == ObserverIInv /\ FinalDrain => ObserverIInv'
<1> SUFFICES ASSUME ObserverIInv, FinalDrain PROVE ObserverIInv'
    OBVIOUS
<1>1. /\ closer = "draining" /\ flusher = "stopped"
      /\ UNCHANGED <<sequence, dropped, flusher, rows, segmentsWritten, faults, owed>>
      /\ batch = <<>> /\ counted = FALSE
  BY DEF FinalDrain, ObserverIInv, Handover, Writing, ObserverTypeOK
<1>2. CASE queue = <<>> /\ closer' = "closed" /\ UNCHANGED <<queue, batch, counted>>
  <2>1. owed = {}
    BY <1>1, <1>2 DEF ObserverIInv, Owed, ToSet
  <2>2. ObserverTypeOK' /\ Parted' /\ NothingUnaccounted'
    BY <1>1, <1>2 DEF ObserverIInv, ObserverTypeOK, Parted, Climbs, Below, UpTo, NothingUnaccounted
  <2>3. Handover' /\ Owed'
    BY <1>1, <1>2, <2>1 DEF ObserverIInv, Handover, Writing, Owed
  <2>4. CloseWritesABatch'
    <3>1. owed' \cap ToSet(rows') = owed'
      BY <1>1, <2>1
    <3> QED
      BY <3>1 DEF CloseWritesABatch
  <2> QED
    BY <2>2, <2>3, <2>4 DEF ObserverIInv
<1>3. CASE closer' = "writing" /\ Take
  <2>1. /\ Parted' /\ queue' \in Seq(Records) /\ batch' \in Seq(Records)
        /\ Len(queue') <= QueueLimit
        /\ \A i \in DOMAIN batch' : i \in DOMAIN queue /\ batch'[i] = queue[i]
        /\ \A i \in DOMAIN queue : \/ i \in DOMAIN batch'
                                   \/ Len(batch') = BatchSize /\ \A k \in DOMAIN batch' : k < i
    BY <1>1, <1>3, TakeKeeps
  <2>2. ObserverTypeOK' /\ Handover' /\ NothingUnaccounted' /\ CloseWritesABatch'
    BY <1>1, <1>3, <2>1
       DEF Take, ObserverIInv, ObserverTypeOK, Handover, Writing, NothingUnaccounted, CloseWritesABatch
  <2>3. \/ owed \subseteq ToSet(batch')
        \/ ToSet(batch') \subseteq owed /\ Len(batch') = BatchSize
    <3>1. CASE \A i \in DOMAIN queue : queue[i] \in owed => i \in DOMAIN batch'
      BY <1>1, <2>1, <3>1 DEF ToSet, ObserverIInv, Owed
    <3>2. ASSUME NEW j \in DOMAIN queue, queue[j] \in owed, j \notin DOMAIN batch'
          PROVE  ToSet(batch') \subseteq owed /\ Len(batch') = BatchSize
      <4>1. Len(batch') = BatchSize /\ \A k \in DOMAIN batch' : k < j
        BY <2>1, <3>2
      <4>2. \A k \in DOMAIN batch' : batch'[k] \in owed
        BY <1>1, <2>1, <3>2, <4>1 DEF ObserverIInv, Owed
      <4> QED
        BY <4>1, <4>2 DEF ToSet
    <3> QED
      BY <3>1, <3>2
  <2>4. Owed'
    BY <1>1, <1>3, <2>3 DEF ObserverIInv, Owed
  <2> QED
    BY <2>1, <2>2, <2>4 DEF ObserverIInv
<1> QED
  BY <1>2, <1>3 DEF FinalDrain

\* Every step keeps the invariant.
LEMMA ObserverNextInv == ObserverIInv /\ [ObserverNext]_observerVars => ObserverIInv'
<1>1. ObserverIInv /\ UNCHANGED observerVars => ObserverIInv'
  BY DEF observerVars, ObserverIInv, ObserverTypeOK, Parted, Handover, Writing, NothingUnaccounted, Owed, CloseWritesABatch
<1> QED
  BY <1>1, RecordKeeps, FlushKeeps, CountKeeps, CommitKeeps, WriteFailsKeeps, CloseKeeps,
     FinalDrainKeeps DEF ObserverNext

\* Rows, batch and queue in a row climb when their parts do.
LEMMA PartsInOrder == ObserverIInv => InOrder
<1> SUFFICES ASSUME ObserverIInv PROVE InOrder
    OBVIOUS
<1>1. /\ rows \in Seq(Records) /\ batch \in Seq(Records) /\ queue \in Seq(Records)
      /\ Climbs(rows) /\ Climbs(batch) /\ Climbs(queue)
      /\ Below(rows, batch) /\ Below(rows, queue) /\ Below(batch, queue)
  BY DEF ObserverIInv, ObserverTypeOK, Parted
<1>2. rows \o batch \in Seq(Records) /\ Climbs(rows \o batch)
  BY <1>1, Joins, JoinsClimb
<1>3. Below(rows \o batch, queue)
  BY <1>1, Joins DEF Below
<1>4. Climbs((rows \o batch) \o queue)
  BY <1>1, <1>2, <1>3, JoinsClimb
<1> QED
  BY <1>4 DEF InOrder, Climbs

\* For any queue, batches, utterances and failed writes: nothing is written twice and nothing
\* overtakes an earlier utterance; every utterance is accounted for; what is queued at the end
\* of the call gets its batch (worker/pipeline/observer.py).
THEOREM TranscriptHolds == ObserverSpec => []TranscriptSound
<1>1. ObserverIInv => TranscriptSound
  BY PartsInOrder DEF ObserverIInv, TranscriptSound
<1> QED
  BY <1>1, ObserverInitInv, ObserverNextInv, PTL DEF ObserverSpec

-----------------------------------------------------------------------------
(***************************************************************************)
(* The conversation, for any turns, tools, limits, retries, filers and     *)
(* deletions.                                                              *)
(***************************************************************************)

\* The memory.  Only one roll is due per turn, so the rolls that gave nothing are fewer
\* than the turns while one is under way; between turns the roll is not due yet.
MemoryInv ==
  /\ phase \in {"listening", "search", "roll", "reply", "speaking", "over"}
  /\ user \in BOOLEAN /\ turns \in 0..MaxTurns /\ rolled \in 0..turns
  /\ recent \in Seq(1..turns) /\ summary \subseteq 1..turns /\ misses \in 0..turns
  /\ NothingForgotten /\ MemoryBounded
  /\ phase \in {"search", "roll"} => misses < turns
  /\ phase \in {"listening", "reply", "speaking"} => turns - rolled < Trigger + misses

\* The filler.  One that waits over an answer was armed during the answer, too.
FillerInv ==
  /\ filler \in {"idle", "waiting", "playing"} /\ late \in BOOLEAN
  /\ filler # "idle" /\ phase = "speaking" => late

UsedOf(t) == {j \in Uses : ToolOf(j) = t /\ use[j] # "none"}

Answered == {j \in Uses \ Ticketing : use[j] \in {"ok", "failed"}}

\* The tool calls.  The counter of a tool is the number of its calls, and the tenant's
\* API carried out one operation per attempt of a call that has ended, at most.
ToolInv ==
  /\ use \in [Uses -> UseStates] /\ counts \in [{"ticket", "api"} -> 0..Limit]
  /\ performed \in Nat
  /\ \A t \in {"ticket", "api"} : IsFiniteSet(UsedOf(t)) /\ Cardinality(UsedOf(t)) = counts[t]
  /\ performed <= (Retries + 1) * Cardinality(Answered)

\* A call of create_ticket reads its number with its first step and keeps it until it inserts.
Filing ==
  \A i \in Ticketing : /\ use[i] = "filing" => number[i] # 0
                       /\ use[i] = "none" => number[i] = 0

\* Until the staff delete a ticket, the numbers have no gap, and a number somebody has
\* read is one of them or the next.
Gapless ==
  deletes = 0 => /\ DOMAIN tickets = 1..Cardinality(DOMAIN tickets)
                 /\ \A f \in Filers : number[f] <= Cardinality(DOMAIN tickets) + 1

\* A number is free for whoever read it, unless another filer came first; the staff's
\* count is a free number only as long as nothing was deleted.
FreeUnlessBeaten ==
  \A f \in Filers : number[f] # 0 /\ f \notin beaten /\ (f # Desk \/ deletes = 0) =>
                      number[f] \notin DOMAIN tickets

\* The tickets.
TicketInv ==
  /\ DOMAIN tickets \subseteq 1..MaxTicket
  /\ \A n \in DOMAIN tickets : tickets[n] \in Filers
  /\ number \in [Filers -> 0..MaxTicket] /\ beaten \subseteq Filers
  /\ deletes \in 0..MaxDeletes
  /\ Filing /\ ToldTicketExists /\ Gapless /\ FreeUnlessBeaten

IInv == MemoryInv /\ FillerInv /\ ToolInv /\ TicketInv
-----------------------------------------------------------------------------
(* Numbers, sets of numbers and sequences *)

\* A non-empty set of naturals has a smallest element.
LEMMA Smallest ==
  ASSUME NEW S \in SUBSET Nat, S # {}
  PROVE  \E m \in S : \A n \in S : m <= n
<1> DEFINE T == {0..n : n \in S}
<1>1. T \subseteq FiniteSubsetsOf(Nat) /\ T # {}
  <2>1. \A n \in S : 0..n \in SUBSET Nat /\ IsFiniteSet(0..n)
    BY FS_Interval
  <2> QED
    BY <2>1 DEF FiniteSubsetsOf
<1>2. \E x \in T : \A y \in T : ~(<<y, x>> \in StrictSubsetOrdering(Nat))
  <2> HIDE DEF T
  <2> QED
    BY <1>1, FS_StrictSubsetOrderingWellFounded, WFMin
<1>3. PICK m \in S : \A n \in S : ~(<<0..n, 0..m>> \in StrictSubsetOrdering(Nat))
  BY <1>2
<1>4. ASSUME NEW n \in S, n < m PROVE FALSE
  <2>1. 0..n \in SUBSET Nat /\ 0..m \in SUBSET Nat /\ 0..n \subseteq 0..m
    BY <1>4
  <2>2. m \in 0..m /\ m \notin 0..n
    BY <1>4
  <2> QED
    BY <1>3, <2>1, <2>2 DEF StrictSubsetOrdering
<1> QED
  BY <1>4

\* The larger of two.
LEMMA MaxOfTwo ==
  ASSUME NEW a \in Int, NEW b \in Int
  PROVE  Max({a, b}) = IF a >= b THEN a ELSE b
<1> DEFINE m == IF a >= b THEN a ELSE b
<1>1. m \in {a, b} /\ \A y \in {a, b} : m >= y
  OBVIOUS
<1>2. \A x \in {a, b} : (\A y \in {a, b} : x >= y) => x = m
  OBVIOUS
<1> QED
  BY <1>1, <1>2 DEF Max

\* The largest of a bounded set.
LEMMA MaxOfSet ==
  ASSUME NEW M \in Nat, NEW S \in SUBSET (1..M), S # {}
  PROVE  Max(S) \in S /\ \A n \in S : n <= Max(S)
<1> DEFINE Gaps == {M - n : n \in S}
<1>1. Gaps \in SUBSET Nat /\ Gaps # {}
  <2>1. \A n \in S : M - n \in Nat
    OBVIOUS
  <2> QED
    BY <2>1
<1>2. PICK g \in Gaps : \A h \in Gaps : g <= h
  BY <1>1, Smallest
<1>3. PICK m \in S : g = M - m
  OBVIOUS
<1>4. \A n \in S : m >= n
  BY <1>2, <1>3
<1> QED
  BY <1>3, <1>4 DEF Max

\* The last n elements of a sequence.
LEMMA LastOfSeq ==
  ASSUME NEW S, NEW s \in Seq(S), NEW n \in Nat
  PROVE  /\ LastOf(s, n) \in Seq(S) /\ Len(LastOf(s, n)) <= n
         /\ ToSet(LastOf(s, n)) \subseteq ToSet(s)
<1> DEFINE m == Max({1, Len(s) - n + 1})
<1>1. Len(s) \in Nat /\ DOMAIN s = 1..Len(s) /\ \A i \in 1..Len(s) : s[i] \in S
  BY LenProperties, ElementOfSeq
<1>2. m = IF 1 >= Len(s) - n + 1 THEN 1 ELSE Len(s) - n + 1
  BY <1>1, MaxOfTwo
<1>3. m \in Int /\ m >= 1 /\ Len(s) - m + 1 <= n
  BY <1>1, <1>2
<1> HIDE DEF m
<1>4. \A i \in m..Len(s) : s[i] \in ToSet(s) /\ s[i] \in S
  BY <1>1, <1>3 DEF ToSet
<1>5. LastOf(s, n) = SubSeq(s, m, Len(s))
  BY DEF LastOf, m
<1>6. /\ LastOf(s, n) \in Seq(S)
      /\ Len(LastOf(s, n)) = IF m <= Len(s) THEN Len(s) - m + 1 ELSE 0
  BY <1>1, <1>3, <1>4, <1>5, SubSeqProperties
<1>7. LastOf(s, n) \in Seq(ToSet(s))
  BY <1>1, <1>3, <1>4, <1>5, SubSeqProperties
<1>8. ToSet(LastOf(s, n)) \subseteq ToSet(s)
  <2>1. DOMAIN LastOf(s, n) = 1..Len(LastOf(s, n))
    BY <1>7, LenProperties
  <2>2. \A i \in DOMAIN LastOf(s, n) : LastOf(s, n)[i] \in ToSet(s)
    BY <1>7, <2>1, ElementOfSeq
  <2> QED
    BY <2>2 DEF ToSet
<1> QED
  BY <1>1, <1>3, <1>6, <1>8

\* One more element.
LEMMA AppendSeq ==
  ASSUME NEW S, NEW s \in Seq(S), NEW x \in S
  PROVE  /\ Append(s, x) \in Seq(S) /\ Len(Append(s, x)) = Len(s) + 1
         /\ ToSet(Append(s, x)) = ToSet(s) \cup {x}
<1>1. Append(s, x) \in Seq(S) /\ Len(Append(s, x)) = Len(s) + 1 /\ Len(s) \in Nat
  OBVIOUS
<1>2. /\ DOMAIN s = 1..Len(s) /\ DOMAIN Append(s, x) = 1..(Len(s) + 1)
      /\ \A i \in 1..Len(s) : Append(s, x)[i] = s[i]
      /\ Append(s, x)[Len(s) + 1] = x
  OBVIOUS
<1>3. ToSet(Append(s, x)) \subseteq ToSet(s) \cup {x}
  <2>1. ASSUME NEW i \in 1..(Len(s) + 1) PROVE Append(s, x)[i] \in ToSet(s) \cup {x}
    <3>1. CASE i \in 1..Len(s)
      BY <1>2, <3>1 DEF ToSet
    <3>2. CASE i = Len(s) + 1
      BY <1>2, <3>2
    <3> QED
      BY <1>1, <3>1, <3>2
  <2> QED
    BY <1>2, <2>1 DEF ToSet
<1>4. ToSet(s) \cup {x} \subseteq ToSet(Append(s, x))
  <2>1. 1..Len(s) \subseteq 1..(Len(s) + 1) /\ Len(s) + 1 \in 1..(Len(s) + 1)
    BY <1>1
  <2> QED
    BY <1>2, <2>1 DEF ToSet
<1> QED
  BY <1>1, <1>3, <1>4

-----------------------------------------------------------------------------
(* The memory and the filler *)

\* The initial state.
LEMMA InitMemory == Init => MemoryInv /\ FillerInv
<1> SUFFICES ASSUME Init PROVE MemoryInv /\ FillerInv
  OBVIOUS
<1> USE ConversationAssumption DEF Init
<1>1. recent \in Seq(1..turns) /\ Len(recent) = 0 /\ ToSet(recent) = {}
  <2>1. <<>> \in Seq(1..turns) /\ Len(<<>>) = 0 /\ DOMAIN <<>> = {}
    OBVIOUS
  <2> QED
    BY <2>1 DEF ToSet
<1>2. NothingForgotten
  BY <1>1 DEF NothingForgotten
<1>3. MemoryBounded /\ turns - rolled < Trigger + misses
  BY <1>1 DEF MemoryBounded
<1>4. turns \in 0..MaxTurns /\ rolled \in 0..turns /\ misses \in 0..turns /\ summary \subseteq 1..turns
  OBVIOUS
<1>5. phase \in {"listening", "speaking"} /\ user \in BOOLEAN /\ FillerInv
  BY DEF FillerInv
<1> QED
  BY <1>1, <1>2, <1>3, <1>4, <1>5 DEF MemoryInv

\* A turn commits.
LEMMA TurnKeepsMemory ==
  ASSUME MemoryInv, TurnCompleted
  PROVE  MemoryInv'
<1> USE ConversationAssumption
<1>1. /\ turns \in 0..MaxTurns /\ turns' = turns + 1 /\ turns < MaxTurns /\ phase' = "search"
      /\ recent' = Append(recent, turns + 1)
      /\ UNCHANGED <<user, rolled, summary, misses>>
  BY DEF MemoryInv, TurnCompleted
<1>2. 1..turns \subseteq 1..(turns + 1) /\ 1..(turns + 1) = (1..turns) \cup {turns + 1}
  BY <1>1
<1>3. recent \in Seq(1..(turns + 1))
  BY <1>2, SeqMonotonic DEF MemoryInv
<1>4. /\ recent' \in Seq(1..turns') /\ Len(recent') = Len(recent) + 1
      /\ ToSet(recent') = ToSet(recent) \cup {turns + 1}
  <2>1. turns + 1 \in 1..(turns + 1)
    BY <1>1
  <2> QED
    BY <1>1, <1>3, <2>1, AppendSeq
<1>5. NothingForgotten'
  BY <1>1, <1>2, <1>4 DEF MemoryInv, NothingForgotten
<1>6. MemoryBounded' /\ misses' < turns'
  <2>1. /\ Len(recent) \in Nat /\ Len(recent) <= Keep + turns - rolled
        /\ turns - rolled < Trigger + misses /\ rolled \in 0..turns /\ misses \in 0..turns
    BY LenProperties DEF MemoryInv, TurnCompleted, MemoryBounded
  <2> QED
    BY <1>1, <1>4, <2>1 DEF MemoryBounded
<1>7. rolled' \in 0..turns' /\ summary' \subseteq 1..turns' /\ misses' \in 0..turns'
  BY <1>1, <1>2 DEF MemoryInv
<1> QED
  BY <1>1, <1>4, <1>5, <1>6, <1>7 DEF MemoryInv

\* A roll, that gives a summary or nothing.
LEMMA RollKeepsMemory ==
  ASSUME MemoryInv, Rolled
  PROVE  MemoryInv'
<1> USE ConversationAssumption
<1>1. /\ turns \in 0..MaxTurns /\ UNCHANGED <<user, turns>> /\ phase = "roll" /\ phase' = "reply"
      /\ misses \in 0..turns /\ rolled \in 0..turns /\ misses < turns
      /\ recent \in Seq(1..turns) /\ summary \subseteq 1..turns
      /\ 1..turns = summary \cup ToSet(recent)
      /\ turns - rolled <= Trigger + misses /\ Len(recent) <= Keep + turns - rolled
  BY DEF MemoryInv, NothingForgotten, MemoryBounded, Rolled
<1>2. CASE Roll(TRUE)
  <2>1. /\ summary' = summary \cup ToSet(recent) /\ rolled' = turns
        /\ recent' = LastOf(recent, Keep) /\ misses' = 0
    BY <1>2 DEF Roll
  <2>2. /\ recent' \in Seq(1..turns') /\ Len(recent') <= Keep
        /\ ToSet(recent') \subseteq ToSet(recent) /\ Len(recent') \in Nat
    BY <1>1, <2>1, LastOfSeq, LenProperties
  <2>3. NothingForgotten'
    BY <1>1, <2>1, <2>2 DEF NothingForgotten
  <2>4. MemoryBounded'
    BY <1>1, <2>1, <2>2 DEF MemoryBounded
  <2> QED
    BY <1>1, <2>1, <2>2, <2>3, <2>4 DEF MemoryInv
<1>3. CASE Roll(FALSE)
  <2>1. misses' = misses + 1 /\ UNCHANGED <<summary, rolled, recent>>
    BY <1>3 DEF Roll
  <2>2. Len(recent) \in Nat
    BY <1>1, LenProperties
  <2>3. NothingForgotten' /\ MemoryBounded'
    BY <1>1, <2>1, <2>2 DEF NothingForgotten, MemoryBounded
  <2> QED
    BY <1>1, <2>1, <2>3 DEF MemoryInv
<1> QED
  BY <1>2, <1>3 DEF Rolled

\* Steps that only move the conversation on.
LEMMA PhaseKeepsMemory ==
  ASSUME MemoryInv,
         UNCHANGED <<turns, rolled, recent, summary, misses>>, user' \in BOOLEAN,
         \/ phase' = phase
         \/ phase = "search" /\ phase' = "roll"
         \/ phase = "search" /\ ~ShouldRoll /\ phase' = "reply"
         \/ phase = "reply" /\ phase' = "speaking"
         \/ phase = "speaking" /\ phase' = "listening"
         \/ phase' = "over"
  PROVE  MemoryInv'
<1> USE ConversationAssumption
<1>1. NothingForgotten' /\ MemoryBounded'
  BY DEF MemoryInv, NothingForgotten, MemoryBounded
<1>2. /\ phase' \in {"listening", "search", "roll", "reply", "speaking", "over"}
      /\ turns' \in 0..MaxTurns /\ rolled' \in 0..turns'
      /\ recent' \in Seq(1..turns') /\ summary' \subseteq 1..turns' /\ misses' \in 0..turns'
  BY DEF MemoryInv
<1>3. phase' \in {"search", "roll"} => misses' < turns'
  BY DEF MemoryInv
<1>4. phase' \in {"listening", "reply", "speaking"} => turns' - rolled' < Trigger + misses'
  <2>1. turns \in Nat /\ rolled \in Nat /\ misses \in Nat
    BY DEF MemoryInv
  <2>2. ~ShouldRoll => turns - rolled < Trigger + misses
    BY <2>1 DEF ShouldRoll
  <2> QED
    BY <2>2 DEF MemoryInv
<1> QED
  BY <1>1, <1>2, <1>3, <1>4 DEF MemoryInv

\* Every step keeps the memory.
LEMMA NextMemory == MemoryInv /\ [Next]_vars => MemoryInv'
<1> SUFFICES ASSUME MemoryInv, [Next]_vars PROVE MemoryInv'
  OBVIOUS
<1>t. user \in BOOLEAN
  BY DEF MemoryInv
<1>1. CASE TurnCompleted
  BY <1>1, TurnKeepsMemory
<1>2. CASE Searched
  BY <1>2, <1>t, PhaseKeepsMemory DEF Searched
<1>3. CASE Rolled
  BY <1>3, RollKeepsMemory
<1>4. CASE UserSpeaks \/ UserPauses
  BY <1>4, PhaseKeepsMemory DEF UserSpeaks, UserPauses
<1>5. CASE Answer \/ AnswerEnds \/ HangUp
  BY <1>5, <1>t, PhaseKeepsMemory DEF Answer, AnswerEnds, HangUp
<1>6. CASE UNCHANGED conversation
  BY <1>6, <1>t, PhaseKeepsMemory DEF conversation
<1>7. CASE DelayOver \/ ClipEnds
  BY <1>7, <1>6 DEF DelayOver, ClipEnds
<1>8. ASSUME NEW i \in Uses, FileTicket(i) \/ TicketFiled(i) \/ AskApi(i) \/ ApiAnswers(i)
      PROVE  UNCHANGED conversation
  BY <1>8 DEF FileTicket, TicketFiled, AskApi, ApiAnswers
<1>9. ASSUME NEW f \in {Rival, Desk}, OtherReads(f) \/ OtherFiles(f)
      PROVE  UNCHANGED conversation
  BY <1>9 DEF OtherReads, OtherFiles
<1>10. CASE DeleteTicket \/ UNCHANGED vars
  BY <1>10, <1>6 DEF DeleteTicket, vars
<1> QED
  BY <1>1, <1>2, <1>3, <1>4, <1>5, <1>6, <1>7, <1>8, <1>9, <1>10 DEF Next

\* Every step keeps the filler: an answer begins in silence, and what is armed during it is
\* marked.
LEMMA NextFiller == FillerInv /\ [Next]_vars => FillerInv'
<1> SUFFICES ASSUME FillerInv, [Next]_vars PROVE FillerInv'
  OBVIOUS
<1> USE DEF FillerInv
<1>1. CASE TurnCompleted \/ Searched \/ Rolled \/ UserSpeaks \/ AnswerEnds
  BY <1>1 DEF TurnCompleted, Searched, Rolled, UserSpeaks, AnswerEnds, fillers
<1>2. CASE UserPauses
  BY <1>2 DEF UserPauses, Arm
<1>3. CASE DelayOver \/ ClipEnds
  BY <1>3 DEF DelayOver, ClipEnds, conversation
<1>4. CASE Answer \/ HangUp
  BY <1>4 DEF Answer, HangUp, Stop
<1>5. CASE UNCHANGED <<conversation, fillers>>
  BY <1>5 DEF conversation, fillers
<1>6. ASSUME NEW i \in Uses, FileTicket(i) \/ TicketFiled(i) \/ AskApi(i) \/ ApiAnswers(i)
      PROVE  UNCHANGED <<conversation, fillers>>
  BY <1>6 DEF FileTicket, TicketFiled, AskApi, ApiAnswers
<1>7. ASSUME NEW f \in {Rival, Desk}, OtherReads(f) \/ OtherFiles(f)
      PROVE  UNCHANGED <<conversation, fillers>>
  BY <1>7 DEF OtherReads, OtherFiles
<1>8. CASE DeleteTicket \/ UNCHANGED vars
  BY <1>8, <1>5 DEF DeleteTicket, vars
<1> QED
  BY <1>1, <1>2, <1>3, <1>4, <1>5, <1>6, <1>7, <1>8 DEF Next

-----------------------------------------------------------------------------
(* The tool calls *)

\* Products of naturals.
LEMMA Products ==
  ASSUME NEW a \in Nat, NEW b \in Nat, NEW c \in Nat
  PROVE  /\ a * b \in Nat /\ a * (b + 1) = a * b + a
         /\ b <= c => a * b <= a * c
<1>1. a * b \in Nat /\ a * (b + 1) = a * b + a
  OBVIOUS
<1>2. ASSUME b <= c PROVE a * b <= a * c
  <2>1. PICK d \in Nat : c = b + d
    <3>1. c - b \in Nat /\ c = b + (c - b)
      BY <1>2
    <3> QED
      BY <3>1
  <2>2. a * c = a * b + a * d /\ a * d \in Nat
    BY <2>1
  <2> QED
    BY <1>1, <2>2
<1> QED
  BY <1>1, <1>2

\* The calls that have ended are among those that were made.
LEMMA AnsweredFinite ==
  ASSUME \A t \in {"ticket", "api"} : IsFiniteSet(UsedOf(t)) /\ Cardinality(UsedOf(t)) = counts[t]
  PROVE  /\ IsFiniteSet(Answered) /\ Cardinality(Answered) \in Nat
         /\ Cardinality(Answered) <= counts["api"]
<1>1. Answered \in SUBSET UsedOf("api")
  BY DEF Answered, UsedOf, ToolOf
<1> QED
  BY <1>1, FS_Subset, FS_CardinalityType

LEMMA InitTools == Init => ToolInv
<1> SUFFICES ASSUME Init PROVE ToolInv
  OBVIOUS
<1> USE ConversationAssumption DEF Init
<1>1. \A t \in {"ticket", "api"} : UsedOf(t) = {}
  BY DEF UsedOf
<1>2. Answered = {}
  BY DEF Answered
<1>3. use \in [Uses -> UseStates] /\ counts \in [{"ticket", "api"} -> 0..Limit]
  BY DEF UseStates
<1>4. performed <= (Retries + 1) * Cardinality(Answered)
  BY <1>2, FS_EmptySet, Products
<1> QED
  BY <1>1, <1>3, <1>4, FS_EmptySet DEF ToolInv

\* A call that the limit admits is counted with its start.
LEMMA AdmitKeepsTools ==
  ASSUME ToolInv, NEW i \in Uses, use[i] = "none", Admit(i), performed' = performed,
         NEW s \in {"filing", "asking"}, use' = [use EXCEPT ![i] = s]
  PROVE  ToolInv'
<1> USE ConversationAssumption
<1>1. /\ use \in [Uses -> UseStates] /\ counts \in [{"ticket", "api"} -> 0..Limit]
      /\ ToolOf(i) \in {"ticket", "api"} /\ counts[ToolOf(i)] < Limit
      /\ counts' = [counts EXCEPT ![ToolOf(i)] = counts[ToolOf(i)] + 1]
  BY DEF ToolInv, Admit, ToolOf
<1>2. use' \in [Uses -> UseStates] /\ counts' \in [{"ticket", "api"} -> 0..Limit]
  <2>1. counts[ToolOf(i)] + 1 \in 0..Limit
    BY <1>1
  <2> QED
    BY <1>1, <2>1 DEF UseStates
<1>3. ASSUME NEW t \in {"ticket", "api"}
      PROVE  IsFiniteSet(UsedOf(t)') /\ Cardinality(UsedOf(t)') = counts'[t]
  <2>0. IsFiniteSet(UsedOf(t)) /\ Cardinality(UsedOf(t)) = counts[t]
    BY DEF ToolInv
  <2>1. CASE t = ToolOf(i)
    <3>1. UsedOf(t)' = UsedOf(t) \cup {i} /\ i \notin UsedOf(t)
      BY <1>1, <2>1 DEF UsedOf
    <3> QED
      BY <1>1, <2>0, <2>1, <3>1, FS_AddElement
  <2>2. CASE t # ToolOf(i)
    <3>1. UsedOf(t)' = UsedOf(t)
      BY <1>1, <2>2 DEF UsedOf
    <3> QED
      BY <1>1, <2>0, <2>2, <3>1
  <2> QED
    BY <2>1, <2>2
<1>4. Answered' = Answered
  BY <1>1 DEF Answered
<1> QED
  BY <1>2, <1>3, <1>4 DEF ToolInv

\* A call that is going on ends, or several do.
LEMMA EndKeepsTools ==
  ASSUME ToolInv, counts' = counts, use' \in [Uses -> UseStates], performed' \in Nat,
         \A j \in Uses : use'[j] = "none" <=> use[j] = "none",
         performed' <= (Retries + 1) * Cardinality(Answered')
  PROVE  ToolInv'
<1>1. \A t \in {"ticket", "api"} : UsedOf(t)' = UsedOf(t)
  BY DEF UsedOf
<1> QED
  BY <1>1 DEF ToolInv

\* No operation is carried out, and no call of the API that had ended is forgotten.
LEMMA QuietEnd ==
  ASSUME ToolInv, UNCHANGED <<counts, performed>>, use' \in [Uses -> UseStates],
         \A j \in Uses : use'[j] = "none" <=> use[j] = "none",
         Answered \subseteq Answered'
  PROVE  ToolInv'
<1>1. \A t \in {"ticket", "api"} : UsedOf(t)' = UsedOf(t)
  BY DEF UsedOf
<1>2. IsFiniteSet(Answered') /\ Cardinality(Answered') \in Nat
  <2>1. Answered' \in SUBSET (UsedOf("api")')
    BY DEF Answered, UsedOf, ToolOf
  <2> QED
    BY <1>1, <2>1, FS_Subset, FS_CardinalityType DEF ToolInv
<1>3. Cardinality(Answered) <= Cardinality(Answered') /\ Cardinality(Answered) \in Nat
  BY <1>2, FS_Subset, FS_CardinalityType
<1>4. performed' <= (Retries + 1) * Cardinality(Answered')
  <2>1. (Retries + 1) * Cardinality(Answered) <= (Retries + 1) * Cardinality(Answered')
    BY <1>2, <1>3, Products, ConversationAssumption
  <2>2. performed <= (Retries + 1) * Cardinality(Answered) /\ performed \in Nat
    BY DEF ToolInv
  <2>3. /\ (Retries + 1) * Cardinality(Answered) \in Nat
        /\ (Retries + 1) * Cardinality(Answered') \in Nat
    BY <1>2, <1>3, Products, ConversationAssumption
  <2> QED
    BY <2>1, <2>2, <2>3
<1> QED
  BY <1>4, EndKeepsTools DEF ToolInv

\* The API answers a call after as many operations as it had attempts, at most.
LEMMA AnswerKeepsTools ==
  ASSUME ToolInv, NEW i \in Uses, ApiAnswers(i)
  PROVE  ToolInv'
<1> USE ConversationAssumption
<1>1. PICK done \in 0..(Retries + 1) :
        /\ performed' = performed + done
        /\ use' \in {[use EXCEPT ![i] = r] : r \in {"ok", "failed"}}
  BY DEF ApiAnswers
<1>2. /\ i \in Uses \ Ticketing /\ use[i] = "asking" /\ use \in [Uses -> UseStates]
      /\ performed \in Nat /\ counts' = counts
  BY DEF ApiAnswers, ToolInv
<1>3. PICK r \in {"ok", "failed"} : use' = [use EXCEPT ![i] = r]
  BY <1>1
<1>4. Answered' = Answered \cup {i} /\ i \notin Answered
  BY <1>2, <1>3 DEF Answered
<1>5. IsFiniteSet(Answered) /\ Cardinality(Answered) \in Nat
  BY AnsweredFinite DEF ToolInv
<1>6. Cardinality(Answered') = Cardinality(Answered) + 1
  BY <1>4, <1>5, FS_AddElement
<1>7. performed' <= (Retries + 1) * Cardinality(Answered') /\ performed' \in Nat
  <2> DEFINE a == Retries + 1
             b == Cardinality(Answered)
  <2>1. a \in Nat /\ b \in Nat /\ done \in Nat /\ done <= a
    BY <1>1, <1>5
  <2>2. performed <= a * b
    BY DEF ToolInv
  <2> HIDE DEF a, b
  <2>3. a * b \in Nat /\ a * (b + 1) = a * b + a
    BY <2>1, Products
  <2>4. performed + done <= a * (b + 1)
    BY <1>2, <2>1, <2>2, <2>3
  <2> QED
    BY <1>1, <1>2, <1>6, <2>1, <2>4 DEF a, b
<1>8. use' \in [Uses -> UseStates] /\ \A j \in Uses : use'[j] = "none" <=> use[j] = "none"
  BY <1>2, <1>3 DEF UseStates
<1> QED
  BY <1>2, <1>7, <1>8, EndKeepsTools

\* Every step keeps the counts.
LEMMA NextTools == ToolInv /\ Filing /\ [Next]_vars => ToolInv'
<1> SUFFICES ASSUME ToolInv, Filing, [Next]_vars PROVE ToolInv'
  OBVIOUS
<1>0. use \in [Uses -> UseStates]
  BY DEF ToolInv
<1>1. ASSUME UNCHANGED tools PROVE ToolInv'
  BY <1>1 DEF tools, ToolInv, UsedOf, Answered
<1>2. CASE \/ TurnCompleted \/ Searched \/ Rolled \/ UserSpeaks \/ UserPauses
           \/ DelayOver \/ ClipEnds \/ Answer \/ AnswerEnds
  BY <1>2, <1>1 DEF TurnCompleted, Searched, Rolled, UserSpeaks, UserPauses,
                    DelayOver, ClipEnds, Answer, AnswerEnds
<1>3. CASE HangUp
  <2>1. /\ use' = [i \in Uses |-> IF use[i] \in {"filing", "asking"} THEN "failed" ELSE use[i]]
        /\ UNCHANGED <<counts, performed>>
    BY <1>3 DEF HangUp
  <2>2. use' \in [Uses -> UseStates] /\ \A j \in Uses : use'[j] = "none" <=> use[j] = "none"
    BY <1>0, <2>1 DEF UseStates
  <2>3. Answered \subseteq Answered'
    BY <2>1 DEF Answered
  <2> QED
    BY <2>1, <2>2, <2>3, QuietEnd
<1>4. ASSUME NEW i \in Uses, FileTicket(i) PROVE ToolInv'
  BY <1>4, AdmitKeepsTools DEF FileTicket
<1>5. ASSUME NEW i \in Uses, TicketFiled(i) PROVE ToolInv'
  <2>1. i \in Ticketing /\ UNCHANGED <<counts, performed>> /\ use[i] # "none"
    BY <1>5 DEF TicketFiled, Filing
  <2>2. \/ use' = [use EXCEPT ![i] = IF use[i] = "filing" THEN "ok" ELSE use[i]]
        \/ use' = [use EXCEPT ![i] = "failed"]
    BY <1>5 DEF TicketFiled
  <2>3. use' \in [Uses -> UseStates] /\ \A j \in Uses : use'[j] = "none" <=> use[j] = "none"
    BY <1>0, <2>1, <2>2 DEF UseStates
  <2>4. Answered \subseteq Answered'
    BY <1>0, <2>1, <2>2 DEF Answered
  <2> QED
    BY <2>1, <2>3, <2>4, QuietEnd
<1>6. ASSUME NEW i \in Uses, AskApi(i) PROVE ToolInv'
  BY <1>6, AdmitKeepsTools DEF AskApi
<1>7. ASSUME NEW i \in Uses, ApiAnswers(i) PROVE ToolInv'
  BY <1>7, AnswerKeepsTools
<1>8. ASSUME NEW f \in {Rival, Desk}, OtherReads(f) \/ OtherFiles(f) PROVE ToolInv'
  BY <1>8, <1>1 DEF OtherReads, OtherFiles
<1>9. CASE DeleteTicket \/ UNCHANGED vars
  BY <1>9, <1>1 DEF DeleteTicket, vars
<1> QED
  BY <1>2, <1>3, <1>4, <1>5, <1>6, <1>7, <1>8, <1>9 DEF Next

-----------------------------------------------------------------------------
(* The tickets *)

LEMMA InitTickets == Init => TicketInv
<1> SUFFICES ASSUME Init PROVE TicketInv
  OBVIOUS
<1> USE ConversationAssumption DEF Init
<1>1. DOMAIN tickets = {} /\ deletes = 0 /\ \A f \in Filers : number[f] = 0
  OBVIOUS
<1>2. Ticketing \subseteq Filers /\ \A i \in Ticketing : use[i] = "none"
  BY DEF Filers
<1>3. number \in [Filers -> 0..MaxTicket] /\ beaten \subseteq Filers /\ deletes \in 0..MaxDeletes
  OBVIOUS
<1>4. Cardinality(DOMAIN tickets) = 0 /\ 1..0 = {}
  BY <1>1, FS_EmptySet
<1>5. Filing /\ ToldTicketExists /\ FreeUnlessBeaten
  BY <1>1, <1>2 DEF Filing, ToldTicketExists, FreeUnlessBeaten
<1>6. Gapless
  BY <1>1, <1>4 DEF Gapless
<1> QED
  BY <1>1, <1>3, <1>5, <1>6 DEF TicketInv

\* The numbers given so far are a finite set.
LEMMA NumbersFinite ==
  ASSUME TicketInv
  PROVE  IsFiniteSet(DOMAIN tickets) /\ Cardinality(DOMAIN tickets) \in Nat
<1>1. IsFiniteSet(1..MaxTicket)
  BY FS_Interval, ConversationAssumption
<1>2. DOMAIN tickets \in SUBSET (1..MaxTicket)
  BY DEF TicketInv
<1> QED
  BY <1>1, <1>2, FS_Subset, FS_CardinalityType

\* The number the worker takes next is free; while nothing was deleted, the staff's count
\* is the same number.
LEMMA NextNumbers ==
  ASSUME TicketInv
  PROVE  /\ NextOfAgent \in Nat \ {0} /\ NextOfAgent \notin DOMAIN tickets
         /\ NextOfStaff \in Nat \ {0}
         /\ deletes = 0 => NextOfAgent = NextOfStaff
<1> USE ConversationAssumption
<1> DEFINE D == DOMAIN tickets
<1>0. D \subseteq 1..MaxTicket /\ Cardinality(D) \in Nat
  BY NumbersFinite DEF TicketInv
<1>1. NextOfStaff \in Nat \ {0}
  BY <1>0 DEF NextOfStaff
<1>2. CASE D = {}
  <2>1. Highest = 0 /\ Cardinality(D) = 0
    BY <1>2, FS_EmptySet DEF Highest
  <2> QED
    BY <1>1, <1>2, <2>1 DEF NextOfAgent, NextOfStaff
<1>3. CASE D # {}
  <2>1. Highest \in D /\ \A n \in D : n <= Highest
    BY <1>0, <1>3, MaxOfSet DEF Highest
  <2>2. NextOfAgent \in Nat \ {0} /\ NextOfAgent \notin D
    BY <1>0, <2>1 DEF NextOfAgent
  <2>3. ASSUME deletes = 0 PROVE Highest = Cardinality(D)
    <3>1. D = 1..Cardinality(D)
      BY <2>3 DEF TicketInv, Gapless
    <3> HIDE DEF D
    <3>2. Cardinality(D) \in D
      BY <1>0, <1>3, <3>1
    <3>3. \A m \in D : m <= Cardinality(D) /\ m \in Nat
      BY <1>0, <3>1
    <3> QED
      BY <1>0, <2>1, <3>2, <3>3
  <2> QED
    BY <1>1, <2>2, <2>3 DEF NextOfAgent, NextOfStaff
<1> QED
  BY <1>2, <1>3

\* A filer reads the number it is going to insert.
LEMMA ReadKeepsTickets ==
  ASSUME TicketInv, NEW f \in Filers, NEW n \in Nat, Reads(f, n),
         n = IF f = Desk THEN NextOfStaff ELSE NextOfAgent,
         Filing', \A i \in Ticketing : use'[i] = "ok" => use[i] = "ok"
  PROVE  TicketInv'
<1> USE ConversationAssumption
<1>1. /\ n <= MaxTicket /\ UNCHANGED <<tickets, deletes>> /\ beaten' = beaten \ {f}
      /\ number' = [number EXCEPT ![f] = n] /\ number \in [Filers -> 0..MaxTicket]
  BY DEF Reads, TicketInv
<1>2. number' \in [Filers -> 0..MaxTicket] /\ beaten' \subseteq Filers
  BY <1>1 DEF TicketInv
<1>3. Gapless'
  <2> SUFFICES ASSUME deletes = 0
               PROVE  /\ DOMAIN tickets = 1..Cardinality(DOMAIN tickets)
                      /\ \A g \in Filers : number'[g] <= Cardinality(DOMAIN tickets) + 1
    BY <1>1 DEF Gapless
  <2>1. n = Cardinality(DOMAIN tickets) + 1 /\ n \in Nat
    BY NextNumbers DEF NextOfStaff
  <2> QED
    BY <1>1, <2>1, NumbersFinite DEF TicketInv, Gapless
<1>4. FreeUnlessBeaten'
  <2> SUFFICES ASSUME NEW g \in Filers, number'[g] # 0, g \notin beaten', g # Desk \/ deletes = 0
               PROVE  number'[g] \notin DOMAIN tickets
    BY <1>1 DEF FreeUnlessBeaten
  <2>1. CASE g = f
    BY <1>1, <2>1, NextNumbers
  <2>2. CASE g # f
    BY <1>1, <2>2 DEF TicketInv, FreeUnlessBeaten
  <2> QED
    BY <2>1, <2>2
<1>5. ToldTicketExists'
  BY <1>1 DEF TicketInv, ToldTicketExists
<1> QED
  BY <1>1, <1>2, <1>3, <1>4, <1>5 DEF TicketInv

\* The insert of a number that is free.
LEMMA InsertKeepsTickets ==
  ASSUME TicketInv, NEW f \in Filers, number[f] # 0, Inserts(f),
         Filing', \A i \in Ticketing : use'[i] = "ok" => use[i] = "ok" \/ i = f
  PROVE  TicketInv'
<1> USE ConversationAssumption
<1> DEFINE D == DOMAIN tickets
           m == number[f]
<1>1. /\ number \in [Filers -> 0..MaxTicket] /\ beaten \subseteq Filers
      /\ D \subseteq 1..MaxTicket /\ m \in 1..MaxTicket /\ deletes \in 0..MaxDeletes
  BY DEF TicketInv
<1>2. /\ m \notin D /\ deletes' = deletes
      /\ tickets' = [n \in D \cup {m} |-> IF n = m THEN f ELSE tickets[n]]
      /\ number' = [number EXCEPT ![f] = 0]
      /\ beaten' = beaten \cup {g \in Filers \ {f} : number[g] # 0}
  BY DEF Inserts, Taken
<1>3. /\ number' \in [Filers -> 0..MaxTicket] /\ beaten' \subseteq Filers
      /\ DOMAIN tickets' = D \cup {m}
  BY <1>1, <1>2
<1>4. \A n \in DOMAIN tickets' : tickets'[n] \in Filers
  BY <1>2, <1>3 DEF TicketInv
<1>5. Gapless'
  <2> SUFFICES ASSUME deletes = 0
               PROVE  /\ DOMAIN tickets' = 1..Cardinality(DOMAIN tickets')
                      /\ \A g \in Filers : number'[g] <= Cardinality(DOMAIN tickets') + 1
    BY <1>2 DEF Gapless
  <2> DEFINE k == Cardinality(D)
  <2>1. k \in Nat /\ D = 1..k /\ \A g \in Filers : number[g] <= k + 1 /\ number[g] \in Nat
    BY <1>1, NumbersFinite DEF TicketInv, Gapless
  <2>2. Cardinality(DOMAIN tickets') = k + 1
    BY <1>2, <1>3, NumbersFinite, FS_AddElement
  <2> HIDE DEF D, k, m
  <2>3. m = k + 1
    <3>1. m \in Nat /\ m <= k + 1 /\ m # 0 /\ m \notin 1..k
      BY <1>1, <1>2, <2>1 DEF m
    <3> QED
      BY <2>1, <3>1
  <2>4. DOMAIN tickets' = 1..(k + 1)
    BY <1>3, <2>1, <2>3
  <2>5. \A g \in Filers : number'[g] <= k + 2
    BY <1>1, <1>2, <2>1
  <2> QED
    BY <2>1, <2>2, <2>4, <2>5
<1>6. FreeUnlessBeaten'
  BY <1>1, <1>2 DEF FreeUnlessBeaten
<1>7. ToldTicketExists'
  <2> SUFFICES ASSUME NEW i \in Ticketing, use'[i] = "ok", deletes = 0
               PROVE  \E n \in DOMAIN tickets' : tickets'[n] = i
    BY <1>2 DEF ToldTicketExists
  <2>1. CASE i = f
    BY <1>2, <1>3, <2>1
  <2>2. CASE use[i] = "ok"
    <3>1. PICK n \in D : tickets[n] = i
      BY <2>2 DEF TicketInv, ToldTicketExists
    <3>2. n \in DOMAIN tickets' /\ tickets'[n] = i
      BY <1>2, <1>3, <3>1
    <3> QED
      BY <3>2
  <2> QED
    BY <2>1, <2>2
<1> QED
  BY <1>1, <1>2, <1>3, <1>4, <1>5, <1>6, <1>7 DEF TicketInv

\* An insert that is refused, or any step that leaves the table and only gives numbers up.
LEMMA GivingUpKeepsTickets ==
  ASSUME TicketInv, UNCHANGED <<tickets, deletes, beaten>>,
         \/ number' = number
         \/ \E f \in Filers : number' = [number EXCEPT ![f] = 0],
         Filing', \A i \in Ticketing : use'[i] = "ok" => use[i] = "ok"
  PROVE  TicketInv'
<1> USE ConversationAssumption
<1>1. /\ number' \in [Filers -> 0..MaxTicket]
      /\ \A g \in Filers : number'[g] \in {0, number[g]}
  BY DEF TicketInv
<1>2. Gapless'
  BY <1>1, NumbersFinite DEF TicketInv, Gapless
<1>3. FreeUnlessBeaten' /\ ToldTicketExists'
  BY <1>1 DEF TicketInv, FreeUnlessBeaten, ToldTicketExists
<1> QED
  BY <1>1, <1>2, <1>3 DEF TicketInv

\* The staff delete a ticket.
LEMMA DeleteKeepsTickets ==
  ASSUME TicketInv, DeleteTicket
  PROVE  TicketInv'
<1> USE ConversationAssumption
<1>1. /\ deletes' = deletes + 1 /\ UNCHANGED <<number, beaten, use>>
      /\ DOMAIN tickets' \subseteq DOMAIN tickets
      /\ \A n \in DOMAIN tickets' : tickets'[n] = tickets[n]
  BY DEF DeleteTicket, tools
<1>2. deletes' \in 0..MaxDeletes /\ deletes' # 0
  BY <1>1 DEF TicketInv, DeleteTicket
<1> QED
  BY <1>1, <1>2 DEF TicketInv, Filing, ToldTicketExists, Gapless, FreeUnlessBeaten

\* Every step keeps the tickets.
LEMMA NextTickets == ToolInv /\ TicketInv /\ [Next]_vars => TicketInv'
<1> SUFFICES ASSUME ToolInv, TicketInv, [Next]_vars PROVE TicketInv'
  OBVIOUS
<1> USE ConversationAssumption
<1>0. /\ use \in [Uses -> UseStates] /\ number \in [Filers -> 0..MaxTicket]
      /\ Ticketing \subseteq Filers /\ Ticketing \subseteq Uses
      /\ Rival \in Filers \ Ticketing /\ Desk \in Filers \ Ticketing
  BY DEF ToolInv, TicketInv, Filers
<1>1. ASSUME UNCHANGED desk, Filing', \A i \in Ticketing : use'[i] = "ok" => use[i] = "ok"
      PROVE  TicketInv'
  BY <1>1, GivingUpKeepsTickets DEF desk
<1>2. ASSUME UNCHANGED <<desk, tools>> PROVE TicketInv'
  BY <1>1, <1>2 DEF desk, tools, TicketInv, Filing
<1>3. CASE \/ TurnCompleted \/ Searched \/ Rolled \/ UserSpeaks \/ UserPauses
           \/ DelayOver \/ ClipEnds \/ Answer \/ AnswerEnds
  BY <1>3, <1>2 DEF TurnCompleted, Searched, Rolled, UserSpeaks, UserPauses,
                    DelayOver, ClipEnds, Answer, AnswerEnds
<1>4. CASE HangUp
  <2>1. /\ use' = [i \in Uses |-> IF use[i] \in {"filing", "asking"} THEN "failed" ELSE use[i]]
        /\ UNCHANGED desk
    BY <1>4 DEF HangUp
  <2>2. Filing' /\ \A i \in Ticketing : use'[i] = "ok" => use[i] = "ok"
    BY <1>0, <2>1 DEF TicketInv, Filing, desk
  <2> QED
    BY <2>1, <2>2, <1>1
<1>5. ASSUME NEW i \in Uses, FileTicket(i) PROVE TicketInv'
  <2>1. /\ i \in Ticketing /\ i # Desk /\ Reads(i, NextOfAgent)
        /\ use' = [use EXCEPT ![i] = "filing"]
    BY <1>0, <1>5 DEF FileTicket
  <2>2. NextOfAgent \in Nat /\ NextOfAgent # 0
    BY NextNumbers
  <2>3. number' = [number EXCEPT ![i] = NextOfAgent]
    BY <2>1 DEF Reads
  <2>4. Filing' /\ \A j \in Ticketing : use'[j] = "ok" => use[j] = "ok"
    BY <1>0, <2>1, <2>2, <2>3 DEF TicketInv, Filing
  <2> QED
    BY <1>0, <2>1, <2>2, <2>4, ReadKeepsTickets
<1>6. ASSUME NEW i \in Uses, TicketFiled(i) PROVE TicketInv'
  <2>1. i \in Ticketing /\ number[i] # 0 /\ use[i] # "none" /\ number' = [number EXCEPT ![i] = 0]
    BY <1>6 DEF TicketFiled, Inserts, Refused, TicketInv, Filing
  <2>2. CASE Inserts(i) /\ use' = [use EXCEPT ![i] = IF @ = "filing" THEN "ok" ELSE @]
    <3>1. Filing' /\ \A j \in Ticketing : use'[j] = "ok" => use[j] = "ok" \/ j = i
      BY <1>0, <2>1, <2>2 DEF TicketInv, Filing
    <3> QED
      BY <1>0, <2>1, <2>2, <3>1, InsertKeepsTickets
  <2>3. CASE Refused(i) /\ use' = [use EXCEPT ![i] = "failed"]
    <3>1. Filing' /\ \A j \in Ticketing : use'[j] = "ok" => use[j] = "ok"
      BY <1>0, <2>1, <2>3 DEF TicketInv, Filing
    <3> QED
      BY <1>0, <2>1, <2>3, <3>1, GivingUpKeepsTickets DEF Refused
  <2> QED
    BY <1>6, <2>2, <2>3 DEF TicketFiled
<1>7. ASSUME NEW i \in Uses, AskApi(i) \/ ApiAnswers(i) PROVE TicketInv'
  <2>1. i \notin Ticketing /\ UNCHANGED desk /\ \A j \in Uses \ {i} : use'[j] = use[j]
    BY <1>0, <1>7 DEF AskApi, ApiAnswers
  <2>2. Filing' /\ \A j \in Ticketing : use'[j] = "ok" => use[j] = "ok"
    BY <1>0, <2>1 DEF TicketInv, Filing, desk
  <2> QED
    BY <2>1, <2>2, <1>1
<1>8. ASSUME NEW f \in {Rival, Desk}, OtherReads(f) PROVE TicketInv'
  <2> DEFINE n == IF f = Desk THEN NextOfStaff ELSE NextOfAgent
  <2>1. n \in Nat /\ Reads(f, n) /\ use' = use /\ f \in Filers \ Ticketing
    BY <1>0, <1>8, NextNumbers DEF OtherReads, tools
  <2>2. number' = [number EXCEPT ![f] = n]
    BY <2>1 DEF Reads
  <2>3. Filing'
    BY <1>0, <2>1, <2>2 DEF TicketInv, Filing
  <2> HIDE DEF n
  <2> QED
    BY <2>1, <2>3, ReadKeepsTickets DEF n
<1>9. ASSUME NEW f \in {Rival, Desk}, OtherFiles(f) PROVE TicketInv'
  <2>1. /\ number[f] # 0 /\ use' = use /\ f \in Filers \ Ticketing
        /\ number' = [number EXCEPT ![f] = 0]
    BY <1>0, <1>9 DEF OtherFiles, Inserts, Refused, tools
  <2>2. Filing'
    BY <1>0, <2>1 DEF TicketInv, Filing
  <2> QED
    BY <1>9, <2>1, <2>2, InsertKeepsTickets, GivingUpKeepsTickets DEF OtherFiles, Refused
<1>10. CASE DeleteTicket
  BY <1>10, DeleteKeepsTickets
<1>11. CASE UNCHANGED vars
  BY <1>11, <1>2 DEF vars
<1> QED
  BY <1>3, <1>4, <1>5, <1>6, <1>7, <1>8, <1>9, <1>10, <1>11 DEF Next

-----------------------------------------------------------------------------
(* What the invariant gives *)

LEMMA SpecInv == Spec => []IInv
<1>1. Init => IInv
  BY InitMemory, InitTools, InitTickets DEF IInv
<1>2. IInv /\ [Next]_vars => IInv'
  BY NextMemory, NextFiller, NextTools, NextTickets DEF IInv, TicketInv
<1> QED
  BY <1>1, <1>2, PTL DEF Spec

LEMMA RecordsFollow == IInv => RecordsSound
<1> SUFFICES ASSUME IInv PROVE RecordsSound
  OBVIOUS
<1>1. TypeOK
  BY DEF IInv, MemoryInv, FillerInv, ToolInv, TicketInv, TypeOK
<1> QED
  BY <1>1 DEF IInv, MemoryInv, TicketInv, RecordsSound

LEMMA LimitFollows == IInv => LimitHolds
<1> SUFFICES ASSUME IInv PROVE LimitHolds
  OBVIOUS
<1> USE ConversationAssumption
<1>1. /\ \A t \in {"ticket", "api"} : /\ IsFiniteSet(UsedOf(t))
                                      /\ Cardinality(UsedOf(t)) = counts[t]
      /\ counts \in [{"ticket", "api"} -> 0..Limit]
  BY DEF IInv, ToolInv
<1>2. ASSUME NEW i \in Uses
      PROVE  Cardinality({j \in Uses : ToolOf(j) = ToolOf(i) /\ use[j] # "none"}) <= Limit
  <2>1. ToolOf(i) \in {"ticket", "api"}
    BY DEF ToolOf
  <2> QED
    BY <1>1, <2>1 DEF UsedOf
<1>3. performed <= Limit * (Retries + 1)
  <2> DEFINE a == Retries + 1
             b == Cardinality(Answered)
  <2>1. a \in Nat /\ b \in Nat /\ b <= Limit /\ performed \in Nat /\ performed <= a * b
    BY <1>1, AnsweredFinite DEF IInv, ToolInv
  <2> HIDE DEF a, b
  <2>2. a * b <= a * Limit /\ a * b \in Nat /\ a * Limit \in Nat /\ a * Limit = Limit * a
    BY <2>1, Products
  <2>3. performed <= Limit * a
    BY <2>1, <2>2
  <2> QED
    BY <2>3 DEF a
<1> QED
  BY <1>2, <1>3 DEF LimitHolds

\* A filer gives its number up without a row only in Refused.
LEMMA RefusalFollows ==
  IInv /\ [Next]_vars =>
    [\A f \in Filers :
       number[f] # 0 /\ number'[f] = 0 /\ tickets' = tickets =>
         f \in beaten \/ (f = Desk /\ deletes > 0)]_vars
<1> SUFFICES ASSUME IInv, [Next]_vars, NEW f \in Filers,
                    number[f] # 0, number'[f] = 0, tickets' = tickets
             PROVE  f \in beaten \/ (f = Desk /\ deletes > 0)
  OBVIOUS
<1> USE ConversationAssumption
<1>0. /\ number \in [Filers -> 0..MaxTicket] /\ deletes \in 0..MaxDeletes
      /\ Ticketing \subseteq Filers /\ Rival \in Filers /\ Desk \in Filers
  BY DEF IInv, TicketInv, Filers
<1>1. ASSUME Taken(number[f]) PROVE f \in beaten \/ (f = Desk /\ deletes > 0)
  BY <1>0, <1>1 DEF IInv, TicketInv, FreeUnlessBeaten, Taken
<1>2. ASSUME NEW g \in Filers, Inserts(g) PROVE FALSE
  <2>1. DOMAIN tickets' = DOMAIN tickets \cup {number[g]} /\ number[g] \notin DOMAIN tickets
    BY <1>2 DEF Inserts, Taken
  <2> QED
    BY <2>1
<1>3. ASSUME NEW g \in Filers, Refused(g) PROVE Taken(number[f])
  BY <1>0, <1>3 DEF Refused
<1>4. ASSUME NEW g \in Filers, NEW n, n # 0, Reads(g, n) PROVE FALSE
  BY <1>0, <1>4 DEF Reads
<1>5. ASSUME UNCHANGED desk PROVE FALSE
  BY <1>5 DEF desk
<1>6. CASE \/ TurnCompleted \/ Searched \/ Rolled \/ UserSpeaks \/ UserPauses
           \/ DelayOver \/ ClipEnds \/ Answer \/ AnswerEnds \/ HangUp
  BY <1>6, <1>5 DEF TurnCompleted, Searched, Rolled, UserSpeaks, UserPauses,
                    DelayOver, ClipEnds, Answer, AnswerEnds, HangUp
<1>7. NextOfAgent # 0 /\ NextOfStaff # 0
  BY NextNumbers DEF IInv
<1>8. ASSUME NEW i \in Uses, FileTicket(i) PROVE FALSE
  BY <1>0, <1>4, <1>7, <1>8 DEF FileTicket
<1>9. ASSUME NEW i \in Uses, TicketFiled(i) PROVE Taken(number[f])
  BY <1>0, <1>2, <1>3, <1>9 DEF TicketFiled
<1>10. ASSUME NEW i \in Uses, AskApi(i) \/ ApiAnswers(i) PROVE FALSE
  BY <1>5, <1>10 DEF AskApi, ApiAnswers
<1>11. ASSUME NEW g \in {Rival, Desk}, OtherReads(g) PROVE FALSE
  BY <1>0, <1>4, <1>7, <1>11 DEF OtherReads
<1>12. ASSUME NEW g \in {Rival, Desk}, OtherFiles(g) PROVE Taken(number[f])
  BY <1>0, <1>2, <1>3, <1>12 DEF OtherFiles
<1>13. CASE DeleteTicket
  BY <1>13 DEF DeleteTicket
<1>14. CASE UNCHANGED vars
  BY <1>14, <1>5 DEF vars
<1> QED
  BY <1>1, <1>6, <1>8, <1>9, <1>10, <1>11, <1>12, <1>13, <1>14 DEF Next

\* Rolling the summary never loses a turn and the memory stays bounded, whatever the
\* summariser answers; a ticket a caller was told of is there until the staff delete one
\* (roll_summary, create_ticket).
THEOREM RecordsKept == Spec => []RecordsSound
BY SpecInv, RecordsFollow, PTL

\* Whenever the caller speaks or pauses, a filler sounds over an answer only if it was
\* armed during that answer (FillerTrack.stop on agent_state_changed).
THEOREM FillerStops == Spec => []FillerYields
<1>1. IInv => FillerYields
  BY DEF IInv, FillerInv, FillerYields
<1> QED
  BY <1>1, SpecInv, PTL

\* Any number of parallel tool calls stay within max_calls_per_conversation, and the
\* tenant's API carries out at most one operation per attempt of an admitted call
\* (ToolRuntime.invoke, execute_http).
THEOREM LimitsHold == Spec => []LimitHolds
BY SpecInv, LimitFollows, PTL

\* Whoever is refused a ticket number was overtaken, or is the staff's API after a
\* deletion: the worker's MAX + 1 is free when nobody else files (uq_tickets_tenant_number).
THEOREM RefusalsHaveACause == Spec => RefusedForACause
BY SpecInv, RefusalFollows, PTL DEF Spec, RefusedForACause
=============================================================================
