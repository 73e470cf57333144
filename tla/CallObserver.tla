----------------------------- MODULE CallObserver -----------------------------
(***************************************************************************)
(* The transcript and turn-event recorder of one call                      *)
(* (worker/pipeline/observer.py).  Session callbacks enqueue without       *)
(* waiting; one background flusher writes batches to PostgreSQL; aclose    *)
(* cancels the flusher wherever it awaits and drains once more.            *)
(*                                                                         *)
(* A record is the number of its utterance (self._sequence); transcript    *)
(* segments and turn events travel the same queue and the same batches.    *)
(***************************************************************************)
EXTENDS Naturals, Sequences, FiniteSets, SequencesExt

CONSTANTS
  QueueLimit,   \* _QUEUE_LIMIT
  BatchSize,    \* _BATCH_SIZE
  MaxRecords,   \* bound: utterances in the call
  MaxFaults     \* bound: failed database writes

ASSUME ObserverAssumption ==
  /\ QueueLimit \in Nat \ {0} /\ BatchSize \in Nat \ {0}
  /\ MaxRecords \in Nat /\ MaxFaults \in Nat

Records == 1..MaxRecords

VARIABLES
  sequence,   \* _sequence: records produced so far
  queue,      \* _queue
  dropped,    \* _dropped
  batch,      \* what the coroutine inside _drain has taken and not yet committed
  counted,    \* that batch is already in _segments_written
  flusher,    \* the background task
  closer,     \* aclose
  rows,       \* committed call_transcript_segments, in the order of their commits
  segmentsWritten,  \* _segments_written
  owed,       \* history: the records in the queue when aclose was called
  faults

observerVars == <<sequence, queue, dropped, batch, counted, flusher, closer, rows, segmentsWritten, owed, faults>>

ObserverInit ==
  /\ sequence = 0 /\ queue = <<>> /\ dropped = 0
  /\ batch = <<>> /\ counted = FALSE
  /\ flusher = "sleeping" /\ closer = "open"
  /\ rows = <<>> /\ segmentsWritten = 0 /\ owed = {}
  /\ faults = 0

\* _on_conversation_item / record_segment: numbered, then put_nowait or counted as dropped.
Record ==
  /\ closer # "closed" /\ sequence < MaxRecords
  /\ sequence' = sequence + 1
  /\ IF Len(queue) < QueueLimit
     THEN queue' = Append(queue, sequence') /\ UNCHANGED dropped
     ELSE dropped' = dropped + 1 /\ UNCHANGED queue
  /\ UNCHANGED <<batch, counted, flusher, closer, rows, segmentsWritten, faults, owed>>

BatchLen == IF Len(queue) < BatchSize THEN Len(queue) ELSE BatchSize

\* _drain up to its first await: at most one batch leaves the queue.
Take ==
  /\ batch' = SubSeq(queue, 1, BatchLen)
  /\ queue' = SubSeq(queue, BatchLen + 1, Len(queue))
  /\ counted' = FALSE

Writing == flusher = "writing" \/ closer = "writing"

\* The INSERT has run; the counter is raised before the commit.
Count ==
  /\ Writing /\ ~counted
  /\ counted' = TRUE
  /\ segmentsWritten' = segmentsWritten + Len(batch)
  /\ UNCHANGED <<sequence, queue, dropped, batch, flusher, closer, rows, faults, owed>>

\* Whoever drains goes on when the write is over, committed or not.
DrainOver ==
  /\ batch' = <<>> /\ counted' = FALSE
  /\ flusher' = IF flusher = "writing" THEN "sleeping" ELSE flusher
  /\ closer' = IF closer = "writing" THEN "closed" ELSE closer

Commit ==
  /\ Writing /\ counted
  /\ rows' = rows \o batch
  /\ DrainOver
  /\ UNCHANGED <<sequence, queue, dropped, segmentsWritten, faults, owed>>

\* Mutants: a failed batch is put back at the end of the queue; the flusher dies with it.
WriteFailsRequeued ==
  /\ Writing /\ faults < MaxFaults
  /\ faults' = faults + 1
  /\ queue' = queue \o batch
  /\ DrainOver
  /\ UNCHANGED <<sequence, dropped, rows, segmentsWritten, owed>>

WriteFailsFlusherDies ==
  /\ Writing /\ faults < MaxFaults
  /\ faults' = faults + 1
  /\ batch' = <<>> /\ counted' = FALSE
  /\ flusher' = IF flusher = "writing" THEN "stopped" ELSE flusher
  /\ closer' = IF closer = "writing" THEN "closed" ELSE closer
  /\ UNCHANGED <<sequence, queue, dropped, rows, segmentsWritten, owed>>

\* A failed write is logged by _flush_loop or aclose; the batch is not put back.
WriteFails ==
  /\ Writing /\ faults < MaxFaults
  /\ faults' = faults + 1
  /\ DrainOver
  /\ UNCHANGED <<sequence, queue, dropped, rows, segmentsWritten, owed>>

\* One round of _flush_loop.
Flush ==
  /\ flusher = "sleeping" /\ queue # <<>>
  /\ Take
  /\ flusher' = "writing"
  /\ UNCHANGED <<sequence, dropped, closer, rows, segmentsWritten, faults, owed>>

\* aclose: the flusher is cancelled and awaited; a batch it was writing is rolled back,
\* unless its commit had already reached the server.
Close ==
  /\ closer = "open"
  /\ flusher' = "stopped"
  /\ closer' = "draining"
  /\ rows' \in IF counted THEN {rows, rows \o batch} ELSE {rows}
  /\ batch' = <<>> /\ counted' = FALSE
  /\ owed' = ToSet(queue)
  /\ UNCHANGED <<sequence, queue, dropped, segmentsWritten, faults>>

\* The final _drain: one batch, or nothing to do.
FinalDrain ==
  /\ closer = "draining"
  /\ IF queue = <<>>
     THEN closer' = "closed" /\ UNCHANGED <<queue, batch, counted>>
     ELSE closer' = "writing" /\ Take
  /\ UNCHANGED <<sequence, dropped, flusher, rows, segmentsWritten, faults, owed>>

ObserverNext == Record \/ Flush \/ Count \/ Commit \/ WriteFails \/ Close \/ FinalDrain

\* The loop's timer fires and writes come back; nothing forces a call to end.
ObserverFairness == WF_observerVars(Flush) /\ WF_observerVars(Count) /\ WF_observerVars(Commit) /\ WF_observerVars(FinalDrain)

ObserverSpec == ObserverInit /\ [][ObserverNext]_observerVars /\ ObserverFairness

-----------------------------------------------------------------------------
(* Properties *)

\* Every field keeps to its type.
ObserverTypeOK ==
  /\ sequence \in 0..MaxRecords
  /\ queue \in Seq(Records) /\ Len(queue) <= QueueLimit
  /\ batch \in Seq(Records) /\ rows \in Seq(Records)
  /\ dropped \in Nat /\ segmentsWritten \in Nat
  /\ counted \in BOOLEAN
  /\ flusher \in {"sleeping", "writing", "stopped"}
  /\ closer \in {"open", "draining", "writing", "closed"}
  /\ owed \subseteq Records
  /\ faults \in 0..MaxFaults

\* The transcript is a subsequence of the conversation: across batches, failed writes,
\* drops and the hand-over from the flusher to aclose nothing is written twice and
\* nothing overtakes an earlier utterance, written, being written or queued.
InOrder ==
  LET all == rows \o batch \o queue
  IN \A i, j \in DOMAIN all : i < j => all[i] < all[j]

\* Without a failed write and before aclose every utterance is accounted for: it is in
\* the table, in the batch, in the queue, or counted as dropped.
NothingUnaccounted ==
  faults = 0 /\ closer = "open" =>
    Len(rows) + Len(batch) + Len(queue) + dropped = sequence

\* What is queued when the call ends gets one more batch: without a failed write the
\* table then holds as many of those utterances as one batch takes (aclose drains
\* once); what exceeds the batch is lost.
CloseWritesABatch ==
  faults = 0 /\ closer = "closed" =>
    LET kept == Cardinality(owed \cap ToSet(rows))
    IN  kept = Cardinality(owed) \/ kept >= BatchSize

\* A failed flush does not stop the recording: while the call lasts, what is queued is
\* taken out of the queue again and again, and aclose ends.
QueueKeepsMoving ==
  \A r \in Records :
    (queue # <<>> /\ Head(queue) = r) ~> (queue = <<>> \/ Head(queue) # r \/ closer = "closed")

\* What the recorder keeps at every moment: order, account and the batch of the close.
TranscriptSound == ObserverTypeOK /\ InOrder /\ NothingUnaccounted /\ CloseWritesABatch
=============================================================================
