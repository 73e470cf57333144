---------------------------- MODULE CircuitBreaker ----------------------------
(***************************************************************************)
(* The circuit breaker of one provider endpoint and stage, and the httpx   *)
(* transport that asks it before every request                             *)
(* (worker/resilience/__init__.py).  The breaker is shared by every call   *)
(* of the process; its methods are short critical sections (self._lock),   *)
(* while a request is awaited between is_open and record_success or        *)
(* record_failure, so results come back in any order and in any state.     *)
(***************************************************************************)
EXTENDS Naturals, FiniteSets

CONSTANTS
  Reqs,              \* requests that may be past the gate together, over all clients of the endpoint
  FailureThreshold,
  SuccessThreshold

ASSUME BreakerAssumption ==
  /\ IsFiniteSet(Reqs)
  /\ FailureThreshold \in Nat \ {0}
  /\ SuccessThreshold \in Nat \ {0}

VARIABLES
  cb,         \* _state
  failures,   \* _failure_count
  successes,  \* _success_count
  cooled,     \* recovery_timeout has elapsed since _opened_at
  inFlight,   \* requests the gate let through and that have no answer yet
  up          \* the provider answers

breakerVars == <<cb, failures, successes, cooled, inFlight, up>>

BreakerInit ==
  /\ cb = "closed" /\ failures = 0 /\ successes = 0 /\ cooled = FALSE
  /\ inFlight = {}
  /\ up = TRUE

\* Mutant: a cooled breaker stays open while it lets requests through.
GateWithoutHalfOpen(r) ==
  /\ r \notin inFlight
  /\ cb = "open" => cooled
  /\ inFlight' = inFlight \cup {r}
  /\ UNCHANGED <<cb, failures, successes, cooled, up>>

\* is_open() and the request: an open breaker refuses with ConnectError (nothing
\* changes); one that has cooled becomes half-open and lets this request through, and
\* a half-open one lets every request through.
Gate(r) ==
  /\ r \notin inFlight
  /\ cb = "open" => cooled
  /\ cb' = IF cb = "open" THEN "half_open" ELSE cb
  /\ successes' = IF cb = "open" THEN 0 ELSE successes
  /\ inFlight' = inFlight \cup {r}
  /\ UNCHANGED <<failures, cooled, up>>

\* record_success, for any answer below 500.
RecordSuccess ==
  /\ \/ /\ cb = "half_open"
        /\ successes' = successes + 1
        /\ IF successes + 1 >= SuccessThreshold
           THEN cb' = "closed" /\ failures' = 0
           ELSE UNCHANGED <<cb, failures>>
     \/ /\ cb = "closed"
        /\ failures' = IF failures = 0 THEN 0 ELSE failures - 1
        /\ UNCHANGED <<cb, successes>>
     \/ cb = "open" /\ UNCHANGED <<cb, failures, successes>>
  /\ UNCHANGED cooled

\* Mutant: off by one.
TripsLate == cb # "open" /\ (cb = "half_open" \/ failures + 1 > FailureThreshold)

\* record_failure, for a 5xx answer and for connect, timeout and network errors.
Trips == cb # "open" /\ (cb = "half_open" \/ failures + 1 >= FailureThreshold)

\* Mutant: a failed probe does not reopen the breaker.
RecordFailureStaysHalfOpen ==
  /\ IF Trips
     THEN /\ cb' = IF cb = "closed" THEN "open" ELSE cb
          /\ failures' = 0 /\ cooled' = FALSE
     ELSE failures' = failures + 1 /\ UNCHANGED <<cb, cooled>>
  /\ UNCHANGED successes

RecordFailure ==
  /\ IF Trips
     THEN cb' = "open" /\ failures' = 0 /\ cooled' = FALSE
     ELSE failures' = failures + 1 /\ UNCHANGED <<cb, cooled>>
  /\ UNCHANGED successes

Succeeds(r) ==
  /\ r \in inFlight /\ up
  /\ RecordSuccess
  /\ inFlight' = inFlight \ {r}
  /\ UNCHANGED up

Fails(r) ==
  /\ r \in inFlight /\ ~up
  /\ RecordFailure
  /\ inFlight' = inFlight \ {r}
  /\ UNCHANGED up

\* A request that is cancelled (the turn was interrupted, or ATTEMPT_TIMEOUT gave the tier
\* up, which is shorter than the read timeouts) or fails with an error the transport does not
\* catch (a RemoteProtocolError) records nothing.
Cancelled(r) ==
  /\ r \in inFlight
  /\ inFlight' = inFlight \ {r}
  /\ UNCHANGED <<cb, failures, successes, cooled, up>>

\* recovery_timeout seconds pass.
CoolDown ==
  /\ cb = "open" /\ ~cooled
  /\ cooled' = TRUE
  /\ UNCHANGED <<cb, failures, successes, inFlight, up>>

ProviderChanges ==
  /\ up' = ~up
  /\ UNCHANGED <<cb, failures, successes, cooled, inFlight>>

BreakerNext ==
  \/ \E r \in Reqs : Gate(r) \/ Succeeds(r) \/ Fails(r) \/ Cancelled(r)
  \/ CoolDown
  \/ ProviderChanges

\* Calls keep making requests, time passes, and a provider that stays up answers some
\* requests within ATTEMPT_TIMEOUT.  Nothing is assumed of one that is down: it may stay
\* silent until every request is cancelled.
BreakerFairness ==
  /\ \A r \in Reqs : WF_breakerVars(Gate(r)) /\ SF_breakerVars(Succeeds(r))
  /\ WF_breakerVars(CoolDown)

BreakerSpec == BreakerInit /\ [][BreakerNext]_breakerVars /\ BreakerFairness

-----------------------------------------------------------------------------
(* Properties *)

\* Every field keeps to its type.
BreakerTypeOK ==
  /\ cb \in {"closed", "open", "half_open"}
  /\ failures \in Nat /\ successes \in Nat
  /\ cooled \in BOOLEAN /\ up \in BOOLEAN
  /\ inFlight \subseteq Reqs

\* The counters never reach their thresholds without the transition having happened,
\* in whatever order late results arrive: a breaker is never closed with a full
\* failure count, nor half-open with enough successes.
CountersBelowThreshold ==
  /\ cb = "closed" => failures < FailureThreshold
  /\ cb = "half_open" => successes < SuccessThreshold

\* record_failure goes on counting while the breaker is open, but only for requests let
\* through before: it opens with a zero count, and what it counts from there leaves the
\* requests in flight, so the count never exceeds what was in flight when it opened.
OpenCountBounded ==
  [][cb' = "open" =>
       IF cb = "open"
       THEN failures' + Cardinality(inFlight') <= failures + Cardinality(inFlight)
       ELSE failures' = 0]_breakerVars

\* A provider that stays up is used again: whatever was in flight, cancelled or
\* half-open when it recovered, the breaker closes for good.
RecoveredProviderIsUsed == <>[]up => <>[](cb = "closed")

\* A provider that stays down and whose failures go on being recorded, whatever else is
\* cancelled in between, is cut off again and again, so that the fallback tier answers: the
\* breaker cannot absorb failures for ever, half-open or closed.
DeadProviderIsCutOff ==
  <>[]~up /\ []<><<\E r \in Reqs : Fails(r)>>_breakerVars => []<>(cb = "open")
=============================================================================
