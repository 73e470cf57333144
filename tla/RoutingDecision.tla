-------------------------- MODULE RoutingDecision --------------------------
(***************************************************************************)
(* How an inbound call is given to an agent: worker/routing.py, as pure    *)
(* operators on the rows it has read.  The calendar is one week, so a date *)
(* stands for its weekday; a day has DaySlots equal slots of time.         *)
(***************************************************************************)
EXTENDS Integers, FiniteSets, FiniteSetsExt

CONSTANTS None,          \* an empty column
          DaySlots,      \* slots of a day
          Offset         \* known timezone |-> slots ahead of UTC

ASSUME RoutingAssumption ==
  /\ DaySlots \in Nat \ {0}
  /\ "UTC" \in DOMAIN Offset /\ Offset["UTC"] = 0
  /\ None \notin DOMAIN Offset

\* Conditions a rule can name.  "campaign" is stored and counted, never compared.
Dimensions == {"did", "caller_number", "campaign"}

Day(zone, at)  == (at + Offset[zone]) \div DaySlots
Slot(zone, at) == (at + Offset[zone]) % DaySlots

\* A schedule is open at an instant, its timezone being known: a holiday decides
\* the day, else some interval contains the local time, its end excluded.
OpenAt(schedule, zone, at) ==
  LET day == Day(zone, at)
  IN  IF day \in DOMAIN schedule.holidays
      THEN schedule.holidays[day] = "open"
      ELSE \E i \in schedule.week :
             i.day = day /\ i.opens <= Slot(zone, at) /\ Slot(zone, at) < i.closes

\* The timezone the worker loads with a schedule (the console falls back on the tenant's).
LoadedZone(schedule) == IF schedule.zone = None THEN "UTC" ELSE schedule.zone

\* An unknown timezone reads as open.
OpenNow(schedule, at) ==
  LET zone == LoadedZone(schedule)
  IN  zone \in DOMAIN Offset => OpenAt(schedule, zone, at)

Matches(rule, facts) == rule.conditions \ {"campaign"} \subseteq facts

Specificity(rule) == Cardinality(rule.conditions)

\* Mutant: without a closed action the schedule is ignored.
ClosedByAction(rule, found, at) ==
  rule.closed # None /\ rule.hours \in DOMAIN found /\ ~OpenNow(found[rule.hours], at)

\* A schedule that was not found reads as open.
Closed(rule, found, at) ==
  rule.hours \in DOMAIN found /\ ~OpenNow(found[rule.hours], at)

\* What the first matching rule comes to, once its turn has come.
Outcome(rule, found, at) ==
  CASE Closed(rule, found, at) /\ rule.closed = "SECONDARY_AGENT" /\ rule.spare # None -> "secondary"
    [] Closed(rule, found, at) /\ ~(rule.closed = "SECONDARY_AGENT" /\ rule.spare # None) -> "closed"
    [] ~Closed(rule, found, at) /\ rule.agent = None -> "skip"
    [] OTHER -> "primary"

\* Mutant: the order of the SQL alone.
BeforeByName(rules, m, n) ==
  \/ rules[m].priority < rules[n].priority
  \/ rules[m].priority = rules[n].priority /\ m < n

\* Rules are named in the order of their identifiers.
Before(rules, m, n) ==
  LET a == rules[m]
      b == rules[n]
  IN  \/ a.priority < b.priority
      \/ a.priority = b.priority /\ Specificity(a) > Specificity(b)
      \/ a.priority = b.priority /\ Specificity(a) = Specificity(b) /\ m < n

Deciding(rules, found, facts, at) ==
  {n \in DOMAIN rules : Matches(rules[n], facts) /\ Outcome(rules[n], found, at) # "skip"}

First(rules, ns) == CHOOSE m \in ns : \A n \in ns \ {m} : Before(rules, m, n)

Nobody == [by |-> 0, kind |-> "none", agent |-> None, fallback |-> None, spare |-> None]

(***************************************************************************)
(* resolve_route: the decision of the first matching rule, Nobody if there *)
(* is none.  Both agents of a rule go into the decision when it is open;   *)
(* when it is closed the secondary takes the call without a further        *)
(* fallback, or the call is refused.                                       *)
(***************************************************************************)
Decision(rules, found, facts, at) ==
  LET deciding == Deciding(rules, found, facts, at)
      n        == First(rules, deciding)
      rule     == rules[n]
      outcome  == Outcome(rule, found, at)
  IN  IF deciding = {} THEN Nobody
      ELSE [by       |-> n,
            kind     |-> outcome,
            agent    |-> CASE outcome = "primary" -> rule.agent
                           [] outcome = "secondary" -> rule.spare
                           [] OTHER -> None,
            fallback |-> IF outcome = "primary" THEN rule.fallback ELSE None,
            spare    |-> IF outcome = "primary" THEN rule.spare ELSE None]
=============================================================================
