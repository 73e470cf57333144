------------------------------ MODULE Routing ------------------------------
(***************************************************************************)
(* One tenant's routing rules, business hours and number, edited through   *)
(* api/v1/routing.py and api/v1/phone_numbers.py while the worker routes   *)
(* calls to the number with them (worker/routing.py, config_loader.py).    *)
(*                                                                         *)
(* A call reads the number, the rules, their schedules and the agent in    *)
(* four statements, each of which sees what is committed at its time.      *)
(* Replacing a schedule's week and deleting a rule, a schedule or an agent *)
(* are two steps, since what they read first is used after other commits;  *)
(* other edits are one.  Agents change as AgentVersions lets them.         *)
(***************************************************************************)
EXTENDS RoutingDecision

CONSTANTS Rules,       \* rule identifiers, numbered in the order of their names
          Hours,       \* schedule identifiers
          Agents,
          RuleForms,   \* rules an administrator submits
          Patches,     \* sets of fields one PUT of a rule may carry
          Weeks,       \* weekly schedules an administrator submits
          Zones,       \* timezones a schedule may carry, None for the tenant's
          Holidays,    \* holiday lists a schedule may carry
          Requests,    \* administrative requests that may overlap
          Calls,
          Standing,    \* configurations the tenant may start from
          Moments,     \* instants at which a call may be routed
          MaxEdits     \* bound: administrative requests

Columns == {"priority", "conditions", "agent", "hours", "fallback", "spare", "closed", "status"}

\* A row of routing_rules as its columns, its check and its foreign keys allow it.
RuleRow(row) ==
  /\ DOMAIN row = Columns
  /\ row.priority \in Nat /\ row.conditions \subseteq Dimensions
  /\ row.hours \in Hours \cup {None} /\ {row.agent, row.spare} \subseteq Agents \cup {None}

\* What the database may hold of a tenant.
Consistent(tenant) ==
  /\ DOMAIN tenant.rules \subseteq Rules /\ DOMAIN tenant.hours \subseteq Hours
  /\ \A n \in DOMAIN tenant.rules : /\ RuleRow(tenant.rules[n])
                                    /\ tenant.rules[n].hours \in DOMAIN tenant.hours \cup {None}
  /\ \A h \in DOMAIN tenant.hours : DOMAIN tenant.hours[h] = {"zone", "holidays", "week"}
  /\ DOMAIN tenant.number = {"pin", "agent"}
  /\ tenant.number.pin \in DOMAIN tenant.rules \cup {0}
  /\ tenant.number.agent \in Agents \cup {None}

ASSUME EditsAssumption ==
  /\ Rules \subseteq Nat \ {0} /\ IsFiniteSet(Rules)
  /\ None \notin Hours \cup Agents
  /\ \A form \in RuleForms : RuleRow(form)
  /\ \A tenant \in Standing : Consistent(tenant)
  /\ MaxEdits \in Nat

Nothing  == [op |-> "idle", rule |-> 0, hours |-> None, agent |-> None, zone |-> None, week |-> {},
             sees |-> {}, locks |-> FALSE]
Arriving == [phase |-> "expected", facts |-> {}, pin |-> 0, inbound |-> None, ready |-> FALSE,
             rules |-> <<>>, found |-> <<>>, decision |-> Nobody, at |-> 0, agent |-> None]

VARIABLES
  rules,      \* routing_rules: identifier |-> row
  hours,      \* business_hours: identifier |-> timezone, holidays and week
  number,     \* phone_numbers: pinned rule (0 when null) and inbound agent
  agents,     \* "published", "unpublished", "disabled" or "deleted"
  request,    \* administrative requests under way
  saved,      \* history: schedule ever created |-> the week last saved for it
  torn,       \* history: schedules whose week two requests replaced at once
  slipped,    \* history: rules that took a schedule, or were pinned, while it was being deleted
  late,       \* history: agents the number was given to while they were being deleted
  call,       \* what each call has read and decided
  edits       \* administrative requests begun

vars == <<rules, hours, number, agents, request, saved, torn, slipped, late, call, edits>>

Phases == {"expected", "number", "rules", "hours", "inbound", "agent", "answered", "refused"}

TypeOK ==
  /\ DOMAIN rules \subseteq Rules /\ DOMAIN hours \subseteq Hours
  /\ \A n \in DOMAIN rules :
       /\ rules[n].hours \in DOMAIN hours \cup {None}
       /\ \A a \in {rules[n].agent, rules[n].spare} :
            a \in Agents \cup {None} /\ (a # None => agents[a] # "deleted")
  /\ number.pin \in DOMAIN rules \cup {0}
  /\ number.agent \in Agents \cup {None} /\ (number.agent # None => agents[number.agent] # "deleted")
  /\ agents \in [Agents -> {"published", "unpublished", "disabled", "deleted"}]
  /\ \A q \in Requests : request[q].op \in {"idle", "week", "drop_rule", "drop_hours", "drop_agent"}
  /\ torn \subseteq Hours /\ slipped \subseteq Rules /\ late \subseteq Agents
  /\ edits \in 0..MaxEdits
  /\ \A c \in Calls : call[c].phase \in Phases

Init ==
  /\ \E tenant \in Standing : /\ rules = tenant.rules /\ hours = tenant.hours
                              /\ number = tenant.number
  /\ agents \in [Agents -> {"published", "unpublished"}]
  /\ request = [q \in Requests |-> Nothing]
  /\ saved = [h \in DOMAIN hours |-> hours[h].week] /\ torn = {} /\ slipped = {}
  /\ late = {}
  /\ call = [c \in Calls |-> Arriving]
  /\ edits = 0

(***************************************************************************)
(* Functions with a changing domain                                        *)
(***************************************************************************)
With(f, k, v)  == [x \in DOMAIN f \cup {k} |-> IF x = k THEN v ELSE f[x]]
Without(f, ks) == [x \in DOMAIN f \ ks |-> f[x]]

Edited == edits < MaxEdits /\ edits' = edits + 1

(***************************************************************************)
(* Rules                                                                   *)
(***************************************************************************)

\* _check_rule_references: what a rule names exists.
References(row) ==
  /\ row.hours \in DOMAIN hours \cup {None}
  /\ \A a \in {row.agent, row.spare} : a # None => agents[a] # "deleted"

\* The validator of RoutingRuleBase, which only creation runs.
Complete(row) == row.fallback = "SECONDARY_AGENT" => row.spare # None

Deleting(op, h, n) == \E q \in Requests : /\ request[q].op = op
                                          /\ request[q].hours = h /\ request[q].rule = n

\* Rule n, unless it takes a schedule that is being deleted.
Takes(n, h) == IF h # None /\ Deleting("drop_hours", h, 0) THEN slipped \cup {n} ELSE slipped

CreateRule(n, row) ==
  /\ n \notin DOMAIN rules
  /\ References(row) /\ Complete(row)
  /\ Edited
  /\ rules' = With(rules, n, row)
  /\ slipped' = Takes(n, row.hours)
  /\ UNCHANGED <<hours, number, agents, request, saved, torn, late, call>>

UpdateRule(n, fields, form) ==
  /\ n \in DOMAIN rules
  /\ LET row == [f \in DOMAIN rules[n] |-> IF f \in fields THEN form[f] ELSE rules[n][f]]
     IN  /\ References([f \in DOMAIN row |-> IF f \in fields THEN row[f] ELSE None])
         /\ row # rules[n]
         /\ rules' = [rules EXCEPT ![n] = row]
         /\ slipped' = IF "hours" \in fields THEN Takes(n, row.hours) ELSE slipped
  /\ Edited
  /\ UNCHANGED <<hours, number, agents, request, saved, torn, late, call>>

\* A number pinned to a deleted rule loses its pin (ON DELETE SET NULL).
Unpinned(ns) == IF number.pin \in ns THEN [number EXCEPT !.pin = 0] ELSE number

\* delete_rule, up to the reading of the numbers that use the rule.
CheckRule(q, n) ==
  /\ request[q].op = "idle" /\ n \in DOMAIN rules
  /\ number.pin # n
  /\ Edited
  /\ request' = [request EXCEPT ![q] = [Nothing EXCEPT !.op = "drop_rule", !.rule = n]]
  /\ UNCHANGED <<rules, hours, number, agents, saved, torn, slipped, late, call>>

DropRule(q) ==
  /\ request[q].op = "drop_rule"
  /\ rules' = Without(rules, {request[q].rule})
  /\ number' = Unpinned({request[q].rule})
  /\ request' = [request EXCEPT ![q] = Nothing]
  /\ UNCHANGED <<hours, agents, saved, torn, slipped, late, call, edits>>

(***************************************************************************)
(* Business hours                                                          *)
(***************************************************************************)
CreateHours(h, form) ==
  /\ h \notin DOMAIN saved
  /\ Edited
  /\ hours' = With(hours, h, form)
  /\ saved' = With(saved, h, form.week)
  /\ UNCHANGED <<rules, number, agents, request, torn, slipped, late, call>>

\* A request that changed the row of schedule h has it locked until it commits.
Locked(h) == \E q \in Requests : request[q].hours = h /\ request[q].locks

\* update_hours without intervals.
UpdateHours(h, zone, holidays) ==
  /\ h \in DOMAIN hours /\ ~Locked(h)
  /\ [hours[h] EXCEPT !.zone = zone, !.holidays = holidays] # hours[h]
  /\ Edited
  /\ hours' = [hours EXCEPT ![h].zone = zone, ![h].holidays = holidays]
  /\ UNCHANGED <<rules, number, agents, request, saved, torn, slipped, late, call>>

Replacing(h) == \E q \in Requests : request[q].op = "week" /\ request[q].hours = h

\* update_hours with intervals, up to the deletion of those it can see.  A change
\* of timezone is written just before the deletion and locks the row.
ReplaceWeek(q, h, zone, week) ==
  /\ request[q].op = "idle" /\ h \in DOMAIN hours
  /\ zone # hours[h].zone => ~Locked(h)
  /\ Edited
  /\ request' = [request EXCEPT ![q] =
       [Nothing EXCEPT !.op = "week", !.hours = h, !.zone = zone, !.week = week,
                       !.sees = hours[h].week, !.locks = zone # hours[h].zone]]
  /\ torn' = IF Replacing(h) THEN torn \cup {h} ELSE torn
  /\ UNCHANGED <<rules, hours, number, agents, saved, slipped, late, call>>

\* Mutant: the intervals are merged.
Merged(week, r) == week \cup r.week

\* The week once the request has added its own intervals to those it did not delete.
Replaced(week, r) == (week \ r.sees) \cup r.week

\* The rest of the request, which fails when the schedule is gone.
CommitWeek(q) ==
  /\ request[q].op = "week"
  /\ LET r == request[q]
         h == r.hours
     IN  IF h \in DOMAIN hours
         THEN /\ hours' = [hours EXCEPT ![h].week = Replaced(@, r),
                                        ![h].zone = IF r.locks THEN r.zone ELSE @]
              /\ saved' = [saved EXCEPT ![h] = r.week]
         ELSE UNCHANGED <<hours, saved>>
  /\ request' = [request EXCEPT ![q] = Nothing]
  /\ UNCHANGED <<rules, number, agents, torn, slipped, late, call, edits>>

\* Mutant: users of the schedule are not looked for.
CheckHoursUnasked(q, h) ==
  /\ request[q].op = "idle" /\ h \in DOMAIN hours
  /\ Edited
  /\ request' = [request EXCEPT ![q] = [Nothing EXCEPT !.op = "drop_hours", !.hours = h]]
  /\ UNCHANGED <<rules, hours, number, agents, saved, torn, slipped, late, call>>

\* delete_hours, up to the reading of the rules that use the schedule.
CheckHours(q, h) ==
  /\ request[q].op = "idle" /\ h \in DOMAIN hours
  /\ \A n \in DOMAIN rules : rules[n].hours # h
  /\ Edited
  /\ request' = [request EXCEPT ![q] = [Nothing EXCEPT !.op = "drop_hours", !.hours = h]]
  /\ UNCHANGED <<rules, hours, number, agents, saved, torn, slipped, late, call>>

\* Rules that came to use the schedule since lose it (ON DELETE SET NULL).
DropHours(q) ==
  /\ request[q].op = "drop_hours" /\ ~Locked(request[q].hours)
  /\ LET h == request[q].hours
     IN  /\ hours' = Without(hours, {h})
         /\ rules' = [n \in DOMAIN rules |->
                        [rules[n] EXCEPT !.hours = IF @ = h THEN None ELSE @]]
  /\ request' = [request EXCEPT ![q] = Nothing]
  /\ UNCHANGED <<number, agents, saved, torn, slipped, late, call, edits>>

(***************************************************************************)
(* The number and the agents                                               *)
(***************************************************************************)
\* Request q is deleting agent a.
Leaving(q, a) == request[q].op = "drop_agent" /\ request[q].agent = a

Assign(pin, a) ==
  /\ pin \in DOMAIN rules \cup {0}
  /\ a # None => agents[a] # "deleted"
  /\ number # [pin |-> pin, agent |-> a]
  /\ Edited
  /\ number' = [pin |-> pin, agent |-> a]
  /\ slipped' = IF pin # number.pin /\ Deleting("drop_rule", None, pin)
                THEN slipped \cup {pin} ELSE slipped
  /\ late' = IF a # number.agent /\ \E q \in Requests : Leaving(q, a) THEN late \cup {a} ELSE late
  /\ UNCHANGED <<rules, hours, agents, request, saved, torn, call>>

SetAgent(a, status) ==
  /\ agents[a] \notin {"deleted", status} /\ status # "deleted"
  /\ Edited
  /\ agents' = [agents EXCEPT ![a] = status]
  /\ UNCHANGED <<rules, hours, number, request, saved, torn, slipped, late, call>>

\* Mutant: the numbers of the agent are not looked for.
CheckAgentUnasked(q, a) ==
  /\ request[q].op = "idle" /\ agents[a] # "deleted"
  /\ Edited
  /\ request' = [request EXCEPT ![q] = [Nothing EXCEPT !.op = "drop_agent", !.agent = a]]
  /\ UNCHANGED <<rules, hours, number, agents, saved, torn, slipped, late, call>>

\* delete_agent, up to the reading of the numbers it answers; the rules that route to
\* it, and the numbers pinned to those, are not looked for.
CheckAgent(q, a) ==
  /\ request[q].op = "idle" /\ agents[a] # "deleted"
  /\ number.agent # a
  /\ Edited
  /\ request' = [request EXCEPT ![q] = [Nothing EXCEPT !.op = "drop_agent", !.agent = a]]
  /\ UNCHANGED <<rules, hours, number, agents, saved, torn, slipped, late, call>>

\* Rules that route to the agent go with it (ON DELETE CASCADE); rules that fall back
\* to it, and a number given to it since, lose it (ON DELETE SET NULL).  An agent that
\* another request deleted leaves nothing to do.
DropAgent(q) ==
  /\ request[q].op = "drop_agent"
  /\ LET a    == request[q].agent
         gone == {n \in DOMAIN rules : rules[n].agent = a}
         Kept(b) == IF b = a THEN None ELSE b
     IN  /\ rules' = [n \in DOMAIN rules \ gone |-> [rules[n] EXCEPT !.spare = Kept(@)]]
         /\ number' = [Unpinned(gone) EXCEPT !.agent = Kept(@)]
         /\ agents' = [agents EXCEPT ![a] = "deleted"]
  /\ request' = [request EXCEPT ![q] = Nothing]
  /\ UNCHANGED <<hours, saved, torn, slipped, late, call, edits>>

(***************************************************************************)
(* A call                                                                  *)
(***************************************************************************)
Advance(c, row) == call' = [call EXCEPT ![c] = row]

Frozen == UNCHANGED <<rules, hours, number, agents, request, saved, torn, slipped, late, edits>>

\* _RESOLVE_SQL: the number and its own agent.
Arrive(c, facts) ==
  /\ call[c].phase = "expected"
  /\ Advance(c, [Arriving EXCEPT
       !.phase = "number", !.facts = facts, !.pin = number.pin, !.inbound = number.agent,
       !.ready = number.agent # None /\ agents[number.agent] \in {"published", "disabled"}])
  /\ Frozen

Active == {n \in DOMAIN rules : rules[n].status = "ACTIVE"}

\* The rules to evaluate: the pinned one alone, or all of the tenant's.
Candidates(pin) == IF pin = 0 THEN Active ELSE Active \cap {pin}

ReadRules(c) ==
  /\ call[c].phase = "number"
  /\ LET ns == Candidates(call[c].pin)
     IN  Advance(c, [call[c] EXCEPT
           !.rules = [n \in ns |-> rules[n]],
           !.phase = IF ns = {} THEN "inbound" ELSE "rules"])
  /\ Frozen

ReadHours(c) ==
  /\ call[c].phase = "rules"
  /\ LET wanted == {call[c].rules[n].hours : n \in DOMAIN call[c].rules}
     IN  Advance(c, [call[c] EXCEPT
           !.found = [h \in DOMAIN hours \cap wanted |-> hours[h]], !.phase = "hours"])
  /\ Frozen

Route(c, at) ==
  /\ call[c].phase = "hours"
  /\ LET d == Decision(call[c].rules, call[c].found, call[c].facts, at)
     IN  Advance(c, [call[c] EXCEPT !.decision = d, !.at = at,
           !.phase = CASE d.kind = "none" -> "inbound"
                       [] d.kind = "closed" -> "refused"
                       [] OTHER -> "agent"])
  /\ Frozen

\* No rule decided: the number's own agent, as the first statement read it.
Inbound(c) ==
  /\ call[c].phase = "inbound"
  /\ Advance(c, IF call[c].ready
                THEN [call[c] EXCEPT !.phase = "answered", !.agent = call[c].inbound]
                ELSE [call[c] EXCEPT !.phase = "refused"])
  /\ Frozen

\* _resolve_agent: the decision's agent, or its fallback when it is unpublished.
Resolved(d) ==
  CASE agents[d.agent] = "published" -> d.agent
    [] /\ agents[d.agent] = "unpublished" /\ d.fallback = "SECONDARY_AGENT"
       /\ d.spare # None /\ agents[d.spare] = "published" -> d.spare
    [] OTHER -> None

Resolve(c) ==
  /\ call[c].phase = "agent"
  /\ LET a == Resolved(call[c].decision)
     IN  Advance(c, [call[c] EXCEPT !.agent = a,
                       !.phase = IF a = None THEN "refused" ELSE "answered"])
  /\ Frozen

Edits ==
  \/ \E n \in Rules, form \in RuleForms :
       \/ CreateRule(n, form)
       \/ \E fields \in Patches : UpdateRule(n, fields, form)
  \/ \E h \in Hours, zone \in Zones :
       \/ \E holidays \in Holidays :
            \/ \E week \in Weeks :
                 CreateHours(h, [zone |-> zone, holidays |-> holidays, week |-> week])
            \/ UpdateHours(h, zone, holidays)
       \/ \E q \in Requests, week \in Weeks : ReplaceWeek(q, h, zone, week)
  \/ \E q \in Requests :
       \/ \E n \in Rules : CheckRule(q, n)
       \/ \E h \in Hours : CheckHours(q, h)
       \/ \E a \in Agents : CheckAgent(q, a)
       \/ DropRule(q) \/ DropHours(q) \/ DropAgent(q) \/ CommitWeek(q)
  \/ \E pin \in Rules \cup {0}, a \in Agents \cup {None} : Assign(pin, a)
  \/ \E a \in Agents, status \in {"published", "unpublished", "disabled"} : SetAgent(a, status)

Routes(c) ==
  \/ \E facts \in SUBSET {"did", "caller_number"} : Arrive(c, facts)
  \/ ReadRules(c) \/ ReadHours(c) \/ Inbound(c) \/ Resolve(c)
  \/ \E at \in Moments : Route(c, at)

Next == Edits \/ \E c \in Calls : Routes(c)

Spec == Init /\ [][Next]_vars

(***************************************************************************)
(* Properties                                                              *)
(***************************************************************************)

\* The row of the rule that decided a call, as the call read it.
DecidingRow(c) == call[c].rules[call[c].decision.by]

Decided(c) == call[c].decision.by # 0

Sees(c, n) == n \in DOMAIN rules /\ rules[n] = call[c].rules[n]

\* A caller reaches the daytime agent of a rule with a schedule outside its hours
\* only when the rule or its schedule was changed while the call was being routed:
\* as long as the rule stands as it was read, the schedule was found ("schedule not
\* found: treat as open", worker/routing.py) and was open by its own timezone.  A
\* schedule without one is left out: resolve_route's comment and models/routing.py
\* give it the tenant's timezone, the worker reads it as UTC, and by the tenant's
\* clock the daytime agent is reached outside the hours.
NeverOutOfHours ==
  \A c \in Calls :
    LET h == DecidingRow(c).hours
        found == call[c].found
    IN  Decided(c) /\ call[c].decision.kind = "primary" /\ h # None /\ Sees(c, call[c].decision.by)
        => h \in DOMAIN found /\ (found[h].zone # None => OpenNow(found[h], call[c].at))

\* No rule is shadowed: a rule passed over for the one that decided has a higher
\* priority number, or does not ask for more than the one that decided, or does
\* not match, or has no agent to give while it is open.
BestRule ==
  \A c \in Calls : Decided(c) =>
    \A n \in DOMAIN call[c].rules \ {call[c].decision.by} :
      LET passed == call[c].rules[n]
      IN  \/ passed.priority > DecidingRow(c).priority
          \/ /\ passed.priority = DecidingRow(c).priority
             /\ ~(DecidingRow(c).conditions \subseteq passed.conditions)
          \/ passed.conditions = DecidingRow(c).conditions
          \/ ~(passed.conditions \ {"campaign"} \subseteq call[c].facts)
          \/ passed.agent = None

\* A rule loses its schedule, or the number its rule or its agent, to a deletion only
\* when it was attached after the deletion had looked for users (ON DELETE SET NULL
\* would turn the rule into one that is always open, and the number into one that any
\* rule or nobody answers).  The one exception: a rule goes with its agent, for which
\* delete_agent does not look, and a number pinned to it loses it without any race.
DetachedOnlyInRace ==
  [][edits' = edits =>
       /\ \A n \in DOMAIN rules \cap DOMAIN rules' :
            rules'[n].hours = rules[n].hours \/ n \in slipped
       /\ \/ number'.pin = number.pin \/ number.pin \in slipped
          \/ \E a \in Agents : rules[number.pin].agent = a /\ agents'[a] = "deleted"
       /\ number'.agent = number.agent \/ number.agent \in late]_vars

\* A schedule consists of the intervals of one save, unless two saves overlapped:
\* then it may be open in the hours of both (update_hours deletes only the
\* intervals it can see).
WeekIsOneSave == \A h \in DOMAIN hours \ torn : hours[h].week = saved[h]

\* What the rows keep at every moment.
RowsSound == TypeOK /\ WeekIsOneSave
=============================================================================
