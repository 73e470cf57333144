----------------------------- MODULE RoutingProofs -----------------------------
(***************************************************************************)
(* Theorems about Routing, for every set of rules, schedules, agents,      *)
(* overlapping requests and calls: a call is routed by the best rule and   *)
(* inside its hours, a week of opening hours is one save, and a rule loses *)
(* its schedule, or a number its rule or agent, only in a race with a      *)
(* deletion or with the agent of the rule.                                 *)
(***************************************************************************)
EXTENDS Routing, FiniteSetTheorems, WellFoundedInduction, TLAPS

\* The rows: what the columns and the foreign keys hold.
RowsInv ==
  /\ DOMAIN rules \subseteq Rules
  /\ \A n \in DOMAIN rules :
       /\ RuleRow(rules[n])
       /\ rules[n].hours \in DOMAIN hours \cup {None}
       /\ \A a \in {rules[n].agent, rules[n].spare} : a # None => agents[a] # "deleted"
  /\ DOMAIN number = {"pin", "agent"}
  /\ number.pin \in DOMAIN rules \cup {0} /\ number.agent \in Agents \cup {None}
  /\ number.agent # None => agents[number.agent] # "deleted"
  /\ agents \in [Agents -> {"published", "unpublished", "disabled", "deleted"}]
  /\ edits \in 0..MaxEdits

\* The administrative requests.
RequestsInv ==
  /\ DOMAIN request = Requests
  /\ \A q \in Requests :
       /\ DOMAIN request[q] = DOMAIN Nothing
       /\ request[q].op \in {"idle", "week", "drop_rule", "drop_hours", "drop_agent"}
       /\ request[q].op = "week" => request[q].hours \in DOMAIN saved
       /\ request[q].op = "drop_rule" => request[q].rule \in Rules /\ request[q].hours = None
       /\ request[q].op = "drop_hours" => request[q].hours \in Hours /\ request[q].rule = 0
       /\ request[q].op = "drop_agent" => request[q].agent \in Agents

\* The schedules.  An identifier is never used again, and until a second save of the
\* same schedule begins, a save under way sees the whole week.
HoursInv ==
  /\ DOMAIN hours \subseteq DOMAIN saved /\ DOMAIN saved \subseteq Hours /\ torn \subseteq Hours
  /\ \A h \in DOMAIN hours : DOMAIN hours[h] = {"zone", "holidays", "week"}
  /\ WeekIsOneSave
  /\ \A q \in Requests : LET r == request[q] IN
       r.op = "week" /\ r.hours \in DOMAIN hours \ torn => r.sees = hours[r.hours].week
  /\ \A p, q \in Requests :
       p # q /\ request[p].op = "week" /\ request[q].op = "week"
       /\ request[p].hours = request[q].hours => request[p].hours \in torn

\* Whatever uses what is being deleted came after the deletion had looked.
DeletionsInv ==
  /\ slipped \subseteq Rules /\ late \subseteq Agents
  /\ \A q \in Requests, n \in DOMAIN rules :
       request[q].op = "drop_hours" /\ rules[n].hours = request[q].hours => n \in slipped
  /\ \A q \in Requests :
       request[q].op = "drop_rule" /\ number.pin = request[q].rule => number.pin \in slipped
  /\ \A q \in Requests :
       request[q].op = "drop_agent" /\ number.agent = request[q].agent => number.agent \in late

\* A call.  It has decided only by what it read, and a schedule it did not find is gone
\* for good, so that no rule can have it any more.
CallInv(k) ==
  /\ DOMAIN k = DOMAIN Arriving
  /\ k.phase \in Phases
  /\ DOMAIN k.rules \subseteq Rules
  /\ \A n \in DOMAIN k.rules : RuleRow(k.rules[n]) /\ k.rules[n].hours \in DOMAIN saved \cup {None}
  /\ k.phase \notin {"expected", "number", "rules"} =>
       \A n \in DOMAIN k.rules : k.rules[n].hours \in DOMAIN hours => k.rules[n].hours \in DOMAIN k.found
  /\ \/ k.decision = Nobody
     \/ /\ k.phase \notin {"expected", "number", "rules", "hours"}
        /\ k.decision = Decision(k.rules, k.found, k.facts, k.at)

CallsInv == DOMAIN call = Calls /\ \A c \in Calls : CallInv(call[c])

IInv == RowsInv /\ RequestsInv /\ HoursInv /\ DeletionsInv /\ CallsInv

-----------------------------------------------------------------------------
(* The decision *)

\* A non-empty set of naturals has a smallest element.
LEMMA Smallest ==
  ASSUME NEW S \in SUBSET Nat, S # {}
  PROVE  \E m \in S : \A n \in S : m <= n
<1> DEFINE T == {0..n : n \in S}
<1>1. T \subseteq FiniteSubsetsOf(Nat) /\ T # {}
  <2>1. \A n \in S : 0..n \in SUBSET Nat /\ IsFiniteSet(0..n)
    BY FS_Interval
  <2> QED
    BY <2>1 DEF FiniteSubsetsOf
<1>2. \E x \in T : \A y \in T : ~(<<y, x>> \in StrictSubsetOrdering(Nat))
  <2> HIDE DEF T
  <2> QED
    BY <1>1, FS_StrictSubsetOrderingWellFounded, WFMin
<1>3. PICK m \in S : \A n \in S : ~(<<0..n, 0..m>> \in StrictSubsetOrdering(Nat))
  BY <1>2
<1>4. ASSUME NEW n \in S, n < m PROVE FALSE
  <2>1. 0..n \in SUBSET Nat /\ 0..m \in SUBSET Nat /\ 0..n \subseteq 0..m
    BY <1>4
  <2>2. m \in 0..m /\ m \notin 0..n
    BY <1>4
  <2> QED
    BY <1>3, <2>1, <2>2 DEF StrictSubsetOrdering
<1> QED
  BY <1>4

\* Among rules in use there is one that comes before all others: the order by priority,
\* specificity and name.
LEMMA FirstComesFirst ==
  ASSUME NEW r, NEW ns, ns # {}, ns \subseteq DOMAIN r, DOMAIN r \subseteq Nat,
         \A n \in DOMAIN r : RuleRow(r[n])
  PROVE  /\ First(r, ns) \in ns
         /\ \A n \in ns \ {First(r, ns)} : Before(r, First(r, ns), n)
<1>1. \A n \in ns : /\ n \in Nat /\ r[n].priority \in Nat
                    /\ IsFiniteSet(r[n].conditions) /\ Specificity(r[n]) \in 0..3
  <2>1. IsFiniteSet(Dimensions) /\ Cardinality(Dimensions) <= 3
    <3>1. IsFiniteSet({"did"}) /\ Cardinality({"did"}) = 1
      BY FS_Singleton
    <3>2. IsFiniteSet({"did", "caller_number"}) /\ Cardinality({"did", "caller_number"}) = 2
      <4>1. {"did"} \cup {"caller_number"} = {"did", "caller_number"}
        OBVIOUS
      <4> QED
        BY <3>1, <4>1, FS_AddElement
    <3>3. {"did", "caller_number"} \cup {"campaign"} = Dimensions
      BY DEF Dimensions
    <3> QED
      BY <3>2, <3>3, FS_AddElement
  <2>2. ASSUME NEW n \in ns PROVE r[n].conditions \in SUBSET Dimensions
    BY DEF RuleRow
  <2>3. ASSUME NEW n \in ns
        PROVE  IsFiniteSet(r[n].conditions) /\ Specificity(r[n]) \in 0..3
    <3>1. /\ IsFiniteSet(r[n].conditions) /\ Cardinality(r[n].conditions) \in Nat
          /\ Cardinality(r[n].conditions) <= Cardinality(Dimensions)
      BY <2>1, <2>2, FS_Subset, FS_CardinalityType
    <3>2. Cardinality(Dimensions) \in Nat
      BY <2>1, FS_CardinalityType
    <3> QED
      BY <2>1, <3>1, <3>2 DEF Specificity
  <2> QED
    BY <2>3 DEF RuleRow
<1>2. PICK p \in ns : \A n \in ns : r[p].priority <= r[n].priority
  <2> DEFINE S == {r[n].priority : n \in ns}
  <2>1. S \in SUBSET Nat /\ S # {}
    BY <1>1
  <2>2. \E m \in S : \A n \in S : m <= n
    <3> HIDE DEF S
    <3> QED
      BY <2>1, Smallest
  <2> QED
    BY <2>2
<1> DEFINE T == {n \in ns : r[n].priority = r[p].priority}
<1>3. PICK s \in T : \A n \in T : Specificity(r[n]) <= Specificity(r[s])
  <2> DEFINE S == {3 - Specificity(r[n]) : n \in T}
  <2>1. S \in SUBSET Nat /\ S # {}
    <3>1. \A n \in T : 3 - Specificity(r[n]) \in Nat
      BY <1>1
    <3>2. p \in T
      OBVIOUS
    <3> QED
      BY <3>1, <3>2
  <2>2. \E m \in S : \A n \in S : m <= n
    <3> HIDE DEF S
    <3> QED
      BY <2>1, Smallest
  <2>3. PICK s \in T : \A n \in T : 3 - Specificity(r[s]) <= 3 - Specificity(r[n])
    BY <2>2
  <2> QED
    BY <1>1, <2>3
<1> DEFINE U == {n \in T : Specificity(r[n]) = Specificity(r[s])}
<1>4. PICK m \in U : \A n \in U : m <= n
  <2>1. U \in SUBSET Nat /\ s \in U
    BY <1>1
  <2> HIDE DEF U
  <2> QED
    BY <2>1, Smallest
<1>5. \A n \in ns \ {m} : Before(r, m, n)
  <2> SUFFICES ASSUME NEW n \in ns \ {m} PROVE Before(r, m, n)
    OBVIOUS
  <2>1. m \in ns /\ r[m].priority = r[p].priority /\ Specificity(r[m]) = Specificity(r[s])
    OBVIOUS
  <2>2. CASE n \notin T
    <3>1. r[m].priority < r[n].priority
      BY <1>1, <1>2, <2>1, <2>2
    <3> QED
      BY <3>1 DEF Before
  <2>3. CASE n \in T \ U
    <3>1. r[m].priority = r[n].priority /\ Specificity(r[m]) > Specificity(r[n])
      BY <1>1, <1>3, <2>1, <2>3
    <3> QED
      BY <3>1 DEF Before
  <2>4. CASE n \in U
    <3>1. m < n
      BY <1>1, <1>4, <2>1, <2>4
    <3> QED
      BY <2>1, <2>4, <3>1 DEF Before
  <2> QED
    BY <2>2, <2>3, <2>4
<1> QED
  BY <1>5 DEF First

\* A rule passed over for the first one does not come before it.
LEMMA PassedOver ==
  ASSUME NEW r, NEW m \in DOMAIN r, NEW n \in DOMAIN r, RuleRow(r[m]), RuleRow(r[n]),
         Before(r, m, n)
  PROVE  \/ r[n].priority > r[m].priority
         \/ r[n].priority = r[m].priority /\ ~(r[m].conditions \subseteq r[n].conditions)
         \/ r[n].conditions = r[m].conditions
<1>1. IsFiniteSet(r[n].conditions)
  <2>1. IsFiniteSet({"did"} \cup {"caller_number"} \cup {"campaign"})
    BY FS_Singleton, FS_AddElement
  <2>2. r[n].conditions \in SUBSET ({"did"} \cup {"caller_number"} \cup {"campaign"})
    BY DEF RuleRow, Dimensions
  <2> QED
    BY <2>1, <2>2, FS_Subset
<1>2. r[m].priority \in Nat /\ r[n].priority \in Nat
  BY DEF RuleRow
<1>3. SUFFICES ASSUME r[n].priority = r[m].priority, r[m].conditions \subseteq r[n].conditions
               PROVE  r[n].conditions = r[m].conditions
  BY <1>2 DEF Before
<1>4. Specificity(r[m]) >= Specificity(r[n])
  <2>1. \/ Specificity(r[m]) > Specificity(r[n])
        \/ Specificity(r[m]) = Specificity(r[n])
    BY <1>2, <1>3 DEF Before
  <2>2. Specificity(r[m]) \in Nat /\ Specificity(r[n]) \in Nat
    <3>1. r[m].conditions \in SUBSET r[n].conditions
      BY <1>3
    <3> QED
      BY <1>1, <3>1, FS_Subset, FS_CardinalityType DEF Specificity
  <2> QED
    BY <2>1, <2>2
<1>5. /\ Specificity(r[m]) <= Specificity(r[n])
      /\ Specificity(r[m]) = Specificity(r[n]) => r[n].conditions = r[m].conditions
      /\ Specificity(r[m]) \in Nat /\ Specificity(r[n]) \in Nat
  <2>1. r[m].conditions \in SUBSET r[n].conditions
    BY <1>3
  <2> QED
    BY <1>1, <2>1, FS_Subset, FS_CardinalityType DEF Specificity
<1> QED
  BY <1>4, <1>5

\* What a call is given: nothing, or the outcome of the first rule that matches and does
\* not skip.
LEMMA DecisionIsFirst ==
  ASSUME NEW r, NEW found, NEW facts, NEW at, DOMAIN r \subseteq Nat \ {0},
         \A n \in DOMAIN r : RuleRow(r[n])
  PROVE  LET d == Decision(r, found, facts, at)
             D == Deciding(r, found, facts, at)
         IN  \/ d = Nobody
             \/ /\ d.by \in D /\ d.by # 0 /\ d.kind = Outcome(r[d.by], found, at)
                /\ \A n \in D \ {d.by} : Before(r, d.by, n)
<1> DEFINE d == Decision(r, found, facts, at)
           D == Deciding(r, found, facts, at)
<1>1. CASE D = {}
  BY <1>1 DEF Decision
<1>2. CASE D # {}
  <2>1. d.by = First(r, D) /\ d.kind = Outcome(r[First(r, D)], found, at)
    BY <1>2 DEF Decision
  <2>2. D \subseteq DOMAIN r
    BY DEF Deciding
  <2>3. First(r, D) \in D /\ \A n \in D \ {First(r, D)} : Before(r, First(r, D), n)
    <3>1. DOMAIN r \subseteq Nat
      OBVIOUS
    <3> HIDE DEF D
    <3> QED
      BY <1>2, <2>2, <3>1, FirstComesFirst
  <2> QED
    BY <2>1, <2>2, <2>3
<1> QED
  BY <1>1, <1>2

-----------------------------------------------------------------------------
(* The edits *)

EditsInv == RowsInv /\ RequestsInv /\ HoursInv /\ DeletionsInv

LEMMA OneMoreEdit ==
  ASSUME RowsInv, Edited
  PROVE  edits' \in 0..MaxEdits /\ edits' # edits
BY EditsAssumption DEF RowsInv, Edited

\* The parts that a step leaves alone.
LEMMA SameHours ==
  ASSUME HoursInv, UNCHANGED <<hours, saved, torn, request>>
  PROVE  HoursInv'
BY DEF HoursInv, WeekIsOneSave

LEMMA SameRequests ==
  ASSUME RequestsInv, UNCHANGED <<request, saved>>
  PROVE  RequestsInv'
BY DEF RequestsInv

\* A rule is created.
LEMMA CreateRuleKeeps ==
  ASSUME EditsInv, NEW n \in Rules, NEW row \in RuleForms, CreateRule(n, row)
  PROVE  EditsInv'
<1> USE DEF EditsInv
<1>1. /\ n \notin DOMAIN rules /\ References(row) /\ RuleRow(row)
      /\ rules' = With(rules, n, row) /\ slipped' = Takes(n, row.hours)
      /\ UNCHANGED <<hours, number, agents, request, saved, torn, late>>
  BY EditsAssumption DEF CreateRule
<1>2. /\ DOMAIN rules' = DOMAIN rules \cup {n} /\ rules'[n] = row
      /\ \A m \in DOMAIN rules : rules'[m] = rules[m]
  BY <1>1 DEF With
<1>3. RowsInv'
  <2>1. \A m \in DOMAIN rules' :
          /\ RuleRow(rules'[m])
          /\ rules'[m].hours \in DOMAIN hours' \cup {None}
          /\ \A a \in {rules'[m].agent, rules'[m].spare} : a # None => agents'[a] # "deleted"
    BY <1>1, <1>2 DEF RowsInv, References
  <2>2. edits' \in 0..MaxEdits
    BY OneMoreEdit DEF CreateRule
  <2> QED
    BY <1>1, <1>2, <2>1, <2>2 DEF RowsInv
<1>4. DeletionsInv'
  <2>1. slipped \subseteq slipped' /\ slipped' \subseteq Rules
    BY <1>1 DEF Takes, DeletionsInv
  <2>2. ASSUME NEW q \in Requests, request[q].op = "drop_hours", row.hours = request[q].hours
        PROVE  n \in slipped'
    <3>1. row.hours # None /\ Deleting("drop_hours", row.hours, 0)
      BY <2>2, EditsAssumption DEF RequestsInv, Deleting
    <3> QED
      BY <1>1, <3>1 DEF Takes
  <2> QED
    BY <1>1, <1>2, <2>1, <2>2 DEF DeletionsInv
<1> QED
  BY <1>1, <1>3, <1>4, SameHours, SameRequests

\* A rule is changed.
LEMMA UpdateRuleKeeps ==
  ASSUME EditsInv, NEW n \in Rules, NEW form \in RuleForms, NEW fields, UpdateRule(n, fields, form)
  PROVE  EditsInv'
<1> USE DEF EditsInv
<1> DEFINE row == [f \in DOMAIN rules[n] |-> IF f \in fields THEN form[f] ELSE rules[n][f]]
           asked == [f \in DOMAIN row |-> IF f \in fields THEN row[f] ELSE None]
<1>1. /\ n \in DOMAIN rules /\ References(asked) /\ RuleRow(form) /\ RuleRow(rules[n])
      /\ rules' = [rules EXCEPT ![n] = row]
      /\ slipped' = IF "hours" \in fields THEN Takes(n, row.hours) ELSE slipped
      /\ UNCHANGED <<hours, number, agents, request, saved, torn, late>>
  BY EditsAssumption DEF UpdateRule, RowsInv
<1>2. /\ DOMAIN row = Columns /\ DOMAIN form = Columns
      /\ \A f \in Columns : /\ row[f] = IF f \in fields THEN form[f] ELSE rules[n][f]
                            /\ asked[f] = IF f \in fields THEN row[f] ELSE None
  BY <1>1 DEF RuleRow
<1>3. RuleRow(row)
  BY <1>1, <1>2 DEF RuleRow, Columns
<1>4. /\ row.hours \in DOMAIN hours \cup {None}
      /\ \A a \in {row.agent, row.spare} : a # None => agents[a] # "deleted"
      /\ "hours" \notin fields => row.hours = rules[n].hours
  <2>1. /\ row.hours = rules[n].hours \/ row.hours = asked.hours
        /\ row.agent = rules[n].agent \/ row.agent = asked.agent
        /\ row.spare = rules[n].spare \/ row.spare = asked.spare
        /\ "hours" \notin fields => row.hours = rules[n].hours
    BY <1>2 DEF Columns
  <2> HIDE DEF row, asked
  <2> QED
    BY <1>1, <2>1 DEF RowsInv, References
<1> HIDE DEF row, asked
<1>5. /\ DOMAIN rules' = DOMAIN rules /\ rules'[n] = row
      /\ \A m \in DOMAIN rules \ {n} : rules'[m] = rules[m]
  BY <1>1
<1>6. RowsInv'
  <2>1. \A m \in DOMAIN rules' :
          /\ RuleRow(rules'[m])
          /\ rules'[m].hours \in DOMAIN hours' \cup {None}
          /\ \A a \in {rules'[m].agent, rules'[m].spare} : a # None => agents'[a] # "deleted"
    BY <1>1, <1>3, <1>4, <1>5 DEF RowsInv
  <2>2. edits' \in 0..MaxEdits
    BY OneMoreEdit DEF UpdateRule
  <2> QED
    BY <1>1, <1>5, <2>1, <2>2 DEF RowsInv
<1>7. DeletionsInv'
  <2>1. slipped \subseteq slipped' /\ slipped' \subseteq Rules
    BY <1>1 DEF Takes, DeletionsInv
  <2>2. ASSUME NEW q \in Requests, request[q].op = "drop_hours", row.hours = request[q].hours
        PROVE  n \in slipped'
    <3>1. row.hours # None /\ Deleting("drop_hours", row.hours, 0)
      BY <2>2, EditsAssumption DEF RequestsInv, Deleting
    <3>2. CASE "hours" \in fields
      BY <1>1, <3>1, <3>2 DEF Takes
    <3>3. CASE "hours" \notin fields
      BY <1>1, <1>4, <2>1, <2>2, <3>3 DEF DeletionsInv
    <3> QED
      BY <3>2, <3>3
  <2> QED
    BY <1>1, <1>5, <2>1, <2>2 DEF DeletionsInv
<1> QED
  BY <1>1, <1>6, <1>7, SameHours, SameRequests

\* A request ends, and the others stay as they are.
LEMMA RequestEnds ==
  ASSUME RequestsInv, NEW q \in Requests, request' = [request EXCEPT ![q] = Nothing],
         DOMAIN saved \subseteq DOMAIN saved'
  PROVE  /\ RequestsInv' /\ request'[q].op = "idle"
         /\ \A p \in Requests \ {q} : request'[p] = request[p]
<1>1. /\ DOMAIN request' = Requests /\ request'[q] = Nothing
      /\ \A p \in Requests \ {q} : request'[p] = request[p]
  BY DEF RequestsInv
<1>2. Nothing.op = "idle"
  BY DEF Nothing
<1> QED
  BY <1>1, <1>2 DEF RequestsInv

\* A request begins.
LEMMA RequestBegins ==
  ASSUME RequestsInv, NEW q \in Requests, NEW r, request' = [request EXCEPT ![q] = r],
         saved' = saved, DOMAIN r = DOMAIN Nothing,
         \/ r.op = "week" /\ r.hours \in DOMAIN saved
         \/ r.op = "drop_rule" /\ r.rule \in Rules /\ r.hours = None
         \/ r.op = "drop_hours" /\ r.hours \in Hours /\ r.rule = 0
         \/ r.op = "drop_agent" /\ r.agent \in Agents
  PROVE  /\ RequestsInv' /\ request'[q] = r
         /\ \A p \in Requests \ {q} : request'[p] = request[p]
<1>1. /\ DOMAIN request' = Requests /\ request'[q] = r
      /\ \A p \in Requests \ {q} : request'[p] = request[p]
  BY DEF RequestsInv
<1> QED
  BY <1>1 DEF RequestsInv

\* The deletion of a rule, in two steps.
LEMMA CheckRuleKeeps ==
  ASSUME EditsInv, NEW q \in Requests, NEW n \in Rules, CheckRule(q, n)
  PROVE  EditsInv'
<1> USE DEF EditsInv
<1> DEFINE r == [Nothing EXCEPT !.op = "drop_rule", !.rule = n]
<1>1. /\ DOMAIN r = DOMAIN Nothing /\ r.op = "drop_rule" /\ r.rule = n /\ r.hours = None
      /\ n \in Rules /\ number.pin # n /\ request' = [request EXCEPT ![q] = r]
      /\ UNCHANGED <<rules, hours, number, agents, saved, torn, slipped, late>>
  BY DEF CheckRule, Nothing
<1> HIDE DEF r
<1>2. RequestsInv' /\ request'[q] = r /\ \A p \in Requests \ {q} : request'[p] = request[p]
  BY <1>1, RequestBegins
<1>3. RowsInv'
  BY <1>1, OneMoreEdit DEF RowsInv, CheckRule
<1>4. HoursInv'
  BY <1>1, <1>2 DEF HoursInv, WeekIsOneSave
<1>5. DeletionsInv'
  BY <1>1, <1>2 DEF DeletionsInv
<1> QED
  BY <1>2, <1>3, <1>4, <1>5

LEMMA DropRuleKeeps ==
  ASSUME EditsInv, NEW q \in Requests, DropRule(q)
  PROVE  EditsInv'
<1> USE DEF EditsInv
<1>0. PICK n : n = request[q].rule
  OBVIOUS
<1>1. /\ n \in Rules /\ rules' = Without(rules, {n}) /\ number' = Unpinned({n})
      /\ request' = [request EXCEPT ![q] = Nothing]
      /\ UNCHANGED <<hours, agents, saved, torn, slipped, late, edits>>
  BY <1>0 DEF DropRule, RequestsInv
<1>2. RequestsInv' /\ request'[q].op = "idle" /\ \A p \in Requests \ {q} : request'[p] = request[p]
  BY <1>1, RequestEnds
<1>3. DOMAIN rules' = DOMAIN rules \ {n} /\ \A m \in DOMAIN rules' : rules'[m] = rules[m]
  BY <1>1 DEF Without
<1>4. /\ DOMAIN number' = {"pin", "agent"} /\ number'.agent = number.agent
      /\ number'.pin = IF number.pin = n THEN 0 ELSE number.pin
  BY <1>1 DEF Unpinned, RowsInv
<1>5. RowsInv'
  <2>1. number'.pin \in DOMAIN rules' \cup {0}
    BY <1>3, <1>4 DEF RowsInv
  <2>2. \A m \in DOMAIN rules' :
          /\ RuleRow(rules'[m])
          /\ rules'[m].hours \in DOMAIN hours' \cup {None}
          /\ \A a \in {rules'[m].agent, rules'[m].spare} : a # None => agents'[a] # "deleted"
    <3> SUFFICES ASSUME NEW m \in DOMAIN rules'
                 PROVE  /\ RuleRow(rules'[m])
                        /\ rules'[m].hours \in DOMAIN hours' \cup {None}
                        /\ \A a \in {rules'[m].agent, rules'[m].spare} :
                             a # None => agents'[a] # "deleted"
      OBVIOUS
    <3>1. m \in DOMAIN rules /\ rules'[m] = rules[m] /\ agents' = agents /\ hours' = hours
      BY <1>1, <1>3
    <3>2. /\ RuleRow(rules[m])
          /\ rules[m].hours \in DOMAIN hours \cup {None}
          /\ \A a \in {rules[m].agent, rules[m].spare} : a # None => agents[a] # "deleted"
      BY <3>1 DEF RowsInv
    <3> QED
      BY <3>1, <3>2
  <2> QED
    BY <1>1, <1>3, <1>4, <2>1, <2>2 DEF RowsInv
<1>6. HoursInv'
  BY <1>1, <1>2 DEF HoursInv, WeekIsOneSave
<1>7. DeletionsInv'
  <2>1. \A p \in Requests : request'[p].op = "drop_rule" => request'[p].rule # 0
    BY <1>2, EditsAssumption DEF RequestsInv
  <2> QED
    BY <1>1, <1>2, <1>3, <1>4, <2>1 DEF DeletionsInv
<1> QED
  BY <1>2, <1>5, <1>6, <1>7

\* A schedule is created.
LEMMA CreateHoursKeeps ==
  ASSUME EditsInv, NEW h \in Hours, NEW zone, NEW holidays, NEW week,
         CreateHours(h, [zone |-> zone, holidays |-> holidays, week |-> week])
  PROVE  EditsInv'
<1> USE DEF EditsInv
<1> DEFINE form == [zone |-> zone, holidays |-> holidays, week |-> week]
<1>1. /\ h \notin DOMAIN saved /\ hours' = With(hours, h, form) /\ saved' = With(saved, h, week)
      /\ UNCHANGED <<rules, number, agents, request, torn, slipped, late>>
  BY DEF CreateHours
<1>2. DOMAIN form = {"zone", "holidays", "week"} /\ form.week = week
  OBVIOUS
<1> HIDE DEF form
<1>3. /\ DOMAIN hours' = DOMAIN hours \cup {h} /\ hours'[h] = form
      /\ DOMAIN saved' = DOMAIN saved \cup {h} /\ saved'[h] = week
      /\ \A k \in DOMAIN saved : k # h /\ saved'[k] = saved[k]
      /\ \A k \in DOMAIN hours : k # h /\ hours'[k] = hours[k]
  BY <1>1 DEF With, HoursInv
<1>4. RowsInv'
  BY <1>1, <1>3, OneMoreEdit DEF RowsInv, CreateHours
<1>5. RequestsInv'
  BY <1>1, <1>3 DEF RequestsInv
<1>6. HoursInv'
  <2>1. WeekIsOneSave'
    BY <1>1, <1>2, <1>3 DEF HoursInv, WeekIsOneSave
  <2>2. ASSUME NEW q \in Requests, request[q].op = "week", request[q].hours \in DOMAIN hours' \ torn
        PROVE  request[q].sees = hours'[request[q].hours].week
    <3>1. request[q].hours \in DOMAIN hours
      BY <1>1, <1>3, <2>2 DEF RequestsInv
    <3> QED
      BY <1>3, <2>2, <3>1 DEF HoursInv
  <2> QED
    BY <1>1, <1>2, <1>3, <2>1, <2>2 DEF HoursInv
<1>7. DeletionsInv'
  BY <1>1 DEF DeletionsInv
<1> QED
  BY <1>4, <1>5, <1>6, <1>7

\* A schedule's timezone and holidays are changed.
LEMMA UpdateHoursKeeps ==
  ASSUME EditsInv, NEW h \in Hours, NEW zone, NEW holidays, UpdateHours(h, zone, holidays)
  PROVE  EditsInv'
<1> USE DEF EditsInv
<1>1. /\ h \in DOMAIN hours /\ DOMAIN hours[h] = {"zone", "holidays", "week"}
      /\ hours' = [hours EXCEPT ![h].zone = zone, ![h].holidays = holidays]
      /\ UNCHANGED <<rules, number, agents, request, saved, torn, slipped, late>>
  BY DEF UpdateHours, HoursInv
<1>2. /\ DOMAIN hours' = DOMAIN hours /\ DOMAIN hours'[h] = DOMAIN hours[h]
      /\ hours'[h].week = hours[h].week
      /\ \A k \in DOMAIN hours \ {h} : hours'[k] = hours[k]
  BY <1>1
<1>3. RowsInv'
  BY <1>1, <1>2, OneMoreEdit DEF RowsInv, UpdateHours
<1>4. HoursInv'
  BY <1>1, <1>2 DEF HoursInv, WeekIsOneSave
<1>5. DeletionsInv' /\ RequestsInv'
  BY <1>1 DEF DeletionsInv, RequestsInv
<1> QED
  BY <1>3, <1>4, <1>5

\* The replacement of a week, in two steps.
LEMMA ReplaceWeekKeeps ==
  ASSUME EditsInv, NEW q \in Requests, NEW h \in Hours, NEW zone, NEW week,
         ReplaceWeek(q, h, zone, week)
  PROVE  EditsInv'
<1> USE DEF EditsInv
<1> DEFINE r == [Nothing EXCEPT !.op = "week", !.hours = h, !.zone = zone, !.week = week,
                                !.sees = hours[h].week, !.locks = zone # hours[h].zone]
<1>1. /\ DOMAIN r = DOMAIN Nothing /\ r.op = "week" /\ r.hours = h /\ r.sees = hours[h].week
      /\ h \in DOMAIN hours /\ request[q].op = "idle" /\ request' = [request EXCEPT ![q] = r]
      /\ torn' = IF Replacing(h) THEN torn \cup {h} ELSE torn
      /\ UNCHANGED <<rules, hours, number, agents, saved, slipped, late>>
  BY DEF ReplaceWeek, Nothing
<1> HIDE DEF r
<1>2. RequestsInv' /\ request'[q] = r /\ \A p \in Requests \ {q} : request'[p] = request[p]
  BY <1>1, RequestBegins DEF HoursInv
<1>3. RowsInv'
  BY <1>1, OneMoreEdit DEF RowsInv, ReplaceWeek
<1>4. HoursInv'
  <2>1. torn \subseteq torn' /\ torn' \subseteq Hours
    BY <1>1 DEF HoursInv
  <2>2. WeekIsOneSave'
    BY <1>1, <2>1 DEF HoursInv, WeekIsOneSave
  <2>3. ASSUME NEW p \in Requests, request'[p].op = "week", request'[p].hours \in DOMAIN hours \ torn'
        PROVE  request'[p].sees = hours[request'[p].hours].week
    BY <1>1, <1>2, <2>1, <2>3 DEF HoursInv
  <2>4. ASSUME NEW p \in Requests \ {q}, request'[p].op = "week", request'[p].hours = h
        PROVE  h \in torn'
    BY <1>1, <1>2, <2>4 DEF Replacing
  <2>5. ASSUME NEW o \in Requests, NEW p \in Requests, o # p, request'[o].op = "week",
               request'[p].op = "week", request'[o].hours = request'[p].hours
        PROVE  request'[o].hours \in torn'
    <3>1. CASE o = q \/ p = q
      BY <1>1, <1>2, <2>4, <2>5, <3>1
    <3>2. CASE o # q /\ p # q
      BY <1>2, <2>1, <2>5, <3>2 DEF HoursInv
    <3> QED
      BY <3>1, <3>2
  <2> QED
    BY <1>1, <2>1, <2>2, <2>3, <2>5 DEF HoursInv
<1>5. DeletionsInv'
  BY <1>1, <1>2 DEF DeletionsInv
<1> QED
  BY <1>2, <1>3, <1>4, <1>5

LEMMA CommitWeekKeeps ==
  ASSUME EditsInv, NEW q \in Requests, CommitWeek(q)
  PROVE  /\ EditsInv' /\ DOMAIN hours' = DOMAIN hours /\ DOMAIN saved' = DOMAIN saved
         /\ UNCHANGED <<rules, number>>
<1> USE DEF EditsInv
<1> DEFINE r == request[q]
           h == request[q].hours
<1>1. /\ r.op = "week" /\ request' = [request EXCEPT ![q] = Nothing] /\ h \in DOMAIN saved
      /\ UNCHANGED <<rules, number, agents, torn, slipped, late, edits>>
  BY DEF CommitWeek, RequestsInv
<1>2. \/ /\ h \in DOMAIN hours
         /\ hours' = [hours EXCEPT ![h].week = Replaced(@, r),
                                   ![h].zone = IF r.locks THEN r.zone ELSE @]
         /\ saved' = [saved EXCEPT ![h] = r.week]
      \/ h \notin DOMAIN hours /\ UNCHANGED <<hours, saved>>
  BY DEF CommitWeek
<1>3. /\ DOMAIN hours' = DOMAIN hours /\ DOMAIN saved' = DOMAIN saved
      /\ \A k \in DOMAIN hours : DOMAIN hours'[k] = {"zone", "holidays", "week"}
      /\ \A k \in DOMAIN hours \ {h} : hours'[k] = hours[k] /\ saved'[k] = saved[k]
      /\ h \in DOMAIN hours => hours'[h].week = Replaced(hours[h].week, r) /\ saved'[h] = r.week
  <2>1. CASE h \notin DOMAIN hours
    BY <1>2, <2>1 DEF HoursInv
  <2>2. CASE h \in DOMAIN hours
    <3>1. DOMAIN hours[h] = {"zone", "holidays", "week"}
      BY <2>2 DEF HoursInv
    <3>2. /\ hours' = [hours EXCEPT ![h].week = Replaced(@, r),
                                    ![h].zone = IF r.locks THEN r.zone ELSE @]
          /\ saved' = [saved EXCEPT ![h] = r.week]
      BY <1>2, <2>2
    <3>3. /\ DOMAIN hours' = DOMAIN hours /\ DOMAIN saved' = DOMAIN saved
          /\ \A k \in DOMAIN hours \ {h} : hours'[k] = hours[k]
          /\ DOMAIN hours'[h] = {"zone", "holidays", "week"}
          /\ hours'[h].week = Replaced(hours[h].week, r)
      BY <2>2, <3>1, <3>2
    <3>4. saved'[h] = r.week /\ \A k \in DOMAIN hours \ {h} : saved'[k] = saved[k]
      BY <1>1, <3>2 DEF HoursInv
    <3> QED
      BY <3>3, <3>4 DEF HoursInv
  <2> QED
    BY <2>1, <2>2
<1>4. RequestsInv' /\ request'[q].op = "idle" /\ \A p \in Requests \ {q} : request'[p] = request[p]
  BY <1>1, <1>3, RequestEnds
<1>5. RowsInv' /\ DeletionsInv'
  BY <1>1, <1>3, <1>4 DEF RowsInv, DeletionsInv
<1>6. HoursInv'
  <2>1. WeekIsOneSave'
    <3> SUFFICES ASSUME NEW k \in DOMAIN hours \ torn PROVE hours'[k].week = saved'[k]
      BY <1>1, <1>3 DEF WeekIsOneSave
    <3>1. CASE k = h
      <4>1. hours[h].week = r.sees
        BY <1>1, <3>1 DEF HoursInv
      <4> QED
        BY <1>3, <3>1, <4>1 DEF Replaced
    <3>2. CASE k # h
      BY <1>3, <3>2 DEF HoursInv, WeekIsOneSave
    <3> QED
      BY <3>1, <3>2
  <2>2. ASSUME NEW p \in Requests, request'[p].op = "week", request'[p].hours \in DOMAIN hours \ torn
        PROVE  request'[p].sees = hours'[request'[p].hours].week
    <3>1. p # q /\ request'[p] = request[p]
      BY <1>4, <2>2
    <3>2. request[p].hours # h
      BY <1>1, <2>2, <3>1 DEF HoursInv
    <3> QED
      BY <1>3, <2>2, <3>1, <3>2 DEF HoursInv
  <2>3. \A o, p \in Requests :
          o # p /\ request'[o].op = "week" /\ request'[p].op = "week"
          /\ request'[o].hours = request'[p].hours => request'[o].hours \in torn
    BY <1>4 DEF HoursInv
  <2> QED
    BY <1>1, <1>3, <2>1, <2>2, <2>3 DEF HoursInv
<1> QED
  BY <1>1, <1>3, <1>4, <1>5, <1>6

\* The deletion of a schedule, in two steps.
LEMMA CheckHoursKeeps ==
  ASSUME EditsInv, NEW q \in Requests, NEW h \in Hours, CheckHours(q, h)
  PROVE  EditsInv'
<1> USE DEF EditsInv
<1> DEFINE r == [Nothing EXCEPT !.op = "drop_hours", !.hours = h]
<1>1. /\ DOMAIN r = DOMAIN Nothing /\ r.op = "drop_hours" /\ r.rule = 0 /\ r.hours = h
      /\ \A n \in DOMAIN rules : rules[n].hours # h
      /\ request' = [request EXCEPT ![q] = r]
      /\ UNCHANGED <<rules, hours, number, agents, saved, torn, slipped, late>>
  BY DEF CheckHours, Nothing
<1> HIDE DEF r
<1>2. RequestsInv' /\ request'[q] = r /\ \A p \in Requests \ {q} : request'[p] = request[p]
  BY <1>1, RequestBegins
<1>3. RowsInv'
  BY <1>1, OneMoreEdit DEF RowsInv, CheckHours
<1>4. HoursInv'
  BY <1>1, <1>2 DEF HoursInv, WeekIsOneSave
<1>5. DeletionsInv'
  BY <1>1, <1>2 DEF DeletionsInv
<1> QED
  BY <1>2, <1>3, <1>4, <1>5

\* The rules that come to use the schedule lose it.
LEMMA DropHoursKeeps ==
  ASSUME EditsInv, NEW q \in Requests, DropHours(q)
  PROVE  /\ EditsInv' /\ DOMAIN hours' \subseteq DOMAIN hours /\ saved' = saved
         /\ number' = number
         /\ \A n \in DOMAIN rules \cap DOMAIN rules' :
              rules'[n].hours = rules[n].hours \/ n \in slipped
<1> USE DEF EditsInv
<1>0. PICK h : h = request[q].hours
  OBVIOUS
<1>1. /\ h \in Hours /\ request[q].op = "drop_hours"
      /\ hours' = Without(hours, {h})
      /\ rules' = [n \in DOMAIN rules |-> [rules[n] EXCEPT !.hours = IF @ = h THEN None ELSE @]]
      /\ request' = [request EXCEPT ![q] = Nothing]
      /\ UNCHANGED <<number, agents, saved, torn, slipped, late, edits>>
  BY <1>0 DEF DropHours, RequestsInv
<1>2. RequestsInv' /\ request'[q].op = "idle" /\ \A p \in Requests \ {q} : request'[p] = request[p]
  BY <1>1, RequestEnds
<1>3. DOMAIN hours' = DOMAIN hours \ {h} /\ \A k \in DOMAIN hours' : hours'[k] = hours[k]
  BY <1>1 DEF Without
<1>4. /\ DOMAIN rules' = DOMAIN rules
      /\ \A n \in DOMAIN rules :
           /\ DOMAIN rules'[n] = DOMAIN rules[n]
           /\ rules'[n].hours = IF rules[n].hours = h THEN None ELSE rules[n].hours
           /\ \A f \in Columns \ {"hours"} : rules'[n][f] = rules[n][f]
  <2>1. \A n \in DOMAIN rules : DOMAIN rules[n] = Columns
    BY DEF RowsInv, RuleRow
  <2> QED
    BY <1>1, <2>1 DEF Columns
<1>5. RowsInv'
  <2>1. ASSUME NEW n \in DOMAIN rules PROVE RuleRow(rules'[n])
    BY <1>4 DEF RowsInv, RuleRow, Columns
  <2>2. ASSUME NEW n \in DOMAIN rules
        PROVE  rules'[n].agent = rules[n].agent /\ rules'[n].spare = rules[n].spare
    BY <1>4 DEF Columns
  <2>3. \A n \in DOMAIN rules : rules'[n].hours \in DOMAIN hours' \cup {None}
    <3>1. \A n \in DOMAIN rules : rules[n].hours \in DOMAIN hours \cup {None}
      BY DEF RowsInv
    <3> QED
      BY <1>3, <1>4, <3>1
  <2>4. \A n \in DOMAIN rules :
          \A a \in {rules'[n].agent, rules'[n].spare} : a # None => agents'[a] # "deleted"
    BY <1>1, <2>2 DEF RowsInv
  <2> QED
    BY <1>1, <1>4, <2>1, <2>3, <2>4 DEF RowsInv
<1>6. HoursInv'
  <2>1. \A k \in DOMAIN hours' : k \in DOMAIN hours /\ hours'[k] = hours[k]
    BY <1>3
  <2>2. \A p \in Requests : request'[p].op = "week" => request'[p] = request[p]
    BY <1>2
  <2>3. \A p \in Requests : request'[p].op = "week" /\ request'[p].hours \in DOMAIN hours' \ torn
          => request'[p].sees = hours'[request'[p].hours].week
    BY <2>1, <2>2 DEF HoursInv
  <2>4. WeekIsOneSave'
    BY <1>1, <2>1 DEF HoursInv, WeekIsOneSave
  <2>5. \A o, p \in Requests :
          o # p /\ request'[o].op = "week" /\ request'[p].op = "week"
          /\ request'[o].hours = request'[p].hours => request'[o].hours \in torn
    BY <2>2 DEF HoursInv
  <2>6. DOMAIN hours' \subseteq DOMAIN saved /\ DOMAIN saved \subseteq Hours /\ torn \subseteq Hours
    BY <2>1 DEF HoursInv
  <2>7. \A k \in DOMAIN hours' : DOMAIN hours'[k] = {"zone", "holidays", "week"}
    BY <2>1 DEF HoursInv
  <2> QED
    BY <1>1, <2>3, <2>4, <2>5, <2>6, <2>7 DEF HoursInv
<1>7. \A p \in Requests : request[p].op = "drop_hours" => request[p].hours # None
  BY EditsAssumption DEF RequestsInv
<1>8. DeletionsInv'
  BY <1>1, <1>2, <1>4, <1>7 DEF DeletionsInv
<1>9. \A n \in DOMAIN rules : rules'[n].hours = rules[n].hours \/ n \in slipped
  BY <1>0, <1>1, <1>4 DEF DeletionsInv
<1> QED
  BY <1>1, <1>2, <1>3, <1>5, <1>6, <1>8, <1>9

\* The number is given to a rule or an agent.
LEMMA AssignKeeps ==
  ASSUME EditsInv, NEW pin \in Rules \cup {0}, NEW a \in Agents \cup {None}, Assign(pin, a)
  PROVE  EditsInv'
<1> USE DEF EditsInv
<1>1. /\ pin \in DOMAIN rules \cup {0} /\ number' = [pin |-> pin, agent |-> a]
      /\ slipped' = IF pin # number.pin /\ Deleting("drop_rule", None, pin)
                    THEN slipped \cup {pin} ELSE slipped
      /\ late' = IF a # number.agent /\ \E q \in Requests : Leaving(q, a)
                 THEN late \cup {a} ELSE late
      /\ a # None => agents[a] # "deleted"
      /\ UNCHANGED <<rules, hours, agents, request, saved, torn>>
  BY DEF Assign
<1>2. RowsInv'
  BY <1>1, OneMoreEdit DEF RowsInv, Assign
<1>3. \A q \in Requests : request[q].op = "drop_rule" => request[q].rule \in Rules /\ request[q].rule # 0
  BY EditsAssumption DEF RequestsInv
<1>4. Deleting("drop_rule", None, pin) => pin \in Rules
  BY <1>3 DEF Deleting
<1>5. DeletionsInv'
  <2>1. ASSUME NEW q \in Requests, request[q].op = "drop_rule", pin = request[q].rule
        PROVE  pin \in slipped'
    <3>1. Deleting("drop_rule", None, pin)
      BY <2>1 DEF Deleting, RequestsInv
    <3> QED
      BY <1>1, <2>1, <3>1 DEF DeletionsInv
  <2>2. slipped \subseteq slipped' /\ slipped' \subseteq Rules
    BY <1>1, <1>4 DEF DeletionsInv
  <2>3. number'.pin = pin /\ number'.agent = a
    BY <1>1
  <2>4. ASSUME NEW q \in Requests, request[q].op = "drop_agent", a = request[q].agent
        PROVE  a \in late'
    BY <1>1, <2>4 DEF DeletionsInv, Leaving
  <2>5. late' \subseteq Agents
    BY <1>1 DEF DeletionsInv, Leaving, RequestsInv
  <2> QED
    BY <1>1, <2>1, <2>2, <2>3, <2>4, <2>5 DEF DeletionsInv
<1> QED
  BY <1>1, <1>2, <1>5, SameHours, SameRequests

\* The agents.
LEMMA SetAgentKeeps ==
  ASSUME EditsInv, NEW a \in Agents, NEW status \in {"published", "unpublished", "disabled"},
         SetAgent(a, status)
  PROVE  EditsInv'
<1> USE DEF EditsInv
<1>1. /\ agents' = [agents EXCEPT ![a] = status]
      /\ UNCHANGED <<hours, request, saved, torn, rules, number, slipped, late>>
  BY DEF SetAgent
<1>2. \A b \in Agents : agents[b] # "deleted" => agents'[b] # "deleted"
  BY <1>1 DEF RowsInv
<1>3. RowsInv'
  <2>1. \A n \in DOMAIN rules : {rules[n].agent, rules[n].spare} \subseteq Agents \cup {None}
    BY DEF RowsInv, RuleRow
  <2>2. agents' \in [Agents -> {"published", "unpublished", "disabled", "deleted"}]
    BY <1>1 DEF RowsInv
  <2> QED
    BY <1>1, <1>2, <2>1, <2>2, OneMoreEdit DEF RowsInv, SetAgent
<1>4. DeletionsInv'
  BY <1>1 DEF DeletionsInv
<1> QED
  BY <1>1, <1>3, <1>4, SameHours, SameRequests

\* The deletion of an agent, in two steps.
LEMMA CheckAgentKeeps ==
  ASSUME EditsInv, NEW q \in Requests, NEW a \in Agents, CheckAgent(q, a)
  PROVE  EditsInv'
<1> USE DEF EditsInv
<1> DEFINE r == [Nothing EXCEPT !.op = "drop_agent", !.agent = a]
<1>1. /\ DOMAIN r = DOMAIN Nothing /\ r.op = "drop_agent" /\ r.agent = a
      /\ number.agent # a /\ request' = [request EXCEPT ![q] = r]
      /\ UNCHANGED <<rules, hours, number, agents, saved, torn, slipped, late>>
  BY DEF CheckAgent, Nothing
<1> HIDE DEF r
<1>2. RequestsInv' /\ request'[q] = r /\ \A p \in Requests \ {q} : request'[p] = request[p]
  BY <1>1, RequestBegins
<1>3. RowsInv'
  BY <1>1, OneMoreEdit DEF RowsInv, CheckAgent
<1>4. HoursInv'
  BY <1>1, <1>2 DEF HoursInv, WeekIsOneSave
<1>5. DeletionsInv'
  BY <1>1, <1>2 DEF DeletionsInv
<1> QED
  BY <1>2, <1>3, <1>4, <1>5

LEMMA DropAgentKeeps ==
  ASSUME EditsInv, NEW q \in Requests, DropAgent(q)
  PROVE  /\ EditsInv' /\ UNCHANGED <<hours, saved>>
         /\ \A n \in DOMAIN rules \cap DOMAIN rules' : rules'[n].hours = rules[n].hours
         /\ \/ number'.pin = number.pin
            \/ \E a \in Agents : rules[number.pin].agent = a /\ agents'[a] = "deleted"
         /\ number'.agent = number.agent \/ number.agent \in late
<1> USE DEF EditsInv
<1>0. PICK a \in Agents : a = request[q].agent
  BY DEF DropAgent, RequestsInv
<1> DEFINE gone == {n \in DOMAIN rules : rules[n].agent = a}
<1>1. /\ rules' = [n \in DOMAIN rules \ gone |->
                     [rules[n] EXCEPT !.spare = IF @ = a THEN None ELSE @]]
      /\ number' = [Unpinned(gone) EXCEPT !.agent = IF @ = a THEN None ELSE @]
      /\ agents' = [agents EXCEPT ![a] = "deleted"]
      /\ request[q].op = "drop_agent" /\ request' = [request EXCEPT ![q] = Nothing]
      /\ UNCHANGED <<hours, saved, torn, slipped, late, edits>>
  BY <1>0 DEF DropAgent
<1>2. /\ DOMAIN rules' = DOMAIN rules \ gone
      /\ \A n \in DOMAIN rules' :
           /\ n \in DOMAIN rules /\ rules[n].agent # a
           /\ DOMAIN rules'[n] = DOMAIN rules[n]
           /\ rules'[n].spare = IF rules[n].spare = a THEN None ELSE rules[n].spare
           /\ \A f \in Columns \ {"spare"} : rules'[n][f] = rules[n][f]
  <2>1. \A n \in DOMAIN rules : DOMAIN rules[n] = Columns
    BY DEF RowsInv, RuleRow
  <2> QED
    BY <1>1, <2>1 DEF Columns
<1>3. /\ DOMAIN number' = {"pin", "agent"}
      /\ number'.agent = IF number.agent = a THEN None ELSE number.agent
      /\ number'.pin = IF number.pin \in gone THEN 0 ELSE number.pin
  BY <1>1 DEF Unpinned, RowsInv
<1>4. ASSUME NEW n \in DOMAIN rules'
      PROVE  /\ RuleRow(rules'[n])
             /\ rules'[n].hours = rules[n].hours
             /\ \A b \in {rules'[n].agent, rules'[n].spare} : b # None => agents'[b] # "deleted"
  <2>1. /\ RuleRow(rules[n]) /\ n \in DOMAIN rules
        /\ \A b \in {rules[n].agent, rules[n].spare} : b # None => agents[b] # "deleted"
    BY <1>2 DEF RowsInv
  <2>2. /\ rules'[n].hours = rules[n].hours /\ rules'[n].agent = rules[n].agent
        /\ rules'[n].agent # a /\ rules'[n].spare # a
        /\ rules'[n].spare = rules[n].spare \/ rules'[n].spare = None
        /\ rules'[n].priority = rules[n].priority /\ rules'[n].conditions = rules[n].conditions
    BY <1>2, EditsAssumption DEF Columns
  <2>3. RuleRow(rules'[n])
    BY <1>2, <2>1, <2>2 DEF RuleRow
  <2>4. ASSUME NEW b \in {rules'[n].agent, rules'[n].spare}, b # None
        PROVE  agents'[b] # "deleted"
    BY <1>1, <2>1, <2>2, <2>3, <2>4 DEF RuleRow, RowsInv
  <2> QED
    BY <2>2, <2>3, <2>4
<1>5. RowsInv'
  <2>1. agents' \in [Agents -> {"published", "unpublished", "disabled", "deleted"}]
    BY <1>1 DEF RowsInv
  <2> HIDE DEF gone
  <2>2. number'.agent # None => agents'[number'.agent] # "deleted"
    BY <1>1, <1>3 DEF RowsInv
  <2>3. number'.pin \in DOMAIN rules' \cup {0}
    BY <1>2, <1>3 DEF RowsInv
  <2> QED
    BY <1>1, <1>2, <1>3, <1>4, <2>1, <2>2, <2>3 DEF RowsInv
<1>6. RequestsInv' /\ request'[q].op = "idle" /\ \A p \in Requests \ {q} : request'[p] = request[p]
  BY <1>1, RequestEnds
<1>7. HoursInv'
  BY <1>1, <1>6 DEF HoursInv, WeekIsOneSave
<1>8. DeletionsInv'
  <2>1. \A p \in Requests :
          /\ request[p].op = "drop_rule" => request[p].rule # 0
          /\ request[p].op = "drop_agent" => request[p].agent # None
    BY EditsAssumption DEF RequestsInv
  <2>2. \A n \in DOMAIN rules' : n \in DOMAIN rules /\ rules'[n].hours = rules[n].hours
    BY <1>2, <1>4
  <2>3. /\ number'.pin = 0 \/ number'.pin = number.pin
        /\ number'.agent = None \/ number'.agent = number.agent
    BY <1>3
  <2> HIDE DEF gone
  <2> QED
    BY <1>1, <1>6, <2>1, <2>2, <2>3 DEF DeletionsInv
<1>9. \/ number'.pin = number.pin
      \/ \E b \in Agents : rules[number.pin].agent = b /\ agents'[b] = "deleted"
  <2>1. agents'[a] = "deleted"
    BY <1>1 DEF RowsInv
  <2> QED
    BY <1>3, <2>1
<1>10. number'.agent = number.agent \/ number.agent \in late
  BY <1>0, <1>1, <1>3 DEF DeletionsInv
<1> QED
  BY <1>1, <1>2, <1>4, <1>5, <1>6, <1>7, <1>8, <1>9, <1>10

-----------------------------------------------------------------------------
(* The calls *)

\* A call takes a step.
LEMMA CallAdvances ==
  ASSUME EditsInv, CallsInv, Frozen, NEW c \in Calls, NEW row, Advance(c, row), CallInv(row)
  PROVE  EditsInv' /\ CallsInv'
<1>1. UNCHANGED <<rules, hours, number, agents, request, saved, torn, slipped, late, edits>>
  BY DEF Frozen
<1>2. EditsInv'
  <2>1. RowsInv' /\ DeletionsInv'
    BY <1>1 DEF EditsInv, RowsInv, DeletionsInv
  <2> QED
    BY <1>1, <2>1, SameHours, SameRequests DEF EditsInv
<1>3. DOMAIN call' = Calls /\ \A d \in Calls : call'[d] = IF d = c THEN row ELSE call[d]
  BY DEF Advance, CallsInv
<1>4. ASSUME NEW d \in Calls PROVE CallInv(call[d])'
  <2>1. PICK k : k = call'[d]
    OBVIOUS
  <2>2. CallInv(k)
    BY <1>3, <2>1 DEF CallsInv
  <2> QED
    BY <1>1, <2>1, <2>2 DEF CallInv
<1> QED
  BY <1>2, <1>3, <1>4 DEF CallsInv

\* An edit takes no schedule away from a call that would find it, and none comes back.
LEMMA EditsKeepCalls ==
  ASSUME CallsInv, HoursInv, HoursInv', call' = call, DOMAIN saved \subseteq DOMAIN saved',
         \A h \in DOMAIN hours' : h \in DOMAIN hours \/ h \notin DOMAIN saved
  PROVE  CallsInv'
<1> SUFFICES ASSUME NEW c \in Calls PROVE CallInv(call[c])'
  BY DEF CallsInv
<1>1. PICK k : k = call[c]
  OBVIOUS
<1>2. CallInv(k)
  BY <1>1 DEF CallsInv
<1>3. None \notin DOMAIN hours'
  BY EditsAssumption DEF HoursInv
<1>4. \A n \in DOMAIN k.rules :
        k.rules[n].hours \in DOMAIN hours' => k.rules[n].hours \in DOMAIN hours
  BY <1>2, <1>3 DEF CallInv
<1>5. CallInv(k)'
  BY <1>2, <1>4 DEF CallInv
<1> QED
  BY <1>1, <1>5

LEMMA ArriveKeeps ==
  ASSUME EditsInv, CallsInv, NEW c \in Calls, NEW facts, Arrive(c, facts)
  PROVE  EditsInv' /\ CallsInv'
<1>1. PICK row : row = [Arriving EXCEPT
        !.phase = "number", !.facts = facts, !.pin = number.pin, !.inbound = number.agent,
        !.ready = number.agent # None /\ agents[number.agent] \in {"published", "disabled"}]
  OBVIOUS
<1>2. /\ DOMAIN row = DOMAIN Arriving /\ row.phase = "number" /\ DOMAIN row.rules = {}
      /\ row.decision = Nobody
  BY <1>1 DEF Arriving
<1>3. CallInv(row)
  BY <1>2 DEF CallInv, Phases
<1> QED
  BY <1>1, <1>3, CallAdvances DEF Arrive

LEMMA ReadRulesKeeps ==
  ASSUME EditsInv, CallsInv, NEW c \in Calls, ReadRules(c)
  PROVE  EditsInv' /\ CallsInv'
<1>1. PICK k : k = call[c]
  OBVIOUS
<1>2. PICK ns : ns = Candidates(k.pin)
  OBVIOUS
<1>3. PICK row : row = [k EXCEPT !.rules = [n \in ns |-> rules[n]],
                                 !.phase = IF ns = {} THEN "inbound" ELSE "rules"]
  OBVIOUS
<1>4. CallInv(k) /\ k.phase = "number" /\ Advance(c, row) /\ Frozen
  BY <1>1, <1>2, <1>3 DEF ReadRules, CallsInv
<1>5. ns \subseteq DOMAIN rules
  BY <1>2 DEF Candidates, Active
<1>6. /\ DOMAIN row = DOMAIN Arriving /\ row.phase = (IF ns = {} THEN "inbound" ELSE "rules")
      /\ row.rules = [n \in ns |-> rules[n]] /\ row.decision = k.decision
  BY <1>3, <1>4 DEF CallInv, Arriving
<1>7. row.decision = Nobody
  BY <1>4, <1>6 DEF CallInv
<1>8. \A n \in ns : RuleRow(rules[n]) /\ rules[n].hours \in DOMAIN saved \cup {None} /\ n \in Rules
  BY <1>5 DEF EditsInv, RowsInv, HoursInv
<1>9. CallInv(row)
  BY <1>6, <1>7, <1>8 DEF CallInv, Phases
<1> QED
  BY <1>4, <1>9, CallAdvances

LEMMA ReadHoursKeeps ==
  ASSUME EditsInv, CallsInv, NEW c \in Calls, ReadHours(c)
  PROVE  EditsInv' /\ CallsInv'
<1>1. PICK k : k = call[c]
  OBVIOUS
<1>2. PICK wanted : wanted = {k.rules[n].hours : n \in DOMAIN k.rules}
  OBVIOUS
<1>3. PICK row : row = [k EXCEPT !.found = [h \in DOMAIN hours \cap wanted |-> hours[h]],
                                 !.phase = "hours"]
  OBVIOUS
<1>4. CallInv(k) /\ k.phase = "rules" /\ Advance(c, row) /\ Frozen
  BY <1>1, <1>2, <1>3 DEF ReadHours, CallsInv
<1>5. /\ DOMAIN row = DOMAIN Arriving /\ row.phase = "hours" /\ row.rules = k.rules
      /\ DOMAIN row.found = DOMAIN hours \cap wanted /\ row.decision = k.decision
  BY <1>3, <1>4 DEF CallInv, Arriving
<1>6. row.decision = Nobody
  BY <1>4, <1>5 DEF CallInv
<1>7. CallInv(row)
  BY <1>2, <1>4, <1>5, <1>6 DEF CallInv, Phases
<1> QED
  BY <1>4, <1>7, CallAdvances

LEMMA RouteKeeps ==
  ASSUME EditsInv, CallsInv, NEW c \in Calls, NEW at, Route(c, at)
  PROVE  EditsInv' /\ CallsInv'
<1>1. PICK k : k = call[c]
  OBVIOUS
<1>2. PICK d : d = Decision(k.rules, k.found, k.facts, at)
  OBVIOUS
<1>3. PICK phase : phase = CASE d.kind = "none" -> "inbound"
                             [] d.kind = "closed" -> "refused"
                             [] OTHER -> "agent"
  OBVIOUS
<1>4. PICK row : row = [k EXCEPT !.decision = d, !.at = at, !.phase = phase]
  OBVIOUS
<1>5. CallInv(k) /\ k.phase = "hours" /\ Advance(c, row) /\ Frozen
  BY <1>1, <1>2, <1>3, <1>4 DEF Route, CallsInv
<1>6. phase \in {"inbound", "refused", "agent"}
  BY <1>3
<1>7. /\ DOMAIN row = DOMAIN Arriving /\ row.phase = phase /\ row.rules = k.rules
      /\ row.found = k.found /\ row.facts = k.facts /\ row.at = at /\ row.decision = d
  BY <1>4, <1>5 DEF CallInv, Arriving
<1>8. CallInv(row)
  <2>1. row.decision = Decision(row.rules, row.found, row.facts, row.at)
    BY <1>2, <1>7
  <2> QED
    BY <1>5, <1>6, <1>7, <2>1 DEF CallInv, Phases
<1> QED
  BY <1>5, <1>8, CallAdvances

\* The last steps of a call leave what it read and decided.
LEMMA LaterPhaseKeeps ==
  ASSUME EditsInv, CallsInv, NEW c \in Calls, NEW row, Advance(c, row), Frozen,
         call[c].phase \in {"inbound", "agent"}, row.phase \in {"answered", "refused"},
         DOMAIN row = DOMAIN call[c],
         row.rules = call[c].rules, row.found = call[c].found, row.facts = call[c].facts,
         row.at = call[c].at, row.decision = call[c].decision
  PROVE  EditsInv' /\ CallsInv'
<1>1. CallInv(row)
  BY DEF CallsInv, CallInv, Phases
<1> QED
  BY <1>1, CallAdvances

LEMMA InboundKeeps ==
  ASSUME EditsInv, CallsInv, NEW c \in Calls, Inbound(c)
  PROVE  EditsInv' /\ CallsInv'
<1>1. PICK row : row = IF call[c].ready
                       THEN [call[c] EXCEPT !.phase = "answered", !.agent = call[c].inbound]
                       ELSE [call[c] EXCEPT !.phase = "refused"]
  OBVIOUS
<1>2. DOMAIN call[c] = DOMAIN Arriving
  BY DEF CallsInv, CallInv
<1>3. /\ DOMAIN row = DOMAIN call[c] /\ row.phase \in {"answered", "refused"}
      /\ row.rules = call[c].rules /\ row.found = call[c].found /\ row.facts = call[c].facts
      /\ row.at = call[c].at /\ row.decision = call[c].decision
  BY <1>1, <1>2 DEF Arriving
<1>4. Advance(c, row) /\ Frozen /\ call[c].phase = "inbound"
  BY <1>1 DEF Inbound
<1> QED
  BY <1>3, <1>4, LaterPhaseKeeps

LEMMA ResolveKeeps ==
  ASSUME EditsInv, CallsInv, NEW c \in Calls, Resolve(c)
  PROVE  EditsInv' /\ CallsInv'
<1>1. PICK a : a = Resolved(call[c].decision)
  OBVIOUS
<1>2. PICK row : row = [call[c] EXCEPT !.agent = a,
                                       !.phase = IF a = None THEN "refused" ELSE "answered"]
  OBVIOUS
<1>3. DOMAIN call[c] = DOMAIN Arriving
  BY DEF CallsInv, CallInv
<1>4. /\ DOMAIN row = DOMAIN call[c] /\ row.phase \in {"answered", "refused"}
      /\ row.rules = call[c].rules /\ row.found = call[c].found /\ row.facts = call[c].facts
      /\ row.at = call[c].at /\ row.decision = call[c].decision
  BY <1>2, <1>3 DEF Arriving
<1>5. Advance(c, row) /\ Frozen /\ call[c].phase = "agent"
  BY <1>1, <1>2 DEF Resolve
<1> QED
  BY <1>4, <1>5, LaterPhaseKeeps

-----------------------------------------------------------------------------
(* The specification *)

LEMMA InitInv ==
  ASSUME Init
  PROVE  IInv
<1>1. PICK tenant \in Standing :
        rules = tenant.rules /\ hours = tenant.hours /\ number = tenant.number
  BY DEF Init
<1>2. Consistent(tenant)
  BY EditsAssumption
<1>3. /\ agents \in [Agents -> {"published", "unpublished"}]
      /\ request = [q \in Requests |-> Nothing]
      /\ saved = [h \in DOMAIN hours |-> hours[h].week] /\ torn = {} /\ slipped = {} /\ late = {}
      /\ call = [c \in Calls |-> Arriving]
      /\ edits = 0
  BY DEF Init
<1>4. RowsInv
  <2>1. \A a \in Agents : agents[a] # "deleted"
    BY <1>3
  <2>2. \A n \in DOMAIN rules : {rules[n].agent, rules[n].spare} \subseteq Agents \cup {None}
    BY <1>1, <1>2 DEF Consistent, RuleRow
  <2>3. edits \in 0..MaxEdits
    BY <1>3, EditsAssumption
  <2>4. agents \in [Agents -> {"published", "unpublished", "disabled", "deleted"}]
    BY <1>3
  <2> QED
    BY <1>1, <1>2, <2>1, <2>2, <2>3, <2>4 DEF RowsInv, Consistent
<1>5. Nothing.op = "idle"
  BY DEF Nothing
<1>6. RequestsInv
  BY <1>3, <1>5 DEF RequestsInv
<1>7. HoursInv
  <2>1. DOMAIN hours \subseteq Hours /\ \A h \in DOMAIN hours : DOMAIN hours[h] = {"zone", "holidays", "week"}
    BY <1>1, <1>2 DEF Consistent
  <2> QED
    BY <1>3, <1>5, <2>1 DEF HoursInv, WeekIsOneSave
<1>8. DeletionsInv
  BY <1>3, <1>5 DEF DeletionsInv
<1>9. CallsInv
  <2>1. Arriving.phase = "expected" /\ DOMAIN Arriving.rules = {} /\ Arriving.decision = Nobody
    BY DEF Arriving
  <2>2. CallInv(Arriving)
    BY <2>1 DEF CallInv, Phases
  <2> QED
    BY <1>3, <2>2 DEF CallsInv
<1> QED
  BY <1>4, <1>6, <1>7, <1>8, <1>9 DEF IInv

\* An edit leaves the calls alone, takes away no identifier, and brings back no schedule.
LEMMA EditsOnly ==
  ASSUME HoursInv, Edits
  PROVE  /\ call' = call /\ DOMAIN saved \subseteq DOMAIN saved'
         /\ \A h \in DOMAIN hours' : h \in DOMAIN hours \/ h \notin DOMAIN saved
<1>1. ASSUME NEW n \in Rules, NEW form \in RuleForms,
             CreateRule(n, form) \/ \E fields \in Patches : UpdateRule(n, fields, form)
      PROVE  UNCHANGED <<call, saved, hours>>
  BY <1>1 DEF CreateRule, UpdateRule
<1>2. ASSUME NEW h \in Hours, NEW form, CreateHours(h, form)
      PROVE  /\ call' = call /\ DOMAIN saved \subseteq DOMAIN saved'
             /\ \A k \in DOMAIN hours' : k \in DOMAIN hours \/ k \notin DOMAIN saved
  BY <1>2 DEF CreateHours, With
<1>3. ASSUME NEW h \in Hours, NEW zone, NEW holidays, UpdateHours(h, zone, holidays)
      PROVE  UNCHANGED <<call, saved>> /\ DOMAIN hours' = DOMAIN hours
  BY <1>3 DEF UpdateHours
<1>4. ASSUME NEW q \in Requests,
             \/ \E h \in Hours, zone \in Zones, week \in Weeks : ReplaceWeek(q, h, zone, week)
             \/ \E n \in Rules : CheckRule(q, n)
             \/ \E h \in Hours : CheckHours(q, h)
             \/ \E a \in Agents : CheckAgent(q, a)
             \/ DropRule(q) \/ DropAgent(q)
      PROVE  UNCHANGED <<call, saved, hours>>
  BY <1>4 DEF ReplaceWeek, CheckRule, CheckHours, CheckAgent, DropRule, DropAgent
<1>5. ASSUME NEW q \in Requests, DropHours(q)
      PROVE  UNCHANGED <<call, saved>> /\ DOMAIN hours' \subseteq DOMAIN hours
  BY <1>5 DEF DropHours, Without
<1>6. ASSUME NEW q \in Requests, CommitWeek(q)
      PROVE  call' = call /\ DOMAIN saved' = DOMAIN saved /\ DOMAIN hours' = DOMAIN hours
  BY <1>6 DEF CommitWeek
<1>7. ASSUME NEW pin, NEW a, Assign(pin, a) PROVE UNCHANGED <<call, saved, hours>>
  BY <1>7 DEF Assign
<1>8. ASSUME NEW a \in Agents, NEW status, SetAgent(a, status)
      PROVE  UNCHANGED <<call, saved, hours>>
  BY <1>8 DEF SetAgent
<1> QED
  BY <1>1, <1>2, <1>3, <1>4, <1>5, <1>6, <1>7, <1>8 DEF Edits

LEMMA EditsKeep ==
  ASSUME EditsInv, Edits
  PROVE  EditsInv'
<1>1. ASSUME NEW n \in Rules, NEW form \in RuleForms,
             CreateRule(n, form) \/ \E fields \in Patches : UpdateRule(n, fields, form)
      PROVE  EditsInv'
  BY <1>1, CreateRuleKeeps, UpdateRuleKeeps
<1>2. ASSUME NEW h \in Hours, NEW zone \in Zones, NEW holidays \in Holidays,
             \/ \E week \in Weeks :
                  CreateHours(h, [zone |-> zone, holidays |-> holidays, week |-> week])
             \/ UpdateHours(h, zone, holidays)
      PROVE  EditsInv'
  BY <1>2, CreateHoursKeeps, UpdateHoursKeeps
<1>3. ASSUME NEW h \in Hours, NEW zone \in Zones, NEW q \in Requests, NEW week \in Weeks,
             ReplaceWeek(q, h, zone, week)
      PROVE  EditsInv'
  BY <1>3, ReplaceWeekKeeps
<1>4. ASSUME NEW q \in Requests,
             \/ \E n \in Rules : CheckRule(q, n)
             \/ \E h \in Hours : CheckHours(q, h)
             \/ \E a \in Agents : CheckAgent(q, a)
             \/ DropRule(q) \/ DropHours(q) \/ DropAgent(q) \/ CommitWeek(q)
      PROVE  EditsInv'
  BY <1>4, CheckRuleKeeps, CheckHoursKeeps, CheckAgentKeeps, DropRuleKeeps, DropHoursKeeps,
     DropAgentKeeps, CommitWeekKeeps
<1>5. ASSUME NEW pin \in Rules \cup {0}, NEW a \in Agents \cup {None}, Assign(pin, a)
      PROVE  EditsInv'
  BY <1>5, AssignKeeps
<1>6. ASSUME NEW a \in Agents, NEW status \in {"published", "unpublished", "disabled"},
             SetAgent(a, status)
      PROVE  EditsInv'
  BY <1>6, SetAgentKeeps
<1> QED
  BY <1>1, <1>2, <1>3, <1>4, <1>5, <1>6 DEF Edits

LEMMA NextInv ==
  ASSUME IInv, [Next]_vars
  PROVE  IInv'
<1>1. EditsInv /\ CallsInv
  BY DEF IInv, EditsInv
<1>2. CASE Edits
  <2>1. EditsInv'
    BY <1>1, <1>2, EditsKeep
  <2>2. HoursInv /\ HoursInv'
    BY <1>1, <2>1 DEF EditsInv
  <2>3. CallsInv'
    BY <1>1, <1>2, <2>2, EditsOnly, EditsKeepCalls
  <2> QED
    BY <2>1, <2>3 DEF IInv, EditsInv
<1>3. ASSUME NEW c \in Calls, Routes(c)
      PROVE  IInv'
  <2>1. EditsInv' /\ CallsInv'
    BY <1>1, <1>3, ArriveKeeps, ReadRulesKeeps, ReadHoursKeeps, RouteKeeps, InboundKeeps,
       ResolveKeeps DEF Routes
  <2> QED
    BY <2>1 DEF IInv, EditsInv
<1>4. CASE UNCHANGED vars
  <2>1. RowsInv' /\ DeletionsInv' /\ CallsInv'
    BY <1>1, <1>4 DEF vars, EditsInv, RowsInv, DeletionsInv, CallsInv, CallInv
  <2>2. HoursInv' /\ RequestsInv'
    BY <1>1, <1>4, SameHours, SameRequests DEF vars, EditsInv
  <2> QED
    BY <2>1, <2>2 DEF IInv
<1> QED
  BY <1>2, <1>3, <1>4 DEF Next

THEOREM SpecInv == Spec => []IInv
<1>1. Init => IInv
  BY InitInv
<1>2. IInv /\ [Next]_vars => IInv'
  BY NextInv
<1> QED
  BY <1>1, <1>2, PTL DEF Spec

\* What the rows keep: a rule's schedule and agents exist, so do the rule the number is
\* pinned to and the agent it is given to, and a schedule consists of the intervals of one save unless two overlapped.
THEOREM RowsKept == Spec => []RowsSound
<1>1. IInv => RowsSound
  <2> SUFFICES ASSUME IInv PROVE RowsSound
    OBVIOUS
  <2>1. \A n \in DOMAIN rules : \A a \in {rules[n].agent, rules[n].spare} : a \in Agents \cup {None}
    BY DEF IInv, RowsInv, RuleRow
  <2>2. \A c \in Calls : call[c].phase \in Phases
    BY DEF IInv, CallsInv, CallInv
  <2>3. /\ \A q \in Requests :
             request[q].op \in {"idle", "week", "drop_rule", "drop_hours", "drop_agent"}
        /\ DOMAIN hours \subseteq Hours /\ torn \subseteq Hours
        /\ slipped \subseteq Rules /\ late \subseteq Agents
        /\ WeekIsOneSave
    BY DEF IInv, RequestsInv, HoursInv, DeletionsInv
  <2>4. TypeOK
    BY <2>1, <2>2, <2>3 DEF IInv, RowsInv, TypeOK
  <2> QED
    BY <2>3, <2>4 DEF RowsSound
<1> QED
  BY <1>1, SpecInv, PTL

\* What a call that a rule decided knows of it.
LEMMA DecidedByFirst ==
  ASSUME CallsInv, NEW c \in Calls, Decided(c)
  PROVE  LET k == call[c]
             D == Deciding(k.rules, k.found, k.facts, k.at)
         IN  /\ CallInv(k) /\ k.phase \notin {"expected", "number", "rules", "hours"}
             /\ k.decision.by \in D
             /\ k.decision.kind = Outcome(k.rules[k.decision.by], k.found, k.at)
             /\ \A n \in D \ {k.decision.by} : Before(k.rules, k.decision.by, n)
<1>1. PICK k : k = call[c]
  OBVIOUS
<1>2. CallInv(k) /\ k.decision.by # 0
  BY <1>1 DEF CallsInv, Decided
<1>3. Nobody.by = 0
  BY DEF Nobody
<1>4. /\ k.phase \notin {"expected", "number", "rules", "hours"}
      /\ k.decision = Decision(k.rules, k.found, k.facts, k.at) /\ k.decision # Nobody
  BY <1>2, <1>3 DEF CallInv
<1>5. DOMAIN k.rules \subseteq Nat \ {0} /\ \A n \in DOMAIN k.rules : RuleRow(k.rules[n])
  BY <1>2, EditsAssumption DEF CallInv
<1> QED
  BY <1>1, <1>2, <1>4, <1>5, DecisionIsFirst

\* A caller reaches the daytime agent of a rule outside its hours, by the timezone of
\* the schedule, only when the rule or its schedule changed while the call was being
\* routed.  (It is shown of the schedules without a timezone too, read as UTC.)
THEOREM HoursRespected == Spec => []NeverOutOfHours
<1>1. IInv => NeverOutOfHours
  <2> SUFFICES ASSUME IInv, NEW c \in Calls, Decided(c), call[c].decision.kind = "primary",
                      DecidingRow(c).hours # None, Sees(c, call[c].decision.by)
               PROVE  /\ DecidingRow(c).hours \in DOMAIN call[c].found
                      /\ OpenNow(call[c].found[DecidingRow(c).hours], call[c].at)
    BY DEF NeverOutOfHours
  <2>1. PICK k : k = call[c]
    OBVIOUS
  <2>2. PICK m : m = k.decision.by
    OBVIOUS
  <2>3. /\ CallInv(k) /\ k.phase \notin {"expected", "number", "rules"}
        /\ m \in DOMAIN k.rules /\ Outcome(k.rules[m], k.found, k.at) = "primary"
    BY <2>1, <2>2, DecidedByFirst DEF IInv, Deciding
  <2>4. k.rules[m].hours \in DOMAIN hours
    BY <2>1, <2>2 DEF IInv, RowsInv, Sees, DecidingRow
  <2>5. k.rules[m].hours \in DOMAIN k.found
    BY <2>3, <2>4 DEF CallInv
  <2>6. ~Closed(k.rules[m], k.found, k.at)
    BY <2>3 DEF Outcome
  <2> QED
    BY <2>1, <2>2, <2>5, <2>6 DEF Closed, DecidingRow
<1> QED
  BY <1>1, SpecInv, PTL

\* No rule is shadowed by the one that decided a call.
THEOREM BestRuleDecides == Spec => []BestRule
<1>1. IInv => BestRule
  <2> SUFFICES ASSUME IInv, NEW c \in Calls, Decided(c),
                      NEW n \in DOMAIN call[c].rules \ {call[c].decision.by}
               PROVE  LET passed == call[c].rules[n]
                      IN  \/ passed.priority > DecidingRow(c).priority
                          \/ /\ passed.priority = DecidingRow(c).priority
                             /\ ~(DecidingRow(c).conditions \subseteq passed.conditions)
                          \/ passed.conditions = DecidingRow(c).conditions
                          \/ ~(passed.conditions \ {"campaign"} \subseteq call[c].facts)
                          \/ passed.agent = None
    BY DEF BestRule
  <2>1. PICK k : k = call[c]
    OBVIOUS
  <2>2. PICK m : m = k.decision.by
    OBVIOUS
  <2>3. PICK D : D = Deciding(k.rules, k.found, k.facts, k.at)
    OBVIOUS
  <2>4. CallInv(k) /\ m \in D /\ \A o \in D \ {m} : Before(k.rules, m, o)
    BY <2>1, <2>2, <2>3, DecidedByFirst DEF IInv
  <2>5. m \in DOMAIN k.rules /\ RuleRow(k.rules[m]) /\ RuleRow(k.rules[n])
    BY <2>1, <2>3, <2>4 DEF Deciding, CallInv
  <2>6. CASE n \in D
    <3>1. Before(k.rules, m, n)
      BY <2>1, <2>2, <2>4, <2>6
    <3> QED
      BY <2>1, <2>2, <2>5, <3>1, PassedOver DEF DecidingRow
  <2>7. CASE n \notin D
    <3>1. ~Matches(k.rules[n], k.facts) \/ Outcome(k.rules[n], k.found, k.at) = "skip"
      BY <2>1, <2>3, <2>7 DEF Deciding
    <3>2. Outcome(k.rules[n], k.found, k.at) = "skip" => k.rules[n].agent = None
      BY DEF Outcome
    <3> QED
      BY <2>1, <3>1, <3>2 DEF Matches
  <2> QED
    BY <2>6, <2>7
<1> QED
  BY <1>1, SpecInv, PTL

\* A step that is not a new request detaches a rule or the number only in a race.
LEMMA DetachedByDeletion ==
  ASSUME IInv, [Next]_vars, edits' = edits
  PROVE  /\ \A n \in DOMAIN rules \cap DOMAIN rules' :
              rules'[n].hours = rules[n].hours \/ n \in slipped
         /\ \/ number'.pin = number.pin \/ number.pin \in slipped
            \/ \E a \in Agents : rules[number.pin].agent = a /\ agents'[a] = "deleted"
         /\ number'.agent = number.agent \/ number.agent \in late
<1>1. EditsInv /\ RowsInv /\ ~Edited
  BY EditsAssumption DEF IInv, EditsInv, RowsInv, Edited
<1>2. ASSUME NEW q \in Requests, DropRule(q)
      PROVE  /\ \A n \in DOMAIN rules \cap DOMAIN rules' : rules'[n].hours = rules[n].hours
             /\ number'.pin = number.pin \/ number.pin \in slipped
             /\ number'.agent = number.agent
  <2>1. /\ request[q].op = "drop_rule" /\ rules' = Without(rules, {request[q].rule})
        /\ number' = Unpinned({request[q].rule})
    BY <1>2 DEF DropRule
  <2>2. \A n \in DOMAIN rules' : rules'[n] = rules[n]
    BY <2>1 DEF Without
  <2>3. /\ number'.pin = number.pin \/ number.pin = request[q].rule
        /\ number'.agent = number.agent
    BY <1>1, <2>1 DEF Unpinned, RowsInv
  <2> QED
    BY <2>1, <2>2, <2>3 DEF IInv, DeletionsInv
<1>3. ASSUME NEW q \in Requests, CommitWeek(q)
      PROVE  UNCHANGED <<rules, number>>
  BY <1>3 DEF CommitWeek
<1>4. ASSUME NEW q \in Requests, DropHours(q)
      PROVE  /\ number' = number
             /\ \A n \in DOMAIN rules \cap DOMAIN rules' :
                  rules'[n].hours = rules[n].hours \/ n \in slipped
  BY <1>1, <1>4, DropHoursKeeps
<1>5. ASSUME NEW c \in Calls, Routes(c) PROVE UNCHANGED <<rules, number>>
  BY <1>5 DEF Routes, Arrive, ReadRules, ReadHours, Route, Inbound, Resolve, Frozen
<1>6. CASE UNCHANGED vars
  BY <1>6 DEF vars
<1>7. CASE Edits
  <2>1. \E q \in Requests : DropRule(q) \/ DropHours(q) \/ DropAgent(q) \/ CommitWeek(q)
    BY <1>1, <1>7 DEF Edits, CreateRule, UpdateRule, CreateHours, UpdateHours, ReplaceWeek,
       CheckRule, CheckHours, CheckAgent, Assign, SetAgent
  <2>2. ASSUME NEW q \in Requests, DropAgent(q)
        PROVE  /\ \A n \in DOMAIN rules \cap DOMAIN rules' : rules'[n].hours = rules[n].hours
               /\ \/ number'.pin = number.pin
                  \/ \E a \in Agents : rules[number.pin].agent = a /\ agents'[a] = "deleted"
               /\ number'.agent = number.agent \/ number.agent \in late
    BY <1>1, <2>2, DropAgentKeeps
  <2> QED
    BY <1>2, <1>3, <1>4, <2>1, <2>2
<1> QED
  BY <1>5, <1>6, <1>7 DEF Next

\* A rule loses its schedule, or the number its rule or its agent, to a deletion only
\* when it was attached after the deletion had looked for users, or, a pinned number,
\* when the rule goes with its agent.
THEOREM DetachedInRaceOnly == Spec => DetachedOnlyInRace
<1>1. IInv /\ [Next]_vars =>
        [edits' = edits =>
           /\ \A n \in DOMAIN rules \cap DOMAIN rules' :
                rules'[n].hours = rules[n].hours \/ n \in slipped
           /\ \/ number'.pin = number.pin \/ number.pin \in slipped
              \/ \E a \in Agents : rules[number.pin].agent = a /\ agents'[a] = "deleted"
           /\ number'.agent = number.agent \/ number.agent \in late]_vars
  BY DetachedByDeletion
<1> QED
  BY <1>1, SpecInv, PTL DEF Spec, DetachedOnlyInRace
================================================================================
