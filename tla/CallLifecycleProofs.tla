------------------------- MODULE CallLifecycleProofs -------------------------
(***************************************************************************)
(* Theorems about CallLifecycle for every set of calls, every limit of the *)
(* tenant and any number of faults: its types, how far the limits can be   *)
(* overshot, and what a call leaves behind.                                *)
(***************************************************************************)
EXTENDS CallLifecycle, FiniteSetTheorems, TLAPS

USE CallsAssumption

\* What the row of a call may say at each place of its coroutine.
RowsAt(here) ==
  CASE here \in {"awaiting", "concurrent", "daily", "route", "refused"} -> {"none"}
    [] here \in {"loading", "opening"}  -> {"ANSWERED"}
    [] here = "starting"                -> {"AI_CONNECTED"}
    [] here = "recording"               -> {"IN_PROGRESS"}
    [] here \in {"talking", "ending"}   -> {"IN_PROGRESS", "HUMAN_AGENT"}
    [] here \in {"failing", "closing", "accounting"} -> CallStates
    [] OTHER                            -> CallStates \cup {"none"}

RowsFit == \A c \in Calls : row[c] \in RowsAt(pc[c])

\* A process counts its call from the moment it is loaded.
Uncounted == {"awaiting", "concurrent", "daily", "route", "refused", "loading"}
CountsFit == \A c \in Calls : pc[c] \in Uncounted => active[c] = 0

Routed == {c \in Calls : At(c, "route")}

\* Every call between check and insert has been admitted below the limit it was checked for.
Bounds ==
  /\ Cardinality(Passed) <= Parallel
  /\ Cardinality(Active) + Cardinality(Passed) <= MaxConcurrent - 1 + Parallel
  /\ Cardinality(Stored) + Cardinality(Routed) <= MaxDaily - 1 + Parallel

IInv == TypeOK /\ RowsFit /\ CountsFit /\ Bounds

-----------------------------------------------------------------------------
(* Counting *)

LEMMA FiniteParts ==
  /\ IsFiniteSet(Passed) /\ IsFiniteSet(Active) /\ IsFiniteSet(Stored) /\ IsFiniteSet(Routed)
  /\ Cardinality(Passed) \in Nat /\ Cardinality(Active) \in Nat
  /\ Cardinality(Stored) \in Nat /\ Cardinality(Routed) \in Nat
<1>1. Passed \subseteq Calls /\ Active \subseteq Calls /\ Stored \subseteq Calls /\ Routed \subseteq Calls
  BY DEF Passed, Active, Stored, Routed
<1>2. QED BY <1>1, FS_Subset, FS_CardinalityType

LEMMA OneMore ==
  ASSUME NEW S, IsFiniteSet(S), NEW x
  PROVE  /\ IsFiniteSet(S \cup {x})
         /\ Cardinality(S \cup {x}) \in Nat /\ Cardinality(S \cup {x}) <= Cardinality(S) + 1
<1>1. Cardinality(S) \in Nat
  BY FS_CardinalityType
<1>2. /\ IsFiniteSet(S \cup {x})
      /\ Cardinality(S \cup {x}) = IF x \in S THEN Cardinality(S) ELSE Cardinality(S) + 1
  BY FS_AddElement
<1>3. QED BY <1>1, <1>2

\* Fewer calls in each of the four sets keep the bounds.
LEMMA FewerKeepBounds ==
  ASSUME Bounds, Passed' \subseteq Passed, Active' \subseteq Active,
         Stored' \subseteq Stored, Routed' \subseteq Routed
  PROVE  Bounds'
<1>1. /\ Cardinality(Passed') <= Cardinality(Passed)
      /\ Cardinality(Active') <= Cardinality(Active)
      /\ Cardinality(Stored') <= Cardinality(Stored)
      /\ Cardinality(Routed') <= Cardinality(Routed)
      /\ Cardinality(Passed') \in Nat /\ Cardinality(Active') \in Nat
      /\ Cardinality(Stored') \in Nat /\ Cardinality(Routed') \in Nat
  BY FiniteParts, FS_Subset, FS_CardinalityType
<1>2. QED BY <1>1, FiniteParts DEF Bounds

\* A step of one call that has left the admission and whose row does not come back to life.
LEMMA LaterStepKeepsBounds ==
  ASSUME IInv, NEW c \in Calls, NEW there \in Places \ {"daily", "route"},
         pc' = [pc EXCEPT ![c] = there], NEW state, row' = [row EXCEPT ![c] = state],
         c \in Stored \/ state = "none", c \in Active \/ state \in TerminalCallStates \cup {"none", row[c]}
  PROVE  Bounds'
<1>1. \A d \in Calls : /\ pc'[d] = IF d = c THEN there ELSE pc[d]
                       /\ row'[d] = IF d = c THEN state ELSE row[d]
  BY DEF IInv, TypeOK
<1>2. Passed' \subseteq Passed /\ Routed' \subseteq Routed
  BY <1>1 DEF Passed, Routed, At
<1>3. Stored' \subseteq Stored
  BY <1>1 DEF Stored
<1>4. Active' \subseteq Active
  BY <1>1, <1>3 DEF Active, Stored
<1>5. QED BY <1>2, <1>3, <1>4, FewerKeepBounds DEF IInv

\* A step that leaves both alone.
LEMMA SameKeepsBounds ==
  ASSUME Bounds, UNCHANGED <<pc, row>>
  PROVE  Bounds'
<1>1. Passed' = Passed /\ Active' = Active /\ Stored' = Stored /\ Routed' = Routed
  BY DEF Passed, Active, Stored, Routed, At
<1>2. QED BY <1>1, FewerKeepBounds

-----------------------------------------------------------------------------
(* Types *)

LEMMA RowsAtType == \A here : RowsAt(here) \subseteq CallStates \cup {"none"}
BY DEF RowsAt, CallStates

Others ==
  /\ caller \in [Calls -> {"present", "gone"}]
  /\ human \in [Calls -> {"none", "bridged", "gone"}]
  /\ open \in [Calls -> BOOLEAN] /\ noticed \in [Calls -> BOOLEAN]
  /\ egress \in [Calls -> {"none", "running", "stopped"}]
  /\ kept \subseteq Calls
  /\ usage \in [answered : Nat, failed : Nat]
  /\ faults \in 0..MaxFaults /\ troubled \subseteq Calls

\* What the coroutine of one call may change of the three variables that every step has.
OnlyOf(c) ==
  /\ pc' = [pc EXCEPT ![c] = pc'[c]]
  /\ row' = [row EXCEPT ![c] = row'[c]]
  /\ active' = [active EXCEPT ![c] = active'[c]]

\* A step of one call that puts it in a place its row and its counter fit.
LEMMA Fits ==
  ASSUME TypeOK, RowsFit, CountsFit, NEW c \in Calls, OnlyOf(c), Others',
         pc'[c] \in Places, row'[c] \in RowsAt(pc'[c]),
         active'[c] \in 0..1, pc'[c] \in Uncounted => active'[c] = 0
  PROVE  TypeOK' /\ RowsFit' /\ CountsFit'
<1>1. \A d \in Calls : d # c => pc'[d] = pc[d] /\ row'[d] = row[d] /\ active'[d] = active[d]
  BY DEF TypeOK, OnlyOf
<1>2. pc' \in [Calls -> Places] /\ active' \in [Calls -> 0..1]
  BY DEF TypeOK, OnlyOf
<1>3. row' \in [Calls -> CallStates \cup {"none"}]
  BY RowsAtType DEF TypeOK, OnlyOf
<1>4. RowsFit'
  BY <1>1 DEF RowsFit
<1>5. CountsFit'
  BY <1>1 DEF CountsFit
<1>6. QED BY <1>2, <1>3, <1>4, <1>5 DEF TypeOK, Others

LEMMA HistoryType ==
  ASSUME TypeOK, NEW c \in Calls, Works \/ Raises \/ Loses(c)
  PROVE  faults' \in 0..MaxFaults /\ troubled' \subseteq Calls
BY DEF TypeOK, Works, Raises, Loses, history

LEMMA RoomType ==
  ASSUME TypeOK, NEW c \in Calls, Closes(c) \/ UNCHANGED room
  PROVE  /\ caller' \in [Calls -> {"present", "gone"}]
         /\ human' \in [Calls -> {"none", "bridged", "gone"}]
         /\ open' \in [Calls -> BOOLEAN] /\ noticed' \in [Calls -> BOOLEAN]
<1>1. CASE UNCHANGED room
  BY <1>1 DEF TypeOK, room
<1>2. CASE Closes(c)
  <2>1. caller' \in [Calls -> {"present", "gone"}] /\ open' \in [Calls -> BOOLEAN]
    BY <1>2 DEF TypeOK, Closes
  <2>2. human' \in [Calls -> {"none", "bridged", "gone"}]
    BY <1>2 DEF TypeOK, Closes
  <2>3. noticed' \in [Calls -> BOOLEAN]
    BY <1>2 DEF TypeOK, Closes, Hears, Listening, At
  <2>4. QED BY <2>1, <2>2, <2>3
<1>3. QED BY <1>1, <1>2

LEMMA BillType ==
  ASSUME TypeOK, NEW c \in Calls, Bill(c) \/ UNCHANGED usage
  PROVE  usage' \in [answered : Nat, failed : Nat]
BY DEF TypeOK, Bill

-----------------------------------------------------------------------------
(* Each action keeps the invariant *)

\* What every action of one call has to show.
LEMMA Keeps1 ==
  ASSUME IInv, NEW c \in Calls, OnlyOf(c),
         pc'[c] \in Places \ {"daily", "route"}, row'[c] \in RowsAt(pc'[c]),
         row[c] # "none" \/ row'[c] = "none",
         (row[c] # "none" /\ row[c] \notin TerminalCallStates)
           \/ row'[c] \in TerminalCallStates \cup {"none", row[c]},
         active'[c] \in 0..1, pc'[c] \in Uncounted => active'[c] = 0,
         Others'
  PROVE  IInv'
<1>1. TypeOK' /\ RowsFit' /\ CountsFit'
  BY Fits DEF IInv
<1>2. (c \in Stored \/ row'[c] = "none") /\ (c \in Active \/ row'[c] \in TerminalCallStates \cup {"none", row[c]})
  BY DEF Stored, Active
<1>3. Bounds'
  BY <1>2, LaterStepKeepsBounds DEF OnlyOf
<1>4. QED BY <1>1, <1>3 DEF IInv

\* A step that neither moves the call nor touches its row or its counter.
LEMMA Keeps0 ==
  ASSUME IInv, UNCHANGED <<pc, row, active>>, Others'
  PROVE  IInv'
<1>1. TypeOK' /\ RowsFit' /\ CountsFit'
  BY DEF IInv, TypeOK, RowsFit, CountsFit, Others
<1>2. QED BY <1>1, SameKeepsBounds DEF IInv

LEMMA RowAt ==
  ASSUME IInv, NEW c \in Calls
  PROVE  /\ row[c] \in RowsAt(pc[c])
         /\ row[c] \in CallStates \cup {"none"}
         /\ active[c] \in 0..1
         /\ pc[c] \in Uncounted => active[c] = 0
BY DEF IInv, TypeOK, RowsFit, CountsFit

\* A step of the coroutine that may write the row and the counter changes those of its call.
LEMMA StepIsOnlyOf ==
  ASSUME IInv, NEW c \in Calls, NEW there, Goto(c, there),
         UNCHANGED row \/ (\E state : row' = [row EXCEPT ![c] = state]),
         UNCHANGED active \/ (\E n : active' = [active EXCEPT ![c] = n])
  PROVE  /\ OnlyOf(c) /\ pc'[c] = there
         /\ UNCHANGED row => row'[c] = row[c]
         /\ UNCHANGED active => active'[c] = active[c]
BY DEF IInv, TypeOK, Goto, OnlyOf

LEMMA AwaitCallerKeeps ==
  ASSUME IInv, NEW c \in Calls, AwaitCaller(c)
  PROVE  IInv'
<1>1. PICK there \in {"concurrent", "done"} : At(c, "awaiting") /\ Goto(c, there)
  BY DEF AwaitCaller, Step
<1>2. row[c] = "none" /\ active[c] = 0
  BY <1>1, RowAt DEF At, RowsAt, Uncounted
<1>3. Others'
  BY HistoryType, RoomType DEF AwaitCaller, IInv, TypeOK, Others, room, books
<1>4. UNCHANGED <<row, active>>
  BY DEF AwaitCaller, books
<1>5. OnlyOf(c) /\ pc'[c] = there /\ row'[c] = "none" /\ active'[c] = 0
  BY <1>1, <1>2, <1>4, StepIsOnlyOf
<1>6. "none" \in RowsAt(there) /\ there \in Places \ {"daily", "route"}
  BY <1>1 DEF RowsAt, Places
<1>7. QED BY <1>3, <1>5, <1>6, <1>2, Keeps1

\* Admitted below the limit: one more call is between the check and the insert.
LEMMA CheckConcurrentKeeps ==
  ASSUME IInv, NEW c \in Calls, CheckConcurrent(c)
  PROVE  IInv'
<1>1. row[c] = "none" /\ active[c] = 0 /\ pc[c] = "concurrent"
  BY RowAt DEF CheckConcurrent, At, RowsAt, Uncounted
<1>2. Others' /\ UNCHANGED <<row, active>>
  BY HistoryType, RoomType DEF CheckConcurrent, IInv, TypeOK, Others, room, books
<1>3. CASE Refuse(c)
  <2>1. OnlyOf(c) /\ pc'[c] = "refused" /\ row'[c] = "none" /\ active'[c] = 0
    BY <1>1, <1>2, <1>3, StepIsOnlyOf DEF Refuse
  <2>2. "none" \in RowsAt("refused") /\ "refused" \in Places \ {"daily", "route"}
    BY DEF RowsAt, Places
  <2>3. QED BY <1>1, <1>2, <2>1, <2>2, Keeps1
<1>4. CASE /\ Cardinality(Active) < MaxConcurrent
           /\ Cardinality(Passed) < Parallel
           /\ Goto(c, "daily")
  <2>1. TypeOK' /\ RowsFit' /\ CountsFit'
    <3>1. OnlyOf(c) /\ pc'[c] = "daily" /\ row'[c] = "none" /\ active'[c] = 0
      BY <1>1, <1>2, <1>4, StepIsOnlyOf
    <3>2. "none" \in RowsAt("daily") /\ "daily" \in Places
      BY DEF RowsAt, Places
    <3>3. QED BY <1>2, <3>1, <3>2, Fits DEF IInv
  <2>2. \A d \in Calls : pc'[d] = IF d = c THEN "daily" ELSE pc[d]
    BY <1>4 DEF Goto, IInv, TypeOK
  <2>3. Passed' = Passed \cup {c} /\ Routed' = Routed /\ Active' = Active /\ Stored' = Stored
    BY <1>1, <1>2, <2>2 DEF Passed, Routed, Active, Stored, At
  <2>4. Cardinality(Passed') <= Cardinality(Passed) + 1 /\ Cardinality(Passed') \in Nat
    BY <2>3, FiniteParts, OneMore
  <2>5. Bounds'
    BY <1>4, <2>3, <2>4, FiniteParts DEF Bounds, IInv
  <2>6. QED BY <2>1, <2>5 DEF IInv
<1>5. QED BY <1>3, <1>4 DEF CheckConcurrent

\* Checked below the day's limit: at most Parallel calls are between here and the insert.
LEMMA CheckDailyKeeps ==
  ASSUME IInv, NEW c \in Calls, CheckDaily(c)
  PROVE  IInv'
<1>1. row[c] = "none" /\ active[c] = 0 /\ pc[c] = "daily"
  BY RowAt DEF CheckDaily, At, RowsAt, Uncounted
<1>2. Others' /\ UNCHANGED <<row, active>>
  BY HistoryType, RoomType DEF CheckDaily, IInv, TypeOK, Others, room, books
<1>3. CASE Refuse(c)
  <2>1. OnlyOf(c) /\ pc'[c] = "refused" /\ row'[c] = "none" /\ active'[c] = 0
    BY <1>1, <1>2, <1>3, StepIsOnlyOf DEF Refuse
  <2>2. "none" \in RowsAt("refused") /\ "refused" \in Places \ {"daily", "route"}
    BY DEF RowsAt, Places
  <2>3. QED BY <1>1, <1>2, <2>1, <2>2, Keeps1
<1>4. CASE Cardinality(Stored) < MaxDaily /\ Goto(c, "route")
  <2>1. TypeOK' /\ RowsFit' /\ CountsFit'
    <3>1. OnlyOf(c) /\ pc'[c] = "route" /\ row'[c] = "none" /\ active'[c] = 0
      BY <1>1, <1>2, <1>4, StepIsOnlyOf
    <3>2. "none" \in RowsAt("route") /\ "route" \in Places
      BY DEF RowsAt, Places
    <3>3. QED BY <1>2, <3>1, <3>2, Fits DEF IInv
  <2>2. \A d \in Calls : pc'[d] = IF d = c THEN "route" ELSE pc[d]
    BY <1>4 DEF Goto, IInv, TypeOK
  <2>3. Passed' = Passed /\ Routed' \subseteq Passed /\ Active' = Active /\ Stored' = Stored
    BY <1>1, <1>2, <2>2 DEF Passed, Routed, Active, Stored, At
  <2>4. Cardinality(Routed') <= Cardinality(Passed) /\ Cardinality(Routed') \in Nat
    BY <2>3, FiniteParts, FS_Subset, FS_CardinalityType
  <2>5. Bounds'
    BY <1>4, <2>3, <2>4, FiniteParts DEF Bounds, IInv
  <2>6. QED BY <2>1, <2>5 DEF IInv
<1>5. QED BY <1>3, <1>4 DEF CheckDaily

\* The call leaves the gap between check and insert for the rows that are counted.
LEMMA CreateCallRowKeeps ==
  ASSUME IInv, NEW c \in Calls, CreateCallRow(c)
  PROVE  IInv'
<1>1. row[c] = "none" /\ active[c] = 0 /\ pc[c] = "route"
  BY RowAt DEF CreateCallRow, At, RowsAt, Uncounted
<1>2. Others' /\ UNCHANGED active
  BY HistoryType, RoomType DEF CreateCallRow, IInv, TypeOK, Others, room, books
<1>3. CASE Refuse(c) /\ UNCHANGED row
  <2>1. OnlyOf(c) /\ pc'[c] = "refused" /\ row'[c] = "none" /\ active'[c] = 0
    BY <1>1, <1>2, <1>3, StepIsOnlyOf DEF Refuse
  <2>2. "none" \in RowsAt("refused") /\ "refused" \in Places \ {"daily", "route"}
    BY DEF RowsAt, Places
  <2>3. QED BY <1>1, <1>2, <2>1, <2>2, Keeps1
<1>4. CASE Goto(c, "loading") /\ Answers(c)
  <2>1. TypeOK' /\ RowsFit' /\ CountsFit'
    <3>1. OnlyOf(c) /\ pc'[c] = "loading" /\ row'[c] = "ANSWERED" /\ active'[c] = 0
      BY <1>1, <1>2, <1>4, StepIsOnlyOf DEF Answers, IInv, TypeOK
    <3>2. "ANSWERED" \in RowsAt("loading") /\ "loading" \in Places
      BY DEF RowsAt, Places
    <3>3. QED BY <1>2, <3>1, <3>2, Fits DEF IInv
  <2>2. \A d \in Calls : /\ pc'[d] = IF d = c THEN "loading" ELSE pc[d]
                         /\ row'[d] = IF d = c THEN "ANSWERED" ELSE row[d]
    BY <1>4 DEF Goto, Answers, IInv, TypeOK
  <2>3. /\ c \in Passed /\ Passed' = Passed \ {c} /\ c \in Routed /\ Routed' = Routed \ {c}
        /\ Active' \subseteq Active \cup {c} /\ Stored' = Stored \cup {c}
    BY <1>1, <2>2 DEF Passed, Routed, Active, Stored, At
  <2>4. /\ Cardinality(Passed') = Cardinality(Passed) - 1
        /\ Cardinality(Routed') = Cardinality(Routed) - 1
    BY <2>3, FiniteParts, FS_RemoveElement
  <2>5. /\ IsFiniteSet(Active \cup {c}) /\ Cardinality(Active \cup {c}) <= Cardinality(Active) + 1
        /\ Cardinality(Active \cup {c}) \in Nat
        /\ Cardinality(Stored') <= Cardinality(Stored) + 1 /\ Cardinality(Stored') \in Nat
    BY <2>3, FiniteParts, OneMore
  <2>6. Cardinality(Active') <= Cardinality(Active) + 1 /\ Cardinality(Active') \in Nat
    BY <2>3, <2>5, FS_Subset, FS_CardinalityType, FiniteParts
  <2>7. Bounds'
    BY <2>4, <2>5, <2>6, FiniteParts DEF Bounds, IInv
  <2>8. QED BY <2>1, <2>7 DEF IInv
<1>5. QED BY <1>3, <1>4 DEF CreateCallRow

LEMMA DismissKeeps ==
  ASSUME IInv, NEW c \in Calls, Dismiss(c)
  PROVE  IInv'
<1>1. row[c] = "none" /\ active[c] = 0
  BY RowAt DEF Dismiss, Step, At, RowsAt, Uncounted
<1>2. Others' /\ UNCHANGED <<row, active>>
  BY HistoryType, RoomType DEF Dismiss, IInv, TypeOK, Others, room, books
<1>3. OnlyOf(c) /\ pc'[c] = "done" /\ row'[c] = "none" /\ active'[c] = 0
  BY <1>1, <1>2, StepIsOnlyOf DEF Dismiss, Step
<1>4. "none" \in RowsAt("done") /\ "done" \in Places \ {"daily", "route"}
  BY DEF RowsAt, Places, CallStates
<1>5. QED BY <1>1, <1>2, <1>3, <1>4, Keeps1

LEMMA LoadKeeps ==
  ASSUME IInv, NEW c \in Calls, Load(c)
  PROVE  IInv'
<1>1. row[c] = "ANSWERED" /\ active[c] = 0
  BY RowAt DEF Load, Step, At, RowsAt, Uncounted
<1>2. Others' /\ UNCHANGED row
  BY HistoryType, RoomType DEF Load, IInv, TypeOK, Others, room
<1>3. PICK there \in {"opening", "done"} : Goto(c, there)
  BY DEF Load, Step
<1>4. UNCHANGED active \/ (\E n : active' = [active EXCEPT ![c] = n])
  BY DEF Load
<1>5. OnlyOf(c) /\ pc'[c] = there /\ row'[c] = "ANSWERED"
  BY <1>1, <1>2, <1>3, <1>4, StepIsOnlyOf
<1>6. active'[c] \in 0..1
  BY <1>1 DEF Load, IInv, TypeOK
<1>7. "ANSWERED" \in RowsAt(there) /\ there \in Places \ ({"daily", "route"} \cup Uncounted)
  BY <1>3 DEF RowsAt, Places, CallStates, Uncounted
<1>8. QED BY <1>1, <1>2, <1>5, <1>6, <1>7, Keeps1

\* The steps of _run_call that write a state: what the tables allow never brings a call back.
LEMMA MovesFits ==
  ASSUME IInv, NEW c \in Calls, NEW state \in CallStates, Moves(c, state)
  PROVE  /\ row' = [row EXCEPT ![c] = state] /\ row'[c] = state
         /\ row[c] = state \/ row[c] \notin TerminalCallStates
<1>1. row' = [row EXCEPT ![c] = state] /\ row'[c] = state
  BY DEF Moves, IInv, TypeOK
<1>2. ASSUME row[c] \in TerminalCallStates PROVE CallStateTransitions[row[c]] = {}
  BY <1>2 DEF CallStateTransitions, TerminalCallStates, CallStates
<1>3. row[c] = state \/ row[c] \notin TerminalCallStates
  BY <1>2 DEF Moves
<1>4. QED BY <1>1, <1>3

LEMMA OpenKeeps ==
  ASSUME IInv, NEW c \in Calls, Open(c)
  PROVE  IInv'
<1>1. row[c] = "ANSWERED" /\ active[c] \in 0..1
  BY RowAt DEF Open, Step, At, RowsAt
<1>2. Others' /\ UNCHANGED active
  BY HistoryType, RoomType DEF Open, IInv, TypeOK, Others, room, books
<1>3. row' = [row EXCEPT ![c] = "AI_CONNECTED"] /\ row'[c] = "AI_CONNECTED"
  BY MovesFits DEF Open, CallStates
<1>4. OnlyOf(c) /\ pc'[c] = "starting" /\ active'[c] = active[c]
  BY <1>2, <1>3, StepIsOnlyOf DEF Open, Step
<1>5. "AI_CONNECTED" \in RowsAt("starting") /\ "starting" \in Places \ ({"daily", "route"} \cup Uncounted)
  BY DEF RowsAt, Places, Uncounted
<1>6. row[c] # "none" /\ row[c] \notin TerminalCallStates
  BY <1>1 DEF TerminalCallStates
<1>7. QED BY <1>1, <1>2, <1>3, <1>4, <1>5, <1>6, Keeps1

LEMMA StartKeeps ==
  ASSUME IInv, NEW c \in Calls, Start(c)
  PROVE  IInv'
<1>1. row[c] = "AI_CONNECTED" /\ active[c] \in 0..1
  BY RowAt DEF Start, Step, At, RowsAt
<1>2. Others' /\ UNCHANGED active
  BY HistoryType, RoomType DEF Start, IInv, TypeOK, Others, room, books
<1>3. row' = [row EXCEPT ![c] = "IN_PROGRESS"] /\ row'[c] = "IN_PROGRESS"
  BY MovesFits DEF Start, CallStates
<1>4. OnlyOf(c) /\ pc'[c] = "recording" /\ active'[c] = active[c]
  BY <1>2, <1>3, StepIsOnlyOf DEF Start, Step
<1>5. "IN_PROGRESS" \in RowsAt("recording") /\ "recording" \in Places \ ({"daily", "route"} \cup Uncounted)
  BY DEF RowsAt, Places, Uncounted
<1>6. row[c] # "none" /\ row[c] \notin TerminalCallStates
  BY <1>1 DEF TerminalCallStates
<1>7. QED BY <1>1, <1>2, <1>3, <1>4, <1>5, <1>6, Keeps1

\* A step of the coroutine after the load that writes no row and does not count.
LEMMA PassesOn ==
  ASSUME IInv, NEW c \in Calls, NEW there \in Places \ ({"daily", "route"} \cup Uncounted),
         Goto(c, there), UNCHANGED <<row, active>>, row[c] \in RowsAt(there), Others'
  PROVE  IInv'
<1>1. OnlyOf(c) /\ pc'[c] = there /\ row'[c] = row[c] /\ active'[c] = active[c]
  BY StepIsOnlyOf
<1>2. active[c] \in 0..1
  BY RowAt
<1>3. QED BY <1>1, <1>2, Keeps1

LEMMA StartRecordingKeeps ==
  ASSUME IInv, NEW c \in Calls, StartRecording(c)
  PROVE  IInv'
<1>1. Others'
  BY HistoryType, RoomType DEF StartRecording, IInv, TypeOK, Others, room
<1>2. row[c] \in RowsAt("talking")
  BY RowAt DEF StartRecording, Step, At, RowsAt
<1>3. "talking" \in Places \ ({"daily", "route"} \cup Uncounted)
  BY DEF Places, Uncounted
<1>4. Goto(c, "talking") /\ UNCHANGED <<row, active>>
  BY DEF StartRecording, Step
<1>5. QED BY <1>1, <1>2, <1>3, <1>4, PassesOn

LEMMA WaitOverKeeps ==
  ASSUME IInv, NEW c \in Calls, WaitEnds(c) \/ MaxDuration(c)
  PROVE  IInv'
<1>1. Others'
  BY HistoryType, RoomType DEF WaitEnds, MaxDuration, IInv, TypeOK, Others, room, books
<1>2. row[c] \in RowsAt("ending")
  BY RowAt DEF WaitEnds, MaxDuration, Overdue, Step, At, RowsAt
<1>3. "ending" \in Places \ ({"daily", "route"} \cup Uncounted)
  BY DEF Places, Uncounted
<1>4. Goto(c, "ending") /\ UNCHANGED <<row, active>>
  BY DEF WaitEnds, MaxDuration, Step, books
<1>5. QED BY <1>1, <1>2, <1>3, <1>4, PassesOn

LEMMA EndsKeeps ==
  ASSUME IInv, NEW c \in Calls, Complete(c) \/ Failed(c)
  PROVE  IInv'
<1>1. row[c] \in CallStates /\ active[c] \in 0..1 /\ "none" \notin CallStates
  BY RowAt DEF Complete, Failed, Step, At, RowsAt, CallStates
<1>2. Others' /\ UNCHANGED active /\ Goto(c, "closing")
  BY HistoryType, RoomType DEF Complete, Failed, Step, IInv, TypeOK, Others, room, books
<1>3. "closing" \in Places \ ({"daily", "route"} \cup Uncounted) /\ RowsAt("closing") = CallStates
  BY DEF RowsAt, Places, Uncounted
<1>4. CASE UNCHANGED row
  BY <1>1, <1>2, <1>3, <1>4, PassesOn
<1>5. ASSUME NEW state \in {"COMPLETED", "FAILED"}, Moves(c, state) PROVE IInv'
  <2>1. row' = [row EXCEPT ![c] = state] /\ row'[c] = state
    BY <1>5, MovesFits DEF CallStates
  <2>2. OnlyOf(c) /\ pc'[c] = "closing" /\ active'[c] = active[c]
    BY <1>2, <2>1, StepIsOnlyOf
  <2>3. state \in TerminalCallStates /\ state \in CallStates
    BY DEF TerminalCallStates, CallStates
  <2>4. QED BY <1>1, <1>2, <1>3, <2>1, <2>2, <2>3, Keeps1
<1>6. QED BY <1>4, <1>5 DEF Complete, Failed

LEMMA BreaksKeeps ==
  ASSUME IInv, NEW c \in Calls, Fail(c) \/ Cancel(c)
  PROVE  IInv'
<1>1. Others'
  BY HistoryType, RoomType DEF Fail, Cancel, IInv, TypeOK, Others, room, books
<1>2. row[c] \in CallStates
  BY RowAt DEF Fail, Cancel, RowsAt, CallStates
<1>3. PICK there \in {"failing", "closing"} : Goto(c, there) /\ UNCHANGED <<row, active>>
  BY DEF Fail, Cancel, books
<1>4. there \in Places \ ({"daily", "route"} \cup Uncounted) /\ RowsAt(there) = CallStates
  BY <1>3 DEF RowsAt, Places, Uncounted
<1>5. QED BY <1>1, <1>2, <1>3, <1>4, PassesOn

LEMMA CloseKeeps ==
  ASSUME IInv, NEW c \in Calls, Close(c)
  PROVE  IInv'
<1>1. egress' \in [Calls -> {"none", "running", "stopped"}]
  BY DEF Close, StopsRecording, IInv, TypeOK
<1>2. Others'
  BY <1>1, HistoryType, RoomType DEF Close, IInv, TypeOK, Others, room
<1>3. row[c] \in CallStates
  BY RowAt DEF Close, Step, At, RowsAt
<1>4. PICK there \in {"accounting", "done"} : Goto(c, there)
  BY DEF Close, Step
<1>5. there \in Places \ ({"daily", "route"} \cup Uncounted) /\ CallStates \subseteq RowsAt(there)
  BY <1>4 DEF RowsAt, Places, Uncounted
<1>6. UNCHANGED <<row, active>>
  BY DEF Close
<1>7. QED BY <1>2, <1>3, <1>4, <1>5, <1>6, PassesOn

LEMMA AccountKeeps ==
  ASSUME IInv, NEW c \in Calls, Account(c)
  PROVE  IInv'
<1>1. usage' \in [answered : Nat, failed : Nat]
  BY BillType DEF Account, IInv
<1>2. kept' \subseteq Calls
  BY DEF Account, Keeps, IInv, TypeOK
<1>3. Others'
  BY <1>1, <1>2, HistoryType, RoomType DEF Account, IInv, TypeOK, Others, room
<1>4. row[c] \in CallStates /\ active[c] \in 0..1
  BY RowAt DEF Account, Step, At, RowsAt
<1>5. active'[c] \in 0..1 /\ (\E n : active' = [active EXCEPT ![c] = n])
  <2>1. active' = [active EXCEPT ![c] = IF active[c] = 0 THEN 0 ELSE active[c] - 1]
    BY DEF Account, Uncount
  <2>2. active'[c] = IF active[c] = 0 THEN 0 ELSE active[c] - 1
    BY <2>1 DEF IInv, TypeOK
  <2>3. active'[c] \in 0..1
    BY <1>4, <2>2
  <2>4. \E n : active' = [active EXCEPT ![c] = n]
    BY <2>1, Zenon
  <2>5. QED BY <2>3, <2>4
<1>6. Goto(c, "done") /\ UNCHANGED row
  BY DEF Account, Step
<1>7. OnlyOf(c) /\ pc'[c] = "done" /\ row'[c] = row[c]
  BY <1>5, <1>6, StepIsOnlyOf
<1>8. "done" \in Places \ ({"daily", "route"} \cup Uncounted) /\ CallStates \subseteq RowsAt("done")
  BY DEF RowsAt, Places, Uncounted
<1>9. QED BY <1>3, <1>4, <1>5, <1>7, <1>8, Keeps1

LEMMA KillKeeps ==
  ASSUME IInv, NEW c \in Calls, Kill(c)
  PROVE  IInv'
<1>1. Others'
  BY HistoryType, RoomType DEF Kill, IInv, TypeOK, Others, room
<1>2. row[c] \in RowsAt("done")
  BY RowAt DEF RowsAt
<1>3. active'[c] = 0 /\ (\E n : active' = [active EXCEPT ![c] = n])
  BY DEF Kill, IInv, TypeOK
<1>4. Goto(c, "done") /\ UNCHANGED row
  BY DEF Kill
<1>5. OnlyOf(c) /\ pc'[c] = "done" /\ row'[c] = row[c]
  BY <1>3, <1>4, StepIsOnlyOf
<1>6. "done" \in Places \ ({"daily", "route"} \cup Uncounted)
  BY DEF Places, Uncounted
<1>7. QED BY <1>1, <1>2, <1>3, <1>5, <1>6, Keeps1

LEMMA LeavesKeeps ==
  ASSUME IInv, NEW c \in Calls, HangUp(c) \/ HumanLeaves(c)
  PROVE  IInv'
<1>1. noticed' \in [Calls -> BOOLEAN]
  BY DEF HangUp, HumanLeaves, Hears, Listening, At, IInv, TypeOK
<1>2. Others'
  BY <1>1 DEF HangUp, HumanLeaves, IInv, TypeOK, Others, books, history
<1>3. UNCHANGED <<pc, row, active>>
  BY DEF HangUp, HumanLeaves, books
<1>4. QED BY <1>2, <1>3, Keeps0

LEMMA BridgeKeeps ==
  ASSUME IInv, NEW c \in Calls, Bridge(c)
  PROVE  IInv'
<1>1. Others' /\ UNCHANGED <<pc, active>>
  BY DEF Bridge, IInv, TypeOK, Others, books, history
<1>2. pc[c] = "talking" /\ row[c] \in {"IN_PROGRESS", "HUMAN_AGENT"} /\ active[c] \in 0..1
  BY RowAt DEF Bridge, Listening, At, RowsAt
<1>3. row'[c] = "HUMAN_AGENT" /\ row' = [row EXCEPT ![c] = "HUMAN_AGENT"]
  BY DEF Bridge, IInv, TypeOK
<1>4. OnlyOf(c) /\ pc'[c] = "talking" /\ active'[c] = active[c]
  BY <1>1, <1>2, <1>3 DEF OnlyOf, IInv, TypeOK
<1>5. "HUMAN_AGENT" \in RowsAt("talking") /\ "talking" \in Places \ ({"daily", "route"} \cup Uncounted)
  BY DEF RowsAt, Places, Uncounted
<1>6. row[c] # "none" /\ row[c] \notin TerminalCallStates
  BY <1>2 DEF TerminalCallStates
<1>7. QED BY <1>1, <1>2, <1>3, <1>4, <1>5, <1>6, Keeps1

-----------------------------------------------------------------------------
(* How a call leaves the books *)

\* What ClosedClean says of a finished call, and what each place before owes it.
Neat(c) ==
  /\ At(c, "done") => row[c] \in {"COMPLETED", "FAILED", "none"} /\ active[c] = 0
  /\ pc[c] \in {"closing", "accounting"} => row[c] \in {"COMPLETED", "FAILED"}
  /\ egress[c] = "running" => pc[c] \in {"talking", "ending", "failing", "closing"}
  /\ egress[c] = "stopped" => pc[c] \in {"accounting", "done"}
  /\ c \in kept <=> At(c, "done") /\ egress[c] = "stopped"

Ended(state) == {c \in Calls : At(c, "done") /\ row[c] = state}

\* The usage row follows the calls that ended, until one of them lost a step.
Billed ==
  troubled = {} => /\ usage.answered = Cardinality(Ended("COMPLETED"))
                   /\ usage.failed = Cardinality(Ended("FAILED"))

Books == (\A c \in Calls \ troubled : Neat(c)) /\ Billed

SameElsewhere(c) ==
  \A d \in Calls \ {c} :
    /\ pc'[d] = pc[d] /\ row'[d] = row[d] /\ active'[d] = active[d] /\ egress'[d] = egress[d]
    /\ d \in kept' <=> d \in kept

\* Before the first call there is nothing to bill.
LEMMA BooksInit == Init => Books
<1> SUFFICES ASSUME Init PROVE Books
  OBVIOUS
<1>1. \A c \in Calls : Neat(c)
  BY DEF Init, Neat, At
<1>2. Ended("COMPLETED") = {} /\ Ended("FAILED") = {}
  BY DEF Init, Ended, At
<1>3. QED BY <1>1, <1>2, FS_EmptySet DEF Init, Books, Billed

\* A step of one call that is neat, or counted as troubled, and does not end billable.
LEMMA NeatStep ==
  ASSUME IInv, Books, NEW c \in Calls, SameElsewhere(c), Works \/ Raises \/ Loses(c),
         pc[c] # "done",
         c \in troubled' \/ (Neat(c)' /\ UNCHANGED usage /\ (pc'[c] # "done" \/ row'[c] = "none"))
  PROVE  Books'
<1>1. troubled \subseteq troubled'
  BY DEF Works, Raises, Loses, history
<1>2. ASSUME NEW d \in Calls \ troubled' PROVE Neat(d)'
  <2>1. CASE d = c
    BY <2>1
  <2>2. CASE d # c
    <3>1. Neat(d)
      BY <1>1 DEF Books
    <3>2. QED BY <2>2, <3>1 DEF Neat, At, SameElsewhere
  <2>3. QED BY <2>1, <2>2
<1>3. Billed'
  <2>1. SUFFICES ASSUME troubled' = {} PROVE Billed'
    BY DEF Billed
  <2>2. troubled = {} /\ UNCHANGED usage /\ (pc'[c] # "done" \/ row'[c] = "none")
    BY <1>1, <2>1
  <2>3. Ended("COMPLETED")' = Ended("COMPLETED") /\ Ended("FAILED")' = Ended("FAILED")
    BY <2>2 DEF Ended, At, SameElsewhere
  <2>4. QED BY <2>2, <2>3 DEF Books, Billed
<1>4. QED BY <1>2, <1>3 DEF Books

\* A call that never had a row, moved a step, or lost one.
LEMMA NeatPass ==
  ASSUME IInv, Books, NEW c \in Calls, NEW there \in Places, NEW state,
         UNCHANGED books, pc' = [pc EXCEPT ![c] = there], row' = [row EXCEPT ![c] = state],
         Works \/ Raises \/ Loses(c), pc[c] \notin {"accounting", "done"},
         \/ c \in troubled'
         \/ /\ there = "done" => state = "none" /\ active[c] = 0
            /\ there = "closing" => state \in {"COMPLETED", "FAILED"}
            /\ there # "accounting"
            /\ pc[c] \in {"talking", "ending", "failing", "closing"}
                 => there \in {"talking", "ending", "failing", "closing"}
  PROVE  Books'
<1>1. pc'[c] = there /\ row'[c] = state /\ SameElsewhere(c)
  BY DEF IInv, TypeOK, SameElsewhere, books
<1>2. ASSUME c \notin troubled' PROVE Neat(c)'
  <2>1. c \notin troubled
    BY <1>2 DEF Works, Raises, Loses, history
  <2>2. Neat(c)
    BY <2>1 DEF Books
  <2>3. egress' = egress /\ kept' = kept /\ active' = active
    BY DEF books
  <2>4. egress[c] \in {"none", "running", "stopped"}
    BY DEF IInv, TypeOK
  <2>5. QED BY <1>1, <1>2, <2>2, <2>3, <2>4 DEF Neat, At
<1>3. QED BY <1>1, <1>2, NeatStep DEF books

\* A row that stays is a row written with what it says.
LEMMA RowStays ==
  ASSUME IInv, NEW c \in Calls, UNCHANGED row
  PROVE  row' = [row EXCEPT ![c] = row[c]]
BY DEF IInv, TypeOK

\* A call that is not yet, or never, taken.
LEMMA AdmitBooks ==
  ASSUME IInv, Books, NEW c \in Calls, Admit(c)
  PROVE  Books'
<1>1. CASE AwaitCaller(c)
  <2>1. PICK there \in {"concurrent", "done"} : At(c, "awaiting") /\ Goto(c, there)
    BY <1>1 DEF AwaitCaller, Step
  <2>2. row[c] = "none" /\ active[c] = 0
    BY <2>1, RowAt DEF At, RowsAt, Uncounted
  <2>3. UNCHANGED <<row, books>> /\ Works
    BY <1>1 DEF AwaitCaller
  <2>4. QED BY <2>1, <2>2, <2>3, RowStays, NeatPass DEF At, Goto, Places
<1>2. CASE CheckConcurrent(c) \/ CheckDaily(c)
  <2>1. PICK there \in {"daily", "route", "refused"} : Goto(c, there)
    BY <1>2 DEF CheckConcurrent, CheckDaily, Refuse
  <2>2. pc[c] \in {"concurrent", "daily"} /\ UNCHANGED <<row, books>> /\ Works
    BY <1>2 DEF CheckConcurrent, CheckDaily, At
  <2>3. QED BY <2>1, <2>2, RowStays, NeatPass DEF Goto, Places
<1>3. CASE CreateCallRow(c)
  <2>1. PICK there \in {"loading", "refused"}, state \in {"ANSWERED", row[c]} :
          Goto(c, there) /\ row' = [row EXCEPT ![c] = state]
    BY <1>3, RowStays DEF CreateCallRow, Refuse, Answers
  <2>2. pc[c] = "route" /\ UNCHANGED books /\ Works
    BY <1>3 DEF CreateCallRow, At
  <2>3. QED BY <2>1, <2>2, NeatPass DEF Goto, Places
<1>4. CASE Dismiss(c)
  <2>1. At(c, "refused") /\ Goto(c, "done") /\ UNCHANGED <<row, books>> /\ (Works \/ Loses(c))
    BY <1>4 DEF Dismiss, Step
  <2>2. row[c] = "none" /\ active[c] = 0
    BY <2>1, RowAt DEF At, RowsAt, Uncounted
  <2>3. QED BY <2>1, <2>2, RowStays, NeatPass DEF At, Goto, Places
<1>5. CASE Load(c)
  <2>1. /\ pc[c] = "loading" /\ row' = row /\ egress' = egress /\ kept' = kept /\ usage' = usage
        /\ \/ Goto(c, "opening") /\ active' = [active EXCEPT ![c] = @ + 1] /\ Works
           \/ Goto(c, "done") /\ active' = active /\ Loses(c)
    BY <1>5 DEF Load, Step, At
  <2>2. SameElsewhere(c) /\ pc'[c] \in {"opening", "done"}
    BY <2>1 DEF SameElsewhere, Goto, IInv, TypeOK
  <2>3. CASE Goto(c, "done") /\ Loses(c)
    <3>1. c \in troubled'
      BY <2>3 DEF Loses
    <3>2. QED BY <2>1, <2>2, <2>3, <3>1, NeatStep
  <2>4. CASE Goto(c, "opening") /\ Works
    <3>1. pc'[c] = "opening" /\ troubled' = troubled
      BY <2>4 DEF Goto, Works, history, IInv, TypeOK
    <3>2. c \in troubled \/ Neat(c)
      BY DEF Books
    <3>3. c \in troubled' \/ Neat(c)'
      BY <2>1, <3>1, <3>2 DEF Neat, At
    <3>4. QED BY <2>1, <2>2, <2>4, <3>1, <3>3, NeatStep
  <2>5. QED BY <2>1, <2>3, <2>4
<1>6. QED BY <1>1, <1>2, <1>3, <1>4, <1>5 DEF Admit

\* From the greeting to the terminal state.
LEMMA RunBooks ==
  ASSUME IInv, Books, NEW c \in Calls,
         \/ Open(c) \/ Start(c) \/ WaitEnds(c) \/ Complete(c) \/ Failed(c) \/ MaxDuration(c)
         \/ Fail(c) \/ Cancel(c)
  PROVE  Books'
<1>1. CASE Open(c) \/ Start(c)
  <2>1. PICK there \in {"starting", "recording"}, state \in {"AI_CONNECTED", "IN_PROGRESS"} :
          Goto(c, there) /\ row' = [row EXCEPT ![c] = state]
    BY <1>1 DEF Open, Start, Step, Moves
  <2>2. pc[c] \in {"opening", "starting"} /\ UNCHANGED books /\ Works
    BY <1>1 DEF Open, Start, Step, At
  <2>3. QED BY <2>1, <2>2, NeatPass DEF Goto, Places
<1>2. CASE WaitEnds(c) \/ MaxDuration(c)
  <2>1. pc[c] = "talking" /\ Goto(c, "ending") /\ UNCHANGED <<row, books>> /\ (Works \/ Loses(c))
    BY <1>2 DEF WaitEnds, MaxDuration, Overdue, Step, At
  <2>2. QED BY <2>1, RowStays, NeatPass DEF Goto, Places
<1>3. CASE Complete(c) \/ (Failed(c) /\ ~Loses(c))
  <2>1. PICK state \in {"COMPLETED", "FAILED"} : row' = [row EXCEPT ![c] = state]
    BY <1>3 DEF Complete, Failed, Moves
  <2>2. pc[c] \in {"ending", "failing"} /\ Goto(c, "closing") /\ UNCHANGED books /\ Works
    BY <1>3 DEF Complete, Failed, Step, At
  <2>3. QED BY <2>1, <2>2, NeatPass DEF Goto, Places
<1>4. CASE Failed(c) /\ Loses(c)
  <2>1. PICK state \in {"FAILED", row[c]} : row' = [row EXCEPT ![c] = state]
    BY <1>4, RowStays DEF Failed, Moves
  <2>2. pc[c] = "failing" /\ Goto(c, "closing") /\ UNCHANGED books /\ c \in troubled'
    BY <1>4 DEF Failed, Step, At, Loses
  <2>3. QED BY <1>4, <2>1, <2>2, NeatPass DEF Goto, Places
<1>5. CASE Fail(c)
  <2>1. /\ pc[c] \in {"opening", "starting", "recording", "talking", "ending"}
        /\ Goto(c, "failing") /\ UNCHANGED <<row, books>> /\ Raises
    BY <1>5 DEF Fail
  <2>2. QED BY <2>1, RowStays, NeatPass DEF Goto, Places
<1>6. CASE Cancel(c)
  <2>1. /\ pc[c] \in {"opening", "starting", "recording", "talking", "ending", "failing"}
        /\ Goto(c, "closing") /\ UNCHANGED <<row, books>> /\ Loses(c) /\ c \in troubled'
    BY <1>6 DEF Cancel, Loses
  <2>2. QED BY <2>1, RowStays, NeatPass DEF Goto, Places
<1>7. QED BY <1>1, <1>2, <1>3, <1>4, <1>5, <1>6

\* The recording is stopped on the way out, or the call has lost a step.
LEMMA RecordingBooks ==
  ASSUME IInv, Books, NEW c \in Calls, StartRecording(c) \/ Close(c) \/ Kill(c)
  PROVE  Books'
<1>1. c \in troubled \/ Neat(c)
  BY DEF Books
<1>2. egress[c] \in {"none", "running", "stopped"}
  BY DEF IInv, TypeOK
<1>3. CASE StartRecording(c)
  <2>1. /\ pc[c] = "recording" /\ Goto(c, "talking")
        /\ UNCHANGED <<row, kept, active, usage>> /\ (Works \/ Raises)
        /\ egress' = [egress EXCEPT ![c] = "running"] \/ egress' = egress
    BY <1>3 DEF StartRecording, Step, At
  <2>2. /\ SameElsewhere(c) /\ pc'[c] = "talking" /\ troubled' = troubled
        /\ egress'[c] = "running" \/ egress'[c] = egress[c]
    BY <2>1 DEF SameElsewhere, Goto, IInv, TypeOK, Works, Raises, history
  <2>3. c \in troubled' \/ Neat(c)'
    BY <1>1, <1>2, <2>1, <2>2 DEF Neat, At
  <2>4. QED BY <2>1, <2>2, <2>3, NeatStep
<1>4. CASE Close(c) /\ Works
  <2>1. /\ pc[c] = "closing" /\ Goto(c, "accounting") /\ UNCHANGED <<row, kept, active, usage>>
        /\ egress' = [egress EXCEPT ![c] = IF @ = "running" THEN "stopped" ELSE @]
        /\ troubled' = troubled
    BY <1>4 DEF Close, Step, At, StopsRecording, Works, Loses, history, IInv, TypeOK
  <2>2. /\ SameElsewhere(c) /\ pc'[c] = "accounting"
        /\ egress'[c] = IF egress[c] = "running" THEN "stopped" ELSE egress[c]
    BY <2>1 DEF SameElsewhere, Goto, IInv, TypeOK
  <2>3. c \in troubled' \/ Neat(c)'
    BY <1>1, <1>2, <2>1, <2>2 DEF Neat, At
  <2>4. QED BY <1>4, <2>1, <2>2, <2>3, NeatStep
<1>5. CASE (Close(c) \/ Kill(c)) /\ Loses(c)
  <2>1. pc[c] # "done" /\ c \in troubled' /\ UNCHANGED <<row, kept>>
    BY <1>5 DEF Close, Kill, Step, At, Loses
  <2>2. SameElsewhere(c)
    <3>1. \A d \in Calls \ {c} : pc'[d] = pc[d]
      BY <1>5 DEF Close, Kill, Step, Goto, IInv, TypeOK
    <3>2. \A d \in Calls \ {c} : egress'[d] = egress[d]
      BY <1>5 DEF Close, Kill, StopsRecording, IInv, TypeOK
    <3>3. \A d \in Calls \ {c} : active'[d] = active[d]
      BY <1>5 DEF Close, Kill, IInv, TypeOK
    <3>4. QED BY <2>1, <3>1, <3>2, <3>3 DEF SameElsewhere
  <2>3. QED BY <1>5, <2>1, <2>2, NeatStep
<1>6. QED BY <1>3, <1>4, <1>5 DEF Close, Kill

\* One more call has ended, and the usage row has it.
LEMMA AccountBooks ==
  ASSUME IInv, Books, NEW c \in Calls, Account(c)
  PROVE  Books'
<1>1. /\ pc[c] = "accounting" /\ Goto(c, "done") /\ UNCHANGED <<row, egress>> /\ Uncount(c)
      /\ Keeps(c) \/ UNCHANGED kept
  BY DEF Account, Step, At
<1>2. /\ SameElsewhere(c) /\ pc'[c] = "done"
      /\ \A d \in Calls : pc'[d] = IF d = c THEN "done" ELSE pc[d]
  <2>1. \A d \in Calls \ {c} : d \in kept' <=> d \in kept
    BY <1>1 DEF Keeps
  <2>2. QED BY <1>1, <2>1 DEF SameElsewhere, Goto, Uncount, IInv, TypeOK
<1>3. CASE Loses(c)
  <2>1. c \in troubled'
    BY <1>3 DEF Loses
  <2>2. QED BY <1>1, <1>2, <1>3, <2>1, NeatStep
<1>4. CASE Works /\ Bill(c) /\ Keeps(c)
  <2>1. troubled' = troubled
    BY <1>4 DEF Works, history
  <2>2. active'[c] = 0
    <3>1. active[c] \in 0..1 /\ active'[c] = IF active[c] = 0 THEN 0 ELSE active[c] - 1
      BY <1>1 DEF Uncount, IInv, TypeOK
    <3>2. QED BY <3>1
  <2>3. ASSUME c \notin troubled PROVE Neat(c)' /\ row[c] \in {"COMPLETED", "FAILED"}
    <3>1. Neat(c) /\ egress[c] \in {"none", "running", "stopped"}
      BY <2>3 DEF Books, IInv, TypeOK
    <3>2. c \in kept' <=> egress[c] = "stopped"
      BY <1>1, <1>4, <3>1 DEF Keeps, Neat, At
    <3>3. QED BY <1>1, <1>2, <2>2, <3>1, <3>2 DEF Neat, At
  <2>4. ASSUME NEW d \in Calls \ troubled' PROVE Neat(d)'
    <3>1. CASE d = c
      BY <2>1, <2>3, <3>1
    <3>2. CASE d # c
      <4>1. Neat(d)
        BY <2>1 DEF Books
      <4>2. QED BY <1>2, <3>2, <4>1 DEF Neat, At, SameElsewhere
    <3>3. QED BY <3>1, <3>2
  <2>5. Billed'
    <3>1. SUFFICES ASSUME troubled = {} PROVE Billed'
      BY <2>1 DEF Billed
    <3>2. /\ row[c] \in {"COMPLETED", "FAILED"} /\ c \notin Ended("COMPLETED") /\ c \notin Ended("FAILED")
          /\ usage.answered = Cardinality(Ended("COMPLETED"))
          /\ usage.failed = Cardinality(Ended("FAILED"))
          /\ usage \in [answered : Nat, failed : Nat]
      BY <1>1, <2>3, <3>1 DEF Ended, At, Books, Billed, IInv, TypeOK
    <3>3. IsFiniteSet(Ended("COMPLETED")) /\ IsFiniteSet(Ended("FAILED"))
      <4>1. Ended("COMPLETED") \subseteq Calls /\ Ended("FAILED") \subseteq Calls
        BY DEF Ended
      <4>2. QED BY <4>1, FS_Subset
    <3>4. CASE row[c] = "COMPLETED"
      <4>1. Ended("COMPLETED")' = Ended("COMPLETED") \cup {c} /\ Ended("FAILED")' = Ended("FAILED")
        BY <1>1, <1>2, <3>4 DEF Ended, At
      <4>2. usage' = [usage EXCEPT !.answered = @ + 1]
        BY <1>4, <3>4 DEF Bill
      <4>3. Cardinality(Ended("COMPLETED") \cup {c}) = Cardinality(Ended("COMPLETED")) + 1
        BY <3>2, <3>3, FS_AddElement
      <4>4. QED BY <3>2, <4>1, <4>2, <4>3 DEF Billed
    <3>5. CASE row[c] = "FAILED"
      <4>1. Ended("FAILED")' = Ended("FAILED") \cup {c} /\ Ended("COMPLETED")' = Ended("COMPLETED")
        BY <1>1, <1>2, <3>5 DEF Ended, At
      <4>2. usage' = [usage EXCEPT !.failed = @ + 1]
        BY <1>4, <3>5 DEF Bill
      <4>3. Cardinality(Ended("FAILED") \cup {c}) = Cardinality(Ended("FAILED")) + 1
        BY <3>2, <3>3, FS_AddElement
      <4>4. QED BY <3>2, <4>1, <4>2, <4>3 DEF Billed
    <3>6. QED BY <3>2, <3>4, <3>5
  <2>6. QED BY <2>4, <2>5 DEF Books
<1>5. QED BY <1>3, <1>4 DEF Account

\* People come and go; only the bridge writes a row, of a call that is talking.
LEMMA WorldBooks ==
  ASSUME IInv, Books, NEW c \in Calls, World(c)
  PROVE  Books'
<1>1. CASE HangUp(c) \/ HumanLeaves(c)
  <2>1. UNCHANGED <<pc, row, books, history>>
    BY <1>1 DEF HangUp, HumanLeaves
  <2>2. QED BY <2>1 DEF Books, Billed, Ended, Neat, At, books, history
<1>2. CASE Bridge(c)
  <2>1. /\ pc[c] = "talking" /\ UNCHANGED books /\ Works
        /\ row' = [row EXCEPT ![c] = "HUMAN_AGENT"] /\ pc' = [pc EXCEPT ![c] = "talking"]
    BY <1>2 DEF Bridge, Listening, At, Works, IInv, TypeOK
  <2>2. QED BY <2>1, NeatPass DEF Places
<1>3. QED BY <1>1, <1>2 DEF World

LEMMA NextBooks == IInv /\ Books /\ [Next]_vars => Books'
<1> SUFFICES ASSUME IInv, Books, [Next]_vars PROVE Books'
  OBVIOUS
<1>1. CASE UNCHANGED vars
  BY <1>1 DEF vars, Books, Billed, Ended, Neat, At
<1>2. ASSUME NEW c \in Calls, Admit(c) \/ Run(c) \/ MaxDuration(c) \/ Breaks(c) \/ World(c)
      PROVE  Books'
  BY <1>2, AdmitBooks, RunBooks, RecordingBooks, AccountBooks, WorldBooks DEF Run, Breaks
<1>3. QED BY <1>1, <1>2 DEF Next

-----------------------------------------------------------------------------
(* Theorems *)

LEMMA InitHolds == Init => IInv
<1> SUFFICES ASSUME Init PROVE IInv
  OBVIOUS
<1>1. TypeOK
  BY DEF Init, TypeOK, Places
<1>2. RowsFit /\ CountsFit
  BY DEF Init, RowsFit, CountsFit, RowsAt
<1>3. Passed = {} /\ Active = {} /\ Stored = {} /\ Routed = {}
  BY DEF Init, Passed, Active, Stored, Routed, At
<1>4. Bounds
  BY <1>3, FS_EmptySet DEF Bounds
<1>5. QED BY <1>1, <1>2, <1>4 DEF IInv

LEMMA NextKeeps == IInv /\ [Next]_vars => IInv'
<1> SUFFICES ASSUME IInv, [Next]_vars PROVE IInv'
  OBVIOUS
<1>1. CASE UNCHANGED vars
  <2>1. Others' /\ UNCHANGED <<pc, row, active>>
    BY <1>1 DEF vars, IInv, TypeOK, Others
  <2>2. QED BY <2>1, Keeps0
<1>2. ASSUME NEW c \in Calls, Admit(c) PROVE IInv'
  BY <1>2, AwaitCallerKeeps, CheckConcurrentKeeps, CheckDailyKeeps, CreateCallRowKeeps,
     DismissKeeps, LoadKeeps DEF Admit
<1>3. ASSUME NEW c \in Calls, Run(c) PROVE IInv'
  BY <1>3, OpenKeeps, StartKeeps, StartRecordingKeeps, WaitOverKeeps, EndsKeeps,
     CloseKeeps, AccountKeeps DEF Run
<1>4. ASSUME NEW c \in Calls, MaxDuration(c) \/ Breaks(c) PROVE IInv'
  BY <1>4, WaitOverKeeps, BreaksKeeps, KillKeeps DEF Breaks
<1>5. ASSUME NEW c \in Calls, World(c) PROVE IInv'
  BY <1>5, LeavesKeeps, BridgeKeeps DEF World
<1>6. QED BY <1>1, <1>2, <1>3, <1>4, <1>5 DEF Next

LEMMA Invariant == Spec => []IInv
<1>1. QED BY InitHolds, NextKeeps, PTL DEF Spec

\* Every variable keeps to its type and no process counts its call twice or below zero,
\* for every number of calls and faults.
THEOREM CallTypes == Spec => []TypeOK
<1>1. IInv => TypeOK
  BY DEF IInv
<1>2. QED BY <1>1, Invariant, PTL

\* However many calls arrive, whatever fails and whichever process is killed, the tenant's
\* limits are overshot by fewer calls than were between check and insert at once.
THEOREM LimitsOvershootBounded == Spec => []OvershootBounded
<1>1. IInv => OvershootBounded
  BY FiniteParts DEF IInv, Bounds, OvershootBounded
<1>2. QED BY <1>1, Invariant, PTL

\* A call that took its steps leaves a row in a terminal state, its recording stopped and
\* kept, and a process that counts no call; and while no call lost a step the day's usage
\* has each of them once, by its outcome (_run_call's finally block; spec 47, 61).
THEOREM CallsLeaveClean == Spec => []ClosedClean
<1>1. IInv /\ Books => ClosedClean
  <2> SUFFICES ASSUME Books PROVE ClosedClean
    OBVIOUS
  <2>1. ASSUME NEW c \in Calls \ troubled, At(c, "done")
        PROVE  /\ c \notin Active /\ egress[c] # "running"
               /\ (c \in kept <=> egress[c] = "stopped") /\ active[c] = 0
    <3>1. Neat(c)
      BY DEF Books
    <3>2. QED BY <2>1, <3>1 DEF Neat, At, Active, Stored, TerminalCallStates
  <2>2. QED BY <2>1 DEF Books, Billed, Ended, ClosedClean
<1>2. Init => Books
  BY BooksInit
<1>3. IInv /\ Books /\ [Next]_vars => Books'
  BY NextBooks
<1>4. QED BY <1>1, <1>2, <1>3, InitHolds, NextKeeps, PTL DEF Spec
=============================================================================
