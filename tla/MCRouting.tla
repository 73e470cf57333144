----------------------------- MODULE MCRouting -----------------------------
(* A small instance of Routing for TLC. *)
EXTENDS Routing, TLC

CONSTANTS h1, h2, daytime, night, q1, q2

Ahead == [z \in {"UTC", "Asia/Dhaka"} |-> IF z = "UTC" THEN 0 ELSE 1]

Rule(priority, conditions, schedule) ==
  [priority |-> priority, conditions |-> conditions, agent |-> daytime, hours |-> schedule,
   fallback |-> None, spare |-> None, closed |-> None, status |-> "ACTIVE"]

\* A rule open by day with a secondary at night, one for a known caller, a catch-all
\* without an agent, and a disabled rule that falls back.
Submitted ==
  {[Rule(1, {"did"}, h1) EXCEPT !.closed = "SECONDARY_AGENT", !.spare = night],
   Rule(1, {"did", "caller_number"}, h2),
   [Rule(1, {"campaign"}, None) EXCEPT !.agent = None],
   [Rule(2, {}, None) EXCEPT !.fallback = "SECONDARY_AGENT", !.spare = night,
                            !.status = "DISABLED"]}

Fields == {{"hours"}, {"status"}, {"agent", "spare"}}

Morning == {[day |-> 0, opens |-> 0, closes |-> 1]}
Evening == {[day |-> 0, opens |-> 1, closes |-> 2]}

Schedule(zone, week) == [zone |-> zone, holidays |-> <<>>, week |-> week]
Started(r, h, pin) == [rules |-> r, hours |-> h, number |-> [pin |-> pin, agent |-> night]]

\* Nothing yet; one rule, pinned or not, and two schedules; two rules.
Tenants ==
  LET byDay  == [Rule(1, {"did"}, h1) EXCEPT !.closed = "SECONDARY_AGENT", !.spare = night]
      either == [h \in {h1, h2} |-> Schedule(IF h = h1 THEN None ELSE "Asia/Dhaka", Morning)]
  IN  {Started(<<>>, <<>>, 0)}
      \cup {Started(<<byDay>>, either, pin) : pin \in {0, 1}}
      \cup {Started(<<Rule(1, {}, None), [byDay EXCEPT !.closed = None]>>, either, 0)}

Plans      == {Morning, Evening}
OneHoliday == {<<>>, [d \in {0} |-> "closed"]}
Interchangeable == Permutations({q1, q2})
=============================================================================
