---------------------------- MODULE AgentVersions ----------------------------
(***************************************************************************)
(* One agent and its numbered configurations                                *)
(* (configuration-api/app/api/v1/agents.py), the phone number it answers,   *)
(* and a call that loads what is published (worker/config_loader.py).       *)
(* A request is a transaction at READ COMMITTED: it reads, validates, and   *)
(* commits the columns it changed; between the two others commit.           *)
(***************************************************************************)
EXTENDS Naturals, Sequences, FiniteSets

CONSTANTS
  Requests,     \* requests that may be open at once
  MaxVersions   \* bound: versions of the agent

ASSUME VersionsAssumption == IsFiniteSet(Requests) /\ MaxVersions \in Nat \ {0}

VARIABLES
  versions,   \* agent_versions of the agent, by version_number
  live,       \* agents.published_version_id; 0 is NULL
  exists,     \* the agent's row is there
  did,        \* how the phone number reaches the agent: "none", "direct", "rule"
  request,
  call,       \* a call of the worker
  calm        \* history: no two requests were open at once

rows == <<versions, live, exists, did>>
vars == <<versions, live, exists, did, request, call, calm>>

\* Of a configuration: one column that must not be empty, and the tool grants.
Contents == [prompt : {"empty", "ready"}, tools : {"none", "some"}]
Version(state, content) == [state |-> state, content |-> content]

Changes == [column : {"prompt"}, value : {"empty", "ready"}]
             \cup [column : {"tools"}, value : {"none", "some"}]

NoRequest == [pc |-> "idle", n |-> 0, new |-> FALSE, content |-> [prompt |-> "empty", tools |-> "none"],
              change |-> [column |-> "prompt", value |-> "empty"], old |-> 0,
              was |-> "DRAFT"]
NoCall == [pc |-> "none", n |-> 0, prompt |-> "empty", tools |-> "none"]

\* create_agent: the agent comes with an empty first draft.
Init ==
  /\ versions = <<Version("DRAFT", NoRequest.content)>>
  /\ live = 0 /\ exists = TRUE
  /\ did = "none"
  /\ request = [r \in Requests |-> NoRequest]
  /\ call = NoCall
  /\ calm = TRUE

Busy(r) == request[r].pc # "idle"
Latest == Len(versions)
IsDraft(n) == versions[n].state = "DRAFT"
Drafts == {n \in 1..Latest : IsDraft(n)}
Published == {n \in 1..Latest : versions[n].state = "PUBLISHED"}

\* _validate_version, on what is committed at this moment.  Providers, credentials, tools
\* and voices can refuse a version at any time; a refusal leaves everything as it is.
Publishable(n) == versions[n].content.prompt # "empty"

Opens(r, fields) ==
  /\ ~Busy(r) /\ exists
  /\ request' = [request EXCEPT ![r] = fields]
  /\ calm' = (calm /\ \A q \in Requests : ~Busy(q))
  /\ UNCHANGED <<rows, call>>

Ends(r) == request' = [request EXCEPT ![r] = NoRequest]
Aborts(r) == Ends(r) /\ UNCHANGED rows

-----------------------------------------------------------------------------
(* save_draft *)

\* Mutant: whatever is newest is the draft.
EditsLatest(r, change) ==
  exists /\ Opens(r, [NoRequest EXCEPT !.pc = "save", !.n = Latest, !.change = change,
                             !.content[change.column] = versions[Latest].content[change.column]])

\* _editable_draft: the newest version if it is a draft, or else a copy of it, one up.
SaveDraft(r, change) ==
  /\ exists
  /\ IF IsDraft(Latest)
     THEN Opens(r, [NoRequest EXCEPT !.pc = "save", !.n = Latest, !.change = change,
                                     !.content[change.column] = versions[Latest].content[change.column]])
     ELSE /\ Latest < MaxVersions
          /\ Opens(r, [NoRequest EXCEPT !.pc = "insert", !.n = Latest + 1, !.new = TRUE,
                                        !.change = change,
                                        !.content = versions[Latest].content])

\* Mutant: the number is unique only in the code that counts it.
NeverTaken(n) == FALSE

\* uq_agent_versions_agent_version: a number is taken by the first to insert it; a second
\* insert waits for the end of the first one's transaction.
Taken(n) == n <= Latest
Awaited(r, n) == \E q \in Requests \ {r} : request[q].new /\ request[q].pc = "save" /\ request[q].n = n

\* The flush of the new draft, then _copy_tool_grants.
Insert(r) ==
  LET n == request[r].n IN
  /\ request[r].pc = "insert"
  /\ ~Awaited(r, n)
  /\ IF Taken(n) \/ ~exists
     THEN Ends(r)
     ELSE request' = [request EXCEPT ![r].pc = "save",
                                     ![r].content.tools = versions[n - 1].content.tools]
  /\ UNCHANGED <<rows, call, calm>>

\* The commit writes a new draft whole, and of an old one what the payload changed.
Save(r) ==
  LET n == request[r].n
      change == request[r].change
      changed == [request[r].content EXCEPT ![change.column] = change.value]
  IN
  /\ request[r].pc = "save"
  /\ IF ~exists THEN Aborts(r)
     ELSE /\ versions' =
               IF request[r].new THEN Append(versions, Version("DRAFT", changed))
               ELSE IF changed[change.column] = request[r].content[change.column] THEN versions
               ELSE [versions EXCEPT ![n].content[change.column] = change.value]
          /\ Ends(r)
          /\ UNCHANGED <<live, exists, did>>
  /\ UNCHANGED <<call, calm>>

-----------------------------------------------------------------------------
(* publish_agent and rollback_agent *)

Publishes(n) ==
  [NoRequest EXCEPT !.pc = "publish", !.n = n, !.was = versions[n].state,
     !.old = IF live # 0 /\ versions[live].state = "PUBLISHED" THEN live ELSE 0]

\* Mutant: a rollback trusts the validation of long ago.
RollbackUnchecked(r, n) ==
  /\ n # live
  /\ Opens(r, Publishes(n))

\* The newest draft, if validation finds nothing wrong.
Publish(r) ==
  \E n \in Drafts :
    /\ \A m \in Drafts : m <= n
    /\ Publishable(n)
    /\ Opens(r, Publishes(n))

\* Any version but the published one, validated again.
Rollback(r, n) ==
  /\ n # live
  /\ Publishable(n)
  /\ Opens(r, Publishes(n))

\* Mutant: the version being replaced keeps its state.
KeepOld(states, old) == states

Archive(states, old) == IF old = 0 THEN states ELSE [states EXCEPT ![old].state = "ARCHIVED"]

\* The commit: the version that was live when the request read it is archived, the new one
\* becomes PUBLISHED; an attribute set to the value it was read with is not written.
Activate(r) ==
  /\ request[r].pc = "publish"
  /\ IF ~exists THEN Aborts(r)
     ELSE /\ versions' = [Archive(versions, request[r].old)
                            EXCEPT ![request[r].n].state =
                                     IF request[r].was = "PUBLISHED" THEN @ ELSE "PUBLISHED"]
          /\ live' = request[r].n
          /\ Ends(r)
          /\ UNCHANGED <<exists, did>>
  /\ UNCHANGED <<call, calm>>

-----------------------------------------------------------------------------
(* delete_agent and the number *)

\* Refused while a number has the agent as its inbound agent.
Delete(r) == did # "direct" /\ Opens(r, [NoRequest EXCEPT !.pc = "delete"])

\* Foreign keys: the versions go, inbound_agent_id becomes NULL, a routing rule goes and
\* the number's routing_rule_id becomes NULL.
Remove(r) ==
  /\ request[r].pc = "delete"
  /\ exists' = FALSE /\ live' = 0 /\ did' = "none" /\ versions' = <<>>
  /\ Ends(r)
  /\ UNCHANGED <<call, calm>>

\* update_number, and the rules of routing.py.
Route(d) ==
  /\ exists /\ d # did
  /\ did' = d
  /\ calm' = (calm /\ \A r \in Requests : ~Busy(r))
  /\ UNCHANGED <<versions, live, exists, request, call>>

-----------------------------------------------------------------------------
(* A call: _RESOLVE_SQL or _AGENT_SQL, _VERSION_SQL, and, after the call's row, _TOOLS_SQL. *)

Resolve ==
  /\ call.pc = "none" /\ did # "none" /\ live # 0
  /\ call' = [NoCall EXCEPT !.pc = "version", !.n = live]
  /\ UNCHANGED <<rows, request, calm>>

LoadVersion ==
  /\ call.pc = "version"
  /\ call' = IF exists THEN [call EXCEPT !.pc = "tools", !.prompt = versions[call.n].content.prompt]
                       ELSE NoCall
  /\ UNCHANGED <<rows, request, calm>>

\* Mutant: the tools of what is published by now.
LoadToolsOfLive ==
  /\ call.pc = "tools"
  /\ call' = [call EXCEPT !.pc = "talking",
                          !.tools = IF live # 0 THEN versions[live].content.tools ELSE "none"]
  /\ UNCHANGED <<rows, request, calm>>

LoadTools ==
  /\ call.pc = "tools"
  /\ call' = [call EXCEPT !.pc = "talking",
                          !.tools = IF exists THEN versions[call.n].content.tools ELSE "none"]
  /\ UNCHANGED <<rows, request, calm>>

HangUp ==
  /\ call.pc = "talking"
  /\ call' = NoCall
  /\ UNCHANGED <<rows, request, calm>>

Next ==
  \/ \E r \in Requests :
       \/ \E change \in Changes : SaveDraft(r, change)
       \/ Insert(r) \/ Save(r)
       \/ Publish(r) \/ Activate(r)
       \/ \E n \in 1..Latest : Rollback(r, n)
       \/ Delete(r) \/ Remove(r)
  \/ \E d \in {"none", "direct", "rule"} : Route(d)
  \/ Resolve \/ LoadVersion \/ LoadTools \/ HangUp

Spec == Init /\ [][Next]_vars

-----------------------------------------------------------------------------
(* Properties *)

States == {"DRAFT", "PUBLISHED", "ARCHIVED"}

\* Every field keeps to its type, and the pointer is NULL or names a version.
TypeOK ==
  /\ versions \in Seq([state : States, content : Contents])
  /\ Latest \in (IF exists THEN 1 ELSE 0)..MaxVersions
  /\ live \in 0..Latest
  /\ exists \in BOOLEAN /\ calm \in BOOLEAN
  /\ did \in {"none", "direct", "rule"}

\* _editable_draft and the unique version number: whatever requests race, an agent has at
\* most one draft, and nothing is newer than it.
OneDraft == \A n \in Drafts : n = Latest

\* publish_agent, "exactly one PUBLISHED version per agent at any time": so it is while
\* requests do not race, and the pointer names it.  When they race a version can stay
\* PUBLISHED beside it, or the pointer name an ARCHIVED one; never does it name a draft.
LiveIsPublished ==
  /\ live # 0 => ~IsDraft(live)
  /\ calm /\ exists => Published = {live} \ {0}

\* AgentVersion, "an immutable snapshot": without a race no version that was ever
\* published is written again.
PublishedImmutable ==
  [][calm' /\ exists' => \A n \in 1..Latest : ~IsDraft(n) => versions'[n].content = versions[n].content]_vars

\* "Spec 63 forbids an invalid configuration becoming production-active": what is made live
\* is complete at that moment.
NothingInvalidGoesLive ==
  [][calm' /\ live' # live /\ live' # 0 => versions'[live'].content.prompt # "empty"]_vars

\* CallContext, "resolved once": a call speaks with the prompt and the tools of one
\* published version, though it loads them in steps between which others are published.
CallIsOneVersion ==
  calm /\ exists /\ call.pc = "talking" =>
    [prompt |-> call.prompt, tools |-> call.tools] = versions[call.n].content

\* What the versions of an agent keep at every moment.
VersionsSound == TypeOK /\ OneDraft /\ LiveIsPublished
=============================================================================
