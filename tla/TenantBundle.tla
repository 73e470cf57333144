----------------------------- MODULE TenantBundle -----------------------------
(***************************************************************************)
(* A tenant's configuration as it is edited, exported to a bundle,         *)
(* imported from one (services/tenant_impex.py) and seeded                 *)
(* (services/seed.py, cli.py), while the catalogue and the knowledge base  *)
(* it names change.  One agent, one tool, one schedule, one routing rule,  *)
(* each under the name the seeding gives it.  The races of the routes that *)
(* edit versions and schedules are the subject of AgentVersions and        *)
(* Routing; here those routes are single steps.                            *)
(***************************************************************************)
EXTENDS Knowledge

CONSTANTS
  Submitted,    \* contents a tenant saves
  MaxVersions,  \* bound: versions of the agent
  Scenarios     \* bound: what is in the database, and which requests come

Content(model, kb, grant) == [model |-> model, kb |-> kb, grant |-> grant]

\* Rows, and the file an export writes: it names rows, and carries no id.
Contents   == [model : Entries \cup {None}, kb : BOOLEAN, grant : BOOLEAN]
VersionRow == [state : {"DRAFT", "PUBLISHED", "ARCHIVED"}, model : Entries \cup {None},
               kb : BOOLEAN, grant : BOOLEAN]
AgentRow   == [id : Ids, live : Nat, routed : BOOLEAN]
ToolRow    == [id : Ids, secret : BOOLEAN]
HoursRow   == [id : Ids]
RuleRow    == [agent : BOOLEAN, hours : BOOLEAN, priority : Nat]
BaseEntry  == [model : Spaces \cup {None}]
BundleFile == [agent : BOOLEAN, versions : Seq(Contents), tool : BOOLEAN, hours : BOOLEAN,
               base : BaseEntry \cup {None}, rule : RuleRow \cup {None}]

ASSUME BundleAssumption ==
  /\ Submitted \subseteq Contents /\ MaxVersions \in Nat
  /\ None \notin AgentRow \cup ToolRow \cup HoursRow \cup RuleRow \cup BaseEntry \cup BundleFile
  /\ \A s \in Scenarios : /\ {s.kb, s.routed, s.hours} \subseteq BOOLEAN
                          /\ s.priority \in Nat /\ s.model \in Spaces \cup {None}

VARIABLES
  agent,    \* the Agent row: its id, the number of its published version, whether a DID routes to it
  tool,     \* the Tool row: its id, and whether it holds a secret
  hours,    \* the BusinessHours row
  rule,     \* the RoutingRule row
  bundle    \* the file of the last export

tenant == <<agent, tool, hours, rule>>
vars   == <<catalogue, versions, req, work, knowledge, tenant, bundle>>

Version(state, c) == [state |-> state, model |-> c.model, kb |-> c.kb, grant |-> c.grant]

Newest == Len(versions)

\* What a row refers to must be there when it is written.
Referable(c, models, t, b) ==
  /\ c.model # None => Same(models[c.model], entry[c.model]) /\ entry[c.model] # None
  /\ c.kb    => Same(b, base) /\ base # None
  /\ c.grant => Same(t, tool) /\ tool # None

(* ------------------------------- editing ------------------------------- *)

\* save_draft: the references are validated when the request begins.
BeginSave(r, c) ==
  /\ agent # None /\ Newest > 0
  /\ Referable(c, entry, tool, base)
  /\ Enter(r, "saving", c, [agent |-> agent, number |-> Newest, draft |-> versions[Newest].state = "DRAFT",
                            models |-> entry, tool |-> tool, base |-> base])
  /\ UNCHANGED <<catalogue, versions, knowledge, tenant, bundle>>

\* The newest version if it was a draft, or else a new one that nobody numbered meanwhile.
Savable(r) ==
  LET s == req[r].seen IN
  /\ Same(s.agent, agent)
  /\ s.draft \/ (Newest = s.number /\ Newest < MaxVersions)
  /\ Referable(req[r].arg, s.models, s.tool, s.base)

Save(r) ==
  /\ At(r, "saving")
  /\ IF Savable(r)
     THEN /\ Commits(r)
          /\ versions' = IF req[r].seen.draft
                         THEN [versions EXCEPT ![req[r].seen.number] = Version(@.state, req[r].arg)]
                         ELSE Append(versions, Version("DRAFT", req[r].arg))
     ELSE Rolls(r) /\ UNCHANGED versions
  /\ UNCHANGED <<catalogue, knowledge, tenant, bundle>>

\* publish_agent: the newest draft goes live, the version it replaces is archived.
Publish(r) ==
  /\ agent # None /\ Newest > 0 /\ versions[Newest].state = "DRAFT"
  /\ Handles(r, "publishing")
  /\ versions' = [n \in DOMAIN versions |->
                    CASE n = Newest     -> [versions[n] EXCEPT !.state = "PUBLISHED"]
                      [] n = agent.live -> [versions[n] EXCEPT !.state = "ARCHIVED"]
                      [] OTHER          -> versions[n]]
  /\ agent' = [agent EXCEPT !.live = Newest]
  /\ UNCHANGED <<catalogue, knowledge, tool, hours, rule, bundle>>

\* delete_agent: refused while a number routes to it; its versions and rules go with it.
DeleteAgent(r) ==
  /\ agent # None /\ ~agent.routed /\ Handles(r, "dismissing")
  /\ agent' = None /\ versions' = <<>>
  /\ rule' = IF rule # None /\ rule.agent THEN None ELSE rule
  /\ UNCHANGED <<catalogue, knowledge, tool, hours, bundle>>

\* update_number: the number goes to another agent.
Reroute(r) ==
  /\ agent # None /\ agent.routed /\ Handles(r, "dismissing")
  /\ agent' = [agent EXCEPT !.routed = FALSE]
  /\ UNCHANGED <<catalogue, versions, knowledge, tool, hours, rule, bundle>>

\* create_tool.
CreateTool(r, secret) ==
  /\ tool = None /\ Handles(r, "tooling")
  /\ tool' = [id |-> r, secret |-> secret]
  /\ UNCHANGED <<catalogue, versions, knowledge, agent, hours, rule, bundle>>

\* update_tool.
UpdateTool(r) ==
  /\ tool # None /\ Handles(r, "retooling")
  /\ tool' = [tool EXCEPT !.secret = TRUE]
  /\ UNCHANGED <<catalogue, versions, knowledge, agent, hours, rule, bundle>>

\* Mutant: the grants are not counted.
BeginDeleteAnyTool(r) ==
  /\ tool # None
  /\ Enter(r, "untooling", None, tool)
  /\ UNCHANGED <<catalogue, versions, knowledge, tenant, bundle>>

\* delete_tool: refused while a version grants it; a grant given after the count goes too.
BeginDeleteTool(r) ==
  /\ tool # None /\ \A n \in DOMAIN versions : ~versions[n].grant
  /\ Enter(r, "untooling", None, tool)
  /\ UNCHANGED <<catalogue, versions, knowledge, tenant, bundle>>

DeleteTool(r) ==
  /\ At(r, "untooling") /\ Commits(r)
  /\ IF Same(req[r].seen, tool)
     THEN tool' = None /\ versions' = [n \in DOMAIN versions |-> [versions[n] EXCEPT !.grant = FALSE]]
     ELSE UNCHANGED <<tool, versions>>
  /\ UNCHANGED <<catalogue, knowledge, agent, hours, rule, bundle>>

\* The routes of api/v1/routing.py, as far as a bundle can tell.
CreateHours(r) ==
  /\ hours = None /\ Handles(r, "routing")
  /\ hours' = [id |-> r]
  /\ UNCHANGED <<catalogue, versions, knowledge, agent, tool, rule, bundle>>

DeleteHours(r) ==
  /\ hours # None /\ (rule # None => ~rule.hours) /\ Handles(r, "routing")
  /\ hours' = None
  /\ UNCHANGED <<catalogue, versions, knowledge, agent, tool, rule, bundle>>

UpdateRule(r, new) ==
  /\ rule # None /\ new # rule /\ Handles(r, "routing")
  /\ new # None => (new.agent => agent # None) /\ (new.hours => hours # None)
  /\ rule' = new
  /\ UNCHANGED <<catalogue, versions, knowledge, agent, tool, hours, bundle>>

(* --------------------------- export and import -------------------------- *)

Scheduled(agents, scheduled, priority) == [agent |-> agents, hours |-> scheduled, priority |-> priority]

\* export_tenant reads table after table: the names first, what refers to them later.
BeginExport(r) ==
  /\ Enter(r, "exporting", None, [entry |-> entry, agent |-> agent, tool |-> tool, hours |-> hours])
  /\ UNCHANGED <<catalogue, versions, knowledge, tenant, bundle>>

\* A row is exported by its name, if the name was read.
Name(m, seen) == IF m # None /\ Same(seen[m], entry[m]) THEN m ELSE None

Exported(seen) ==
  LET known == seen.agent # None /\ Same(seen.agent, agent) IN
  [agent    |-> seen.agent # None,
   versions |-> IF ~known THEN <<>>
                ELSE [n \in DOMAIN versions |->
                        Content(Name(versions[n].model, seen.entry), versions[n].kb, versions[n].grant)],
   tool     |-> seen.tool # None,
   hours    |-> seen.hours # None,
   base     |-> IF base = None THEN None ELSE [model |-> base.model],
   rule     |-> IF rule = None THEN None
                ELSE Scheduled(rule.agent /\ known, rule.hours /\ Same(seen.hours, hours), rule.priority)]

Export(r) ==
  /\ At(r, "exporting")
  /\ bundle' = Exported(req[r].seen)
  /\ req' = [req EXCEPT ![r] = State("done")]
  /\ UNCHANGED <<catalogue, versions, knowledge, tenant>>

\* import_tenant: the catalogue, the tool and the newest number are read before they are used.
BeginImport(r) ==
  /\ bundle # None
  /\ Enter(r, "importing", bundle, [entry |-> entry, agent |-> agent, tool |-> tool, number |-> Newest])
  /\ UNCHANGED <<catalogue, versions, knowledge, tenant, bundle>>

\* _apply_tiers: a model the catalogue of this environment does not have is left out.
Resolved(c, b, seen) ==
  Content(IF c.model # None /\ seen.entry[c.model] # None THEN c.model ELSE None,
          c.kb, c.grant /\ b.tool)

\* Neither a unique constraint nor a foreign key stands against what the import writes.
Importable(b, seen) ==
  /\ b.tool /\ seen.tool = None => tool = None
  /\ b.agent => Same(seen.agent, agent) /\ Newest = seen.number
  /\ Newest + Len(b.versions) <= MaxVersions
  /\ \A i \in DOMAIN b.versions :
       LET c == Resolved(b.versions[i], b, seen) IN
         /\ c.model # None => Same(seen.entry[c.model], entry[c.model])
         /\ c.grant /\ seen.tool # None => Same(seen.tool, tool)

\* _import_tools, _import_hours, _import_knowledge: what is there is overwritten in place.
ImportTool(r, b, seen) ==
  tool' = IF b.tool /\ seen.tool = None THEN [id |-> r, secret |-> FALSE] ELSE tool

ImportHours(r, b) == hours' = IF b.hours /\ hours = None THEN [id |-> r] ELSE hours

ImportBase(r, b) ==
  base' = IF b.base = None THEN base
          ELSE IF base = None THEN NewBase(r, b.base.model)
          ELSE [base EXCEPT !.model = b.base.model]

\* _import_agents: every version of the bundle is appended as a draft.
ImportAgents(r, b, seen) ==
  /\ agent' = IF b.agent /\ agent = None THEN [id |-> r, live |-> 0, routed |-> FALSE] ELSE agent
  /\ versions' = versions \o
       [i \in DOMAIN b.versions |->
          LET c == Resolved(b.versions[i], b, seen)
          IN  Version("DRAFT", [c EXCEPT !.kb = @ /\ base' # None])]

\* Mutant: the rules come before the agents and the schedules they name.
RuleFirst(b) ==
  Scheduled(b.rule.agent /\ agent # None, b.rule.hours /\ hours # None,
            IF b.rule.priority = 0 THEN 100 ELSE b.rule.priority)

\* _import_rules: the names are looked up last; int(0 or 100) is 100.
ImportedRule(b) ==
  Scheduled(b.rule.agent /\ agent' # None, b.rule.hours /\ hours' # None,
            IF b.rule.priority = 0 THEN 100 ELSE b.rule.priority)

Import(r) ==
  /\ At(r, "importing")
  /\ LET b    == req[r].arg
         seen == req[r].seen
     IN IF Importable(b, seen)
        THEN /\ Commits(r)
             /\ ImportTool(r, b, seen) /\ ImportHours(r, b) /\ ImportBase(r, b)
             /\ ImportAgents(r, b, seen)
             /\ rule' = IF b.rule = None THEN rule ELSE ImportedRule(b)
        ELSE Rolls(r) /\ UNCHANGED <<tenant, versions, base>>
  /\ UNCHANGED <<catalogue, docs, store, bundle>>

(* ------------------------------ command line ----------------------------- *)

\* cmd_seed_platform; cmd_seed_dev_tenant with dev.
BeginSeed(r, dev) ==
  /\ Enter(r, "seeding", [dev |-> dev], [slugs |-> Present])
  /\ UNCHANGED <<catalogue, versions, knowledge, tenant, bundle>>

\* The published version (or the first) is granted the tool, the first and the published
\* one get the knowledge base if they have none.
Wired(rows, live) ==
  [n \in DOMAIN rows |-> [rows[n] EXCEPT !.grant = @ \/ n = live, !.kb = @ \/ n \in {1, live}]]

\* seed_dev_tenant: everything it finds by its name stays.
SeedTenant(r) ==
  LET first  == Version("PUBLISHED", Content(IF entry'[Shipped[1]] = None THEN None ELSE Shipped[1],
                                             FALSE, FALSE))
      rows   == IF versions = <<>> THEN <<first>> ELSE versions
      found  == IF agent = None THEN [id |-> r, live |-> 0, routed |-> FALSE] ELSE agent
  IN /\ agent' = IF versions = <<>> THEN [found EXCEPT !.live = 1] ELSE found
     /\ tool' = IF tool = None THEN [id |-> r, secret |-> FALSE] ELSE tool
     /\ rule' = IF rule = None THEN Scheduled(TRUE, FALSE, 100) ELSE rule
     /\ base' = IF base = None THEN NewBase(r, Default) ELSE base
     /\ docs' = IF House \in Rows THEN docs ELSE [docs EXCEPT ![House] = SeededDocument]
     /\ versions' = Wired(rows, IF found.live = 0 THEN 1 ELSE found.live)

Seed(r) ==
  /\ At(r, "seeding")
  /\ IF Missing(req[r].seen.slugs) \cap Present = {}
     THEN /\ Commits(r)
          /\ entry' = Registered(r, req[r].seen.slugs)
          /\ IF req[r].arg.dev THEN SeedTenant(r) ELSE UNCHANGED <<agent, tool, rule, base, docs, versions>>
     ELSE Rolls(r) /\ UNCHANGED <<entry, agent, tool, rule, base, docs, versions>>
  /\ UNCHANGED <<provider, key, accepted, hours, store, bundle>>

\* cmd_set_agent_provider: registers the model if need be, and edits the newest version,
\* published or not.
BeginSetModel(r, e) ==
  /\ agent # None /\ Newest > 0
  /\ Enter(r, "pointing", [slug |-> e], [row |-> entry[e], agent |-> agent, number |-> Newest])
  /\ UNCHANGED <<catalogue, versions, knowledge, tenant, bundle>>

SetModel(r) ==
  /\ At(r, "pointing")
  /\ LET e == req[r].arg.slug
         s == req[r].seen
     IN IF Same(s.row, entry[e]) /\ Same(s.agent, agent)
        THEN /\ Commits(r)
             /\ entry' = IF s.row = None THEN [entry EXCEPT ![e] = NewEntry(r, FALSE)] ELSE entry
             /\ versions' = [versions EXCEPT ![s.number].model = e]
        ELSE Rolls(r) /\ UNCHANGED <<entry, versions>>
  /\ UNCHANGED <<provider, key, accepted, knowledge, tenant, bundle>>

\* The process of a request is killed: the database rolls back, the object store does not.
Crash(r) ==
  /\ Running(r) /\ "crashing" \in work
  /\ Rolls(r)
  /\ UNCHANGED <<catalogue, versions, knowledge, tenant, bundle>>

(* ---------------------------- specification ----------------------------- *)

\* A seeded database, as a scenario varies it.
Init ==
  \E s \in Scenarios :
    /\ work = s.work
    /\ provider = "ACTIVE"
    /\ entry = [e \in Entries |-> IF e \in Slugs THEN NewEntry("seed", e = Shipped[1]) ELSE None]
    /\ key = [l \in Labels |-> IF l \in s.keys THEN NewKey("seed", CHOOSE k \in Keys : TRUE) ELSE None]
    /\ accepted = {}
    /\ versions = <<Version("PUBLISHED", Content(Shipped[1], s.kb, TRUE))>>
    /\ agent = [id |-> "seed", live |-> 1, routed |-> s.routed]
    /\ tool = [id |-> "seed", secret |-> FALSE]
    /\ hours = IF s.hours THEN [id |-> "seed"] ELSE None
    /\ rule = Scheduled(TRUE, s.hours, s.priority)
    /\ base = NewBase("seed", s.model)
    /\ docs = [d \in Documents \cup {House} |-> IF d = House THEN SeededDocument ELSE None]
    /\ store = {}
    /\ bundle = IF s.saved THEN Exported([entry |-> entry, agent |-> agent, tool |-> tool, hours |-> hours])
                           ELSE None
    /\ req = [r \in Requests |-> Idle]

OfCatalogue(r) ==
  \/ BeginDisable(r) \/ Disable(r) \/ Enable(r)
  \/ \E l \in Labels, k \in Keys : BeginStore(r, l, k) \/ BeginSetCredential(r, l, k)
  \/ Store(r)
  \/ \E l \in Labels : BeginProbe(r, l) \/ DeleteKey(r, l)
  \/ Probed(r)
  \/ \E e \in Entries, default \in BOOLEAN : BeginCreate(r, e, default)
  \/ \E e \in Entries, c \in Changes : BeginUpdate(r, e, c)
  \/ \E e \in Entries : BeginDelete(r, e)
  \/ Create(r) \/ Update(r) \/ Delete(r)

OfKnowledge(r) ==
  \/ \E m \in Spaces \cup {None} : CreateBase(r, m) \/ UpdateBase(r, m)
  \/ BeginDeleteBase(r) \/ DeleteBase(r)
  \/ \E d \in Documents : BeginUpload(r, d) \/ AddWeb(r, d)
  \/ \E d \in Rows : Reindex(r, d) \/ BeginRemove(r, d)
  \/ Put(r) \/ Extract(r) \/ Index(r) \/ Remove(r) \/ RemoveFile(r)

OfTenant(r) ==
  \/ \E c \in Submitted : BeginSave(r, c)
  \/ Save(r) \/ Publish(r) \/ DeleteAgent(r) \/ Reroute(r)
  \/ \E secret \in BOOLEAN : CreateTool(r, secret)
  \/ UpdateTool(r) \/ BeginDeleteTool(r) \/ DeleteTool(r)
  \/ CreateHours(r) \/ DeleteHours(r)
  \/ \E a, h \in BOOLEAN, p \in {0, 100} : UpdateRule(r, Scheduled(a, h, p))
  \/ UpdateRule(r, None)
  \/ BeginExport(r) \/ Export(r) \/ BeginImport(r) \/ Import(r)
  \/ \E dev \in BOOLEAN : BeginSeed(r, dev)
  \/ Seed(r)
  \/ \E e \in Entries : BeginSetModel(r, e)
  \/ SetModel(r) \/ Crash(r)

Next ==
  \E r \in Requests :
    \/ OfCatalogue(r) /\ UNCHANGED <<knowledge, tenant, bundle, work>>
    \/ OfKnowledge(r) /\ UNCHANGED <<tenant, bundle, work>>
    \/ OfTenant(r) /\ UNCHANGED work

Spec == Init /\ [][Next]_vars

(* ------------------------------ properties ------------------------------ *)

TypeOK ==
  /\ provider \in {"ACTIVE", "DISABLED"}
  /\ entry \in [Entries -> EntryRow \cup {None}]
  /\ key \in [Labels -> KeyRow \cup {None}]
  /\ versions \in Seq(VersionRow)
  /\ agent \in AgentRow \cup {None} /\ tool \in ToolRow \cup {None}
  /\ hours \in HoursRow \cup {None} /\ rule \in RuleRow \cup {None}
  /\ base \in BaseRow \cup {None}
  /\ docs \in [Documents \cup {House} -> DocumentRow \cup {None, Gone}]
  /\ agent = None => versions = <<>>
  /\ agent # None => agent.live \in 0..Newest
  /\ base = None => Rows = {} /\ \A n \in DOMAIN versions : ~versions[n].kb
  /\ tool = None => \A n \in DOMAIN versions : ~versions[n].grant
  /\ rule # None => (rule.hours => hours # None) /\ (rule.agent => agent # None)
  /\ store \subseteq Documents

\* An import nobody overtook puts back what the bundle holds, its rule attached to its agent
\* and its schedule, whatever was deleted since the export; and nothing that answers calls
\* now, no version and no publication, is other than it was.
ImportRestores ==
  [][\A r \in Requests :
       Undisturbed(r) /\ At(r, "importing")
       => LET b == req[r].arg IN
            /\ b.rule # None => rule' = [b.rule EXCEPT !.priority = IF @ = 0 THEN 100 ELSE @]
            /\ agent # None => agent' = agent
            /\ SubSeq(versions', 1, Newest) = versions
            /\ \A i \in DOMAIN b.versions :
                 LET v == versions'[Newest + i] IN
                   /\ v.kb = b.versions[i].kb /\ v.grant = (b.versions[i].grant /\ b.tool)
                   /\ v.model \in {b.versions[i].model, None}
                   /\ v.model = None => b.versions[i].model \notin Present]_vars

\* Seeding again, at any moment, only adds what is missing: no default, schedule, rule, key,
\* tool or document a tenant or an administrator changed since is changed back.
SeedOnlyAdds ==
  [][\A r \in Requests :
       At(r, "seeding") /\ req'[r].at = "done"
       => /\ \A e \in Present : entry'[e] = entry[e]
          /\ \A d \in Rows : docs'[d] = docs[d]
          /\ key' = key /\ hours' = hours
          /\ tool # None => tool' = tool
          /\ rule # None => rule' = rule
          /\ base # None => base' = base
          /\ \A n \in DOMAIN versions :
               /\ versions'[n].model = versions[n].model /\ versions'[n].state = versions[n].state
               /\ n \notin {1, agent.live} => versions'[n] = versions[n]]_vars

\* Deleting a model, a tool or a knowledge base that nobody saved into meanwhile changes no
\* version: an agent does not lose what it was given because somebody cleaned up.
OnlyUnusedGo ==
  [][\A r \in Requests :
       Undisturbed(r) /\ req[r].at \in {"deleting", "closing", "untooling"}
       => versions' = versions]_vars

\* Nothing a row names is missing, and no tick is given for nothing.
RowsSound == TypeOK /\ TickIsEarned /\ NamedExist /\ FileExists

\* What one request promises about the rows of others: a default it sets is the only one, a
\* document it indexed lies in one space, a seed only adds, and only what is unused goes.
KeepsToItsOwn == DefaultIsSole /\ IndexedInOneSpace /\ SeedOnlyAdds /\ OnlyUnusedGo
=============================================================================
