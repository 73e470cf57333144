-------------------------- MODULE TenantBundleProofs --------------------------
(***************************************************************************)
(* For every catalogue, knowledge base, set of drafts and set of requests: *)
(* the rows of a tenant refer to rows that exist, a key's tick is earned,  *)
(* an import restores what its bundle holds, and a request keeps to its    *)
(* own rows.                                                               *)
(***************************************************************************)
EXTENDS TenantBundle, SequenceTheorems, TLAPS

-----------------------------------------------------------------------------
(* The invariant *)

\* What a bundle holds together: what its rule names it has, and a version that uses the
\* knowledge base comes with one.
BundleSound(b) ==
  /\ b \in BundleFile
  /\ ~b.agent => b.versions = <<>>
  /\ b.rule # None => (b.rule.agent => b.agent) /\ (b.rule.hours => b.hours)
  /\ \A i \in DOMAIN b.versions : b.versions[i].kb => b.base # None

\* Who made a row has made it: nobody who is still running, or may yet begin.
Settled(i) == i = "seed" \/ (i \in Requests /\ req[i].at = "done")

\* The tables by themselves.
TablesInv ==
  /\ TypeOK /\ NamedExist /\ FileExists
  /\ accepted \subseteq Keys
  /\ bundle # None => BundleSound(bundle)
  /\ House \in Rows => ~docs[House].file

KeysInv ==
  /\ TickIsEarned
  /\ \A l \in Held : Settled(key[l].id)

Asked == [doc : Documents \cup {House}, file : BOOLEAN]

Outcomes == [outcome : {"failed", "text", "vectors"}, loaded : Spaces \cup {None}, model : Spaces]

EntryTable == [Entries -> EntryRow \cup {None}]

\* What a request carries from its first step to its last.
Carries(q) ==
  /\ DOMAIN q = {"at", "arg", "seen", "clean"} /\ q.clean \in BOOLEAN
  /\ q.at \in {"storing", "rotating"} =>
       q.arg \in [label : Labels, key : Keys] /\ q.seen \in KeyRow \cup {None}
  /\ q.at = "probing" => q.arg \in [label : Labels] /\ q.seen \in KeyRow
  /\ q.at = "creating" => q.arg \in [slug : Entries, default : BOOLEAN] /\ q.seen \in [clears : SUBSET Entries]
  /\ q.at = "updating" => /\ q.arg \in [slug : Entries, change : Changes]
                          /\ q.seen \in [row : EntryRow, clears : SUBSET Entries]
  /\ q.at = "deleting" => q.arg \in [slug : Entries] /\ q.seen \in EntryRow
  /\ q.at = "closing" => q.seen \in BaseRow
  /\ q.at \in {"uploading", "adding", "reindexing", "indexing", "erasing", "removing"} =>
       q.arg \in Asked /\ (q.arg.file => q.arg.doc \in Documents)
  /\ q.at = "uploading" => q.arg.file
  /\ q.at = "indexing" => q.seen \in Outcomes \cup {None}
  /\ q.at = "saving" => /\ q.arg \in Contents
                        /\ q.seen \in [agent : AgentRow, number : Nat, draft : BOOLEAN, models : EntryTable,
                                       tool : ToolRow \cup {None}, base : BaseRow \cup {None}]
  /\ q.at = "untooling" => q.seen \in ToolRow
  /\ q.at = "exporting" => q.seen \in [entry : EntryTable, agent : AgentRow \cup {None},
                                       tool : ToolRow \cup {None}, hours : HoursRow \cup {None}]
  /\ q.at = "importing" => /\ BundleSound(q.arg)
                           /\ q.seen \in [entry : EntryTable, agent : AgentRow \cup {None},
                                          tool : ToolRow \cup {None}, number : Nat]
  /\ q.at = "seeding" => q.arg \in [dev : BOOLEAN] /\ q.seen \in [slugs : SUBSET Entries]
  /\ q.at = "pointing" => /\ q.arg \in [slug : Entries]
                          /\ q.seen \in [row : EntryRow \cup {None}, agent : AgentRow, number : Nat]

\* A probe knows the key that a row it can still tick holds, if it came in undisturbed.
ProbeKnows(r) ==
  At(r, "probing") =>
    LET row == key[req[r].arg.label] IN
    /\ Settled(req[r].seen.id)
    /\ Same(req[r].seen, row) /\ row.how = "put" => row.key = req[r].seen.key

\* Who indexes has a base, a document that is not deleted, and its file; who removes a file
\* has deleted its document.
IndexKnows(r) ==
  LET d == req[r].arg.doc IN
  /\ r \in Ingesting => base # None /\ docs[d] # Gone
  /\ req[r].at \in {"reindexing", "indexing"} /\ req[r].arg.file => d \in store
  /\ At(r, "adding") => ~req[r].arg.file
  /\ At(r, "removing") => d \in Documents /\ docs[d] = Gone

\* What a request nobody has overtaken read is still so.
StillReads(r) ==
  req[r].clean =>
    /\ At(r, "storing") => key[req[r].arg.label] = req[r].seen
    /\ At(r, "creating") /\ req[r].arg.default => req[r].seen.clears = Defaults
    /\ At(r, "updating") => /\ entry[req[r].arg.slug] = req[r].seen.row
                            /\ MakesDefault(req[r].arg.change) =>
                                 req[r].seen.clears = Defaults \ {req[r].arg.slug}
    /\ At(r, "importing") => req[r].seen.entry = entry
    /\ At(r, "indexing") /\ req[r].seen # None => req[r].seen.loaded = base.model
    /\ At(r, "closing") => \A n \in DOMAIN versions : ~versions[n].kb
    /\ At(r, "untooling") => \A n \in DOMAIN versions : ~versions[n].grant

\* An indexing under way takes the base's model, or the default for want of one.
IndexModel(r) ==
  At(r, "indexing") /\ req[r].seen # None /\ req[r].seen.loaded # None =>
    req[r].seen.model = req[r].seen.loaded

\* All of it, for one request.
Fits(r) == Carries(req[r]) /\ ProbeKnows(r) /\ IndexKnows(r) /\ StillReads(r) /\ IndexModel(r)

RequestsInv == DOMAIN req = Requests /\ \A r \in Requests : Fits(r)

IInv == TablesInv /\ KeysInv /\ RequestsInv

-----------------------------------------------------------------------------
(* What a step may do to requests *)

Tables == <<provider, entry, key, accepted, versions, agent, tool, hours, rule, base, docs>>

\* A step of r leaves the others where they are; at most, it overtakes them.
Others(r) ==
  /\ DOMAIN req' = Requests
  /\ \A q \in Requests \ {r} :
       /\ DOMAIN req'[q] = DOMAIN req[q]
       /\ req'[q].at = req[q].at /\ req'[q].arg = req[q].arg /\ req'[q].seen = req[q].seen
       /\ req'[q].clean \in BOOLEAN /\ (req'[q].clean => req[q].clean)
  /\ req[r].at # "done"

Overtaken(r) == \A q \in Requests \ {r} : Running(q) => ~req'[q].clean

\* It only changes a table when it overtakes them.
Fair(r) == Others(r) /\ (Overtaken(r) \/ UNCHANGED Tables)

\* It leaves alone what they know of keys and files.
Apart(r) == \A q \in Requests \ {r} : ProbeKnows(q)' /\ IndexKnows(q)'

LEMMA CommitsEffect ==
  ASSUME RequestsInv, NEW r \in Requests, NEW next, req[r].at # "done", CommitsTo(r, next)
  PROVE  Others(r) /\ Overtaken(r) /\ req'[r] = next
<1>1. DOMAIN req' = Requests /\ req'[r] = next
  BY DEF CommitsTo
<1>2. ASSUME NEW q \in Requests \ {r}
      PROVE  /\ DOMAIN req'[q] = DOMAIN req[q]
             /\ req'[q].at = req[q].at /\ req'[q].arg = req[q].arg /\ req'[q].seen = req[q].seen
             /\ req'[q].clean = (req[q].clean /\ ~Running(q))
  <2>1. req'[q] = [req[q] EXCEPT !.clean = @ /\ ~Running(q)]
    BY <1>2 DEF CommitsTo
  <2>2. DOMAIN req[q] = {"at", "arg", "seen", "clean"}
    BY <1>2 DEF RequestsInv, Fits, Carries
  <2> QED
    BY <2>1, <2>2
<1>3. \A q \in Requests : req[q].clean \in BOOLEAN
  BY DEF RequestsInv, Fits, Carries
<1> QED
  BY <1>1, <1>2, <1>3 DEF Others, Overtaken

LEMMA OneEffect ==
  ASSUME RequestsInv, NEW r \in Requests, NEW next, req[r].at # "done", req' = [req EXCEPT ![r] = next]
  PROVE  Others(r) /\ req'[r] = next
<1>1. \A q \in Requests : req[q].clean \in BOOLEAN
  BY DEF RequestsInv, Fits, Carries
<1> QED
  BY <1>1 DEF RequestsInv, Others

LEMMA EnterEffect ==
  ASSUME RequestsInv, NEW r \in Requests, NEW at, NEW arg, NEW seen, Enter(r, at, arg, seen)
  PROVE  /\ Others(r)
         /\ req'[r] = [at |-> at, arg |-> arg, seen |-> seen, clean |-> TRUE]
<1>1. req[r].at # "done"
  BY DEF Enter, Idle, State
<1> QED
  BY <1>1, OneEffect DEF Enter

LEMMA MovesEffect ==
  ASSUME RequestsInv, NEW r \in Requests, NEW at, NEW seen, req[r].at # "done", Moves(r, at, seen)
  PROVE  /\ Others(r)
         /\ req'[r] = [req[r] EXCEPT !.at = at, !.seen = seen]
<1>1. \A q \in Requests : req[q].clean \in BOOLEAN /\ DOMAIN req[q] = {"at", "arg", "seen", "clean"}
  BY DEF RequestsInv, Fits, Carries
<1> QED
  BY <1>1 DEF RequestsInv, Others, Moves

\* A request that is over needs nothing.
LEMMA EndedFits ==
  ASSUME NEW r \in Requests, req'[r] \in {State("done"), State("refused")}
  PROVE  Fits(r)'
<1>1. /\ req'[r].at \in {"done", "refused"} /\ DOMAIN req'[r] = {"at", "arg", "seen", "clean"}
      /\ req'[r].clean = TRUE
  BY DEF State
<1>2. Carries(req'[r])
  BY <1>1 DEF Carries
<1>3. ProbeKnows(r)' /\ IndexKnows(r)'
  BY <1>1 DEF ProbeKnows, IndexKnows, At, Ingesting
<1>4. StillReads(r)' /\ IndexModel(r)'
  BY <1>1 DEF StillReads, IndexModel, At
<1> QED
  BY <1>2, <1>3, <1>4 DEF Fits

LEMMA SettledStays ==
  ASSUME NEW r \in Requests, Others(r), NEW i, Settled(i)
  PROVE  Settled(i)'
BY DEF Others, Settled

LEMMA OthersProbe ==
  ASSUME RequestsInv, NEW r \in Requests, Others(r), UNCHANGED key, NEW q \in Requests \ {r}
  PROVE  ProbeKnows(q)'
<1> SUFFICES ASSUME At(q, "probing")'
             PROVE  /\ Settled(req[q].seen.id)'
                    /\ LET row == key[req[q].arg.label]
                       IN  Same(req[q].seen, row) /\ row.how = "put" => row.key = req[q].seen.key
  BY DEF ProbeKnows, Others, Same
<1>1. At(q, "probing") /\ ProbeKnows(q)
  BY DEF At, Others, RequestsInv, Fits
<1>2. /\ Settled(req[q].seen.id)
      /\ LET row == key[req[q].arg.label]
         IN  Same(req[q].seen, row) /\ row.how = "put" => row.key = req[q].seen.key
  BY <1>1 DEF ProbeKnows
<1>3. req'[q].seen = req[q].seen
  BY DEF Others
<1>4. Settled(req[q].seen.id)'
  <2>1. \A i : Settled(i) => Settled(i)'
    BY SettledStays
  <2>2. Settled(req[q].seen.id)
    BY <1>2
  <2> QED
    BY <2>1, <2>2, <1>3 DEF Settled
<1> QED
  BY <1>2, <1>4

LEMMA OthersIndex ==
  ASSUME RequestsInv, NEW r \in Requests, Others(r), UNCHANGED knowledge, NEW q \in Requests \ {r}
  PROVE  IndexKnows(q)'
<1>1. IndexKnows(q) /\ req'[q].at = req[q].at /\ req'[q].arg = req[q].arg
  BY DEF Others, RequestsInv, Fits
<1> QED
  BY <1>1 DEF IndexKnows, knowledge, Ingesting, At

LEMMA OthersApart ==
  ASSUME RequestsInv, NEW r \in Requests, Others(r), UNCHANGED <<key, knowledge>>
  PROVE  Apart(r)
BY OthersProbe, OthersIndex DEF Apart

\* What the others carry and have read is still so.
LEMMA OthersRead ==
  ASSUME RequestsInv, NEW r \in Requests, Fair(r), NEW q \in Requests \ {r}
  PROVE  Carries(req'[q]) /\ StillReads(q)' /\ IndexModel(q)'
<1>1. /\ DOMAIN req'[q] = DOMAIN req[q]
      /\ req'[q].at = req[q].at /\ req'[q].arg = req[q].arg /\ req'[q].seen = req[q].seen
      /\ req'[q].clean \in BOOLEAN /\ (req'[q].clean => req[q].clean)
  BY DEF Fair, Others
<1>2. Carries(req[q]) /\ StillReads(q) /\ IndexModel(q)
  BY DEF RequestsInv, Fits
<1>3. Carries(req'[q])
  BY <1>1, <1>2 DEF Carries
<1>4. IndexModel(q)'
  BY <1>1, <1>2 DEF IndexModel, At
<1>5. CASE Overtaken(r)
  <2>1. ~Running(q) \/ ~req'[q].clean
    BY <1>5 DEF Overtaken
  <2>2. StillReads(q)'
    BY <2>1, <1>1 DEF StillReads, At, Running, Ended
  <2> QED
    BY <2>2, <1>3, <1>4
<1>6. CASE UNCHANGED Tables
  <2>1. StillReads(q)'
    BY <1>6, <1>1, <1>2 DEF StillReads, At, Tables, Defaults, Present
  <2> QED
    BY <2>1, <1>3, <1>4
<1> QED
  BY <1>5, <1>6 DEF Fair

LEMMA RequestsKept ==
  ASSUME RequestsInv, NEW r \in Requests, Fair(r), Apart(r), Fits(r)'
  PROVE  RequestsInv'
<1>1. ASSUME NEW q \in Requests \ {r} PROVE Fits(q)'
  BY <1>1, OthersRead DEF Fits, Apart
<1> QED
  BY <1>1 DEF RequestsInv, Fair, Others

LEMMA KeysKept ==
  ASSUME KeysInv, NEW r \in Requests, Others(r), UNCHANGED <<key, accepted>>
  PROVE  KeysInv'
<1>1. Held' = Held
  BY DEF Held
<1>2. TickIsEarned'
  BY <1>1 DEF KeysInv, TickIsEarned
<1>3. \A l \in Held : Settled(key[l].id)'
  BY SettledStays DEF KeysInv
<1> QED
  BY <1>1, <1>2, <1>3 DEF KeysInv

LEMMA TablesKept ==
  ASSUME TablesInv, UNCHANGED <<Tables, store, bundle>>
  PROVE  TablesInv'
BY DEF TablesInv, Tables, TypeOK, NamedExist, FileExists, Named, Present, Rows, Newest, BundleSound

\* A step that changes no row and no file.
LEMMA NothingChanged ==
  ASSUME IInv, NEW r \in Requests, Others(r), UNCHANGED <<Tables, store, bundle>>, Fits(r)'
  PROVE  IInv'
<1>1. Fair(r) /\ UNCHANGED <<key, knowledge>> /\ UNCHANGED <<key, accepted>>
  BY DEF Fair, Tables, knowledge
<1> QED
  BY <1>1, TablesKept, KeysKept, OthersApart, RequestsKept DEF IInv

\* A step that ends a request, whatever it does to the tables.
LEMMA EndsKeeps ==
  ASSUME IInv, NEW r \in Requests, Fair(r), req'[r] \in {State("done"), State("refused")},
         Apart(r), TablesInv', KeysInv'
  PROVE  IInv'
BY EndedFits, RequestsKept DEF IInv

\* ... when it leaves keys and knowledge alone.
LEMMA EndsApart ==
  ASSUME IInv, NEW r \in Requests, Fair(r), req'[r] \in {State("done"), State("refused")},
         UNCHANGED <<key, accepted, knowledge>>, TablesInv'
  PROVE  IInv'
<1>1. Others(r) /\ UNCHANGED <<key, accepted>> /\ UNCHANGED <<key, knowledge>>
  BY DEF Fair
<1> QED
  BY <1>1, EndsKeeps, KeysKept, OthersApart DEF IInv

LEMMA RollsKeeps ==
  ASSUME IInv, NEW r \in Requests, req[r].at # "done", Rolls(r), UNCHANGED <<Tables, store, bundle>>
  PROVE  IInv'
<1>1. Others(r) /\ req'[r] = State("refused")
  BY OneEffect DEF Rolls, IInv
<1> QED
  BY <1>1, EndedFits, NothingChanged

\* A request that commits after running, or is handled in one step.
LEMMA CommitEnds ==
  ASSUME IInv, NEW r \in Requests, req[r].at # "done", Commits(r)
  PROVE  Fair(r) /\ req'[r] = State("done")
BY CommitsEffect DEF Commits, IInv, Fair

LEMMA HandleEnds ==
  ASSUME IInv, NEW r \in Requests, NEW kind, Handles(r, kind)
  PROVE  Fair(r) /\ req'[r] = State("done")
<1>1. req[r].at # "done" /\ Commits(r)
  BY DEF Handles, Idle, State
<1> QED
  BY <1>1, CommitEnds

-----------------------------------------------------------------------------
(* Requests that begin: what they read is what is there *)

LEMMA Typed ==
  ASSUME IInv
  PROVE  /\ entry \in EntryTable /\ key \in [Labels -> KeyRow \cup {None}]
         /\ versions \in Seq(VersionRow) /\ Newest \in Nat /\ DOMAIN versions = 1..Newest
         /\ agent \in AgentRow \cup {None} /\ tool \in ToolRow \cup {None}
         /\ hours \in HoursRow \cup {None} /\ rule \in RuleRow \cup {None}
         /\ base \in BaseRow \cup {None}
         /\ docs \in [Documents \cup {House} -> DocumentRow \cup {None, Gone}]
BY DEF IInv, TablesInv, TypeOK, EntryTable, Newest

LEMMA BeginDisableKeeps ==
  ASSUME IInv, NEW r \in Requests,
         BeginDisable(r), UNCHANGED <<knowledge, tenant, bundle>>
  PROVE  IInv'
<1>1. Enter(r, "disabling", None, None)
  BY DEF BeginDisable
<1>2. /\ Others(r)
      /\ req'[r] = [at |-> "disabling", arg |-> None, seen |-> None, clean |-> TRUE]
  BY <1>1, EnterEffect DEF IInv
<1>3. UNCHANGED <<Tables, store, bundle>>
  BY DEF BeginDisable, Tables, catalogue, knowledge, tenant
<1>4. Carries(req'[r])
  BY <1>2 DEF Carries
<1>5. ProbeKnows(r)' /\ IndexKnows(r)'
  BY <1>2 DEF ProbeKnows, IndexKnows, At, Ingesting
<1>6. StillReads(r)' /\ IndexModel(r)'
  BY <1>2 DEF StillReads, IndexModel, At
<1> QED
  BY <1>2, <1>3, <1>4, <1>5, <1>6, NothingChanged DEF Fits

LEMMA BeginStoreKeeps ==
  ASSUME IInv, NEW r \in Requests, NEW l \in Labels, NEW k \in Keys,
         BeginStore(r, l, k), UNCHANGED <<knowledge, tenant, bundle>>
  PROVE  IInv'
<1>1. Enter(r, "storing", [label |-> l, key |-> k], key[l])
  BY DEF BeginStore
<1>2. /\ Others(r)
      /\ req'[r] = [at |-> "storing", arg |-> [label |-> l, key |-> k], seen |-> key[l], clean |-> TRUE]
  BY <1>1, EnterEffect DEF IInv
<1>3. UNCHANGED <<Tables, store, bundle>>
  BY DEF BeginStore, Tables, catalogue, knowledge, tenant
<1>4. Carries(req'[r])
  BY <1>2, Typed DEF Carries
<1>5. ProbeKnows(r)' /\ IndexKnows(r)'
  BY <1>2 DEF ProbeKnows, IndexKnows, At, Ingesting
<1>6. StillReads(r)' /\ IndexModel(r)'
  BY <1>2, <1>3 DEF StillReads, IndexModel, At, Tables
<1> QED
  BY <1>2, <1>3, <1>4, <1>5, <1>6, NothingChanged DEF Fits

LEMMA BeginSetCredentialKeeps ==
  ASSUME IInv, NEW r \in Requests, NEW l \in Labels, NEW k \in Keys,
         BeginSetCredential(r, l, k), UNCHANGED <<knowledge, tenant, bundle>>
  PROVE  IInv'
<1>1. Enter(r, "rotating", [label |-> l, key |-> k], key[l])
  BY DEF BeginSetCredential
<1>2. /\ Others(r)
      /\ req'[r] = [at |-> "rotating", arg |-> [label |-> l, key |-> k], seen |-> key[l], clean |-> TRUE]
  BY <1>1, EnterEffect DEF IInv
<1>3. UNCHANGED <<Tables, store, bundle>>
  BY DEF BeginSetCredential, Tables, catalogue, knowledge, tenant
<1>4. Carries(req'[r])
  BY <1>2, Typed DEF Carries
<1>5. ProbeKnows(r)' /\ IndexKnows(r)'
  BY <1>2 DEF ProbeKnows, IndexKnows, At, Ingesting
<1>6. StillReads(r)' /\ IndexModel(r)'
  BY <1>2 DEF StillReads, IndexModel, At
<1> QED
  BY <1>2, <1>3, <1>4, <1>5, <1>6, NothingChanged DEF Fits

LEMMA BeginProbeKeeps ==
  ASSUME IInv, NEW r \in Requests, NEW l \in Labels,
         BeginProbe(r, l), UNCHANGED <<knowledge, tenant, bundle>>
  PROVE  IInv'
<1>1. Enter(r, "probing", [label |-> l], key[l])
  BY DEF BeginProbe
<1>2. /\ Others(r)
      /\ req'[r] = [at |-> "probing", arg |-> [label |-> l], seen |-> key[l], clean |-> TRUE]
  BY <1>1, EnterEffect DEF IInv
<1>3. UNCHANGED <<Tables, store, bundle>>
  BY DEF BeginProbe, Tables, catalogue, knowledge, tenant
<1>4. Carries(req'[r])
  <2>1. key[l] \in KeyRow
    BY Typed DEF BeginProbe
  <2> QED
    BY <1>2, <2>1 DEF Carries
<1>5. ProbeKnows(r)' /\ IndexKnows(r)'
  <2>1. Settled(key[l].id) /\ Settled(key[l].id)'
    <3>1. Settled(key[l].id)
      BY DEF BeginProbe, IInv, KeysInv, Held
    <3>2. \A i : Settled(i) => Settled(i)'
      BY <1>2, SettledStays
    <3>3. key' = key
      BY <1>3 DEF Tables
    <3> QED
      BY <3>1, <3>2, <3>3 DEF Settled
  <2>2. req'[r].arg.label = l /\ req'[r].seen = key[l] /\ key' = key
    BY <1>2, <1>3 DEF Tables
  <2>3. ProbeKnows(r)'
    BY <2>1, <2>2 DEF ProbeKnows, Settled
  <2> QED
    BY <1>2, <2>3 DEF IndexKnows, At, Ingesting
<1>6. StillReads(r)' /\ IndexModel(r)'
  BY <1>2 DEF StillReads, IndexModel, At
<1> QED
  BY <1>2, <1>3, <1>4, <1>5, <1>6, NothingChanged DEF Fits

LEMMA BeginCreateKeeps ==
  ASSUME IInv, NEW r \in Requests, NEW e \in Entries, NEW default \in BOOLEAN,
         BeginCreate(r, e, default), UNCHANGED <<knowledge, tenant, bundle>>
  PROVE  IInv'
<1>1. Enter(r, "creating", [slug |-> e, default |-> default], [clears |-> IF default THEN Defaults ELSE {}])
  BY DEF BeginCreate
<1>2. /\ Others(r)
      /\ req'[r] = [at |-> "creating", arg |-> [slug |-> e, default |-> default], seen |-> [clears |-> IF default THEN Defaults ELSE {}], clean |-> TRUE]
  BY <1>1, EnterEffect DEF IInv
<1>3. UNCHANGED <<Tables, store, bundle>>
  BY DEF BeginCreate, Tables, catalogue, knowledge, tenant
<1>4. Carries(req'[r])
  <2>1. Defaults \subseteq Entries
    BY DEF Defaults, Present
  <2> QED
    BY <1>2, <2>1 DEF Carries
<1>5. ProbeKnows(r)' /\ IndexKnows(r)'
  BY <1>2 DEF ProbeKnows, IndexKnows, At, Ingesting
<1>6. StillReads(r)' /\ IndexModel(r)'
  <2>1. Defaults' = Defaults
    BY <1>3 DEF Tables, Defaults, Present
  <2> QED
    BY <1>2, <2>1 DEF StillReads, IndexModel, At
<1> QED
  BY <1>2, <1>3, <1>4, <1>5, <1>6, NothingChanged DEF Fits

LEMMA BeginUpdateKeeps ==
  ASSUME IInv, NEW r \in Requests, NEW e \in Entries, NEW c \in Changes,
         BeginUpdate(r, e, c), UNCHANGED <<knowledge, tenant, bundle>>
  PROVE  IInv'
<1>1. Enter(r, "updating", [slug |-> e, change |-> c], [row |-> entry[e], clears |-> IF MakesDefault(c) THEN Defaults \ {e} ELSE {}])
  BY DEF BeginUpdate
<1>2. /\ Others(r)
      /\ req'[r] = [at |-> "updating", arg |-> [slug |-> e, change |-> c], seen |-> [row |-> entry[e], clears |-> IF MakesDefault(c) THEN Defaults \ {e} ELSE {}], clean |-> TRUE]
  BY <1>1, EnterEffect DEF IInv
<1>3. UNCHANGED <<Tables, store, bundle>>
  BY DEF BeginUpdate, Tables, catalogue, knowledge, tenant
<1>4. Carries(req'[r])
  <2>1. Defaults \subseteq Entries
    BY DEF Defaults, Present
  <2>2. entry[e] \in EntryRow
    BY Typed DEF BeginUpdate, EntryTable
  <2> QED
    BY <1>2, <2>1, <2>2 DEF Carries
<1>5. ProbeKnows(r)' /\ IndexKnows(r)'
  BY <1>2 DEF ProbeKnows, IndexKnows, At, Ingesting
<1>6. StillReads(r)' /\ IndexModel(r)'
  <2>1. Defaults' = Defaults /\ entry' = entry
    BY <1>3 DEF Tables, Defaults, Present
  <2> QED
    BY <1>2, <2>1 DEF StillReads, IndexModel, At, MakesDefault
<1> QED
  BY <1>2, <1>3, <1>4, <1>5, <1>6, NothingChanged DEF Fits

LEMMA BeginDeleteKeeps ==
  ASSUME IInv, NEW r \in Requests, NEW e \in Entries,
         BeginDelete(r, e), UNCHANGED <<knowledge, tenant, bundle>>
  PROVE  IInv'
<1>1. Enter(r, "deleting", [slug |-> e], entry[e])
  BY DEF BeginDelete
<1>2. /\ Others(r)
      /\ req'[r] = [at |-> "deleting", arg |-> [slug |-> e], seen |-> entry[e], clean |-> TRUE]
  BY <1>1, EnterEffect DEF IInv
<1>3. UNCHANGED <<Tables, store, bundle>>
  BY DEF BeginDelete, Tables, catalogue, knowledge, tenant
<1>4. Carries(req'[r])
  <2>1. entry[e] \in EntryRow
    BY Typed DEF BeginDelete, EntryTable
  <2> QED
    BY <1>2, <2>1 DEF Carries
<1>5. ProbeKnows(r)' /\ IndexKnows(r)'
  BY <1>2 DEF ProbeKnows, IndexKnows, At, Ingesting
<1>6. StillReads(r)' /\ IndexModel(r)'
  BY <1>2 DEF StillReads, IndexModel, At
<1> QED
  BY <1>2, <1>3, <1>4, <1>5, <1>6, NothingChanged DEF Fits

LEMMA BeginDeleteBaseKeeps ==
  ASSUME IInv, NEW r \in Requests,
         BeginDeleteBase(r), UNCHANGED <<tenant, bundle>>
  PROVE  IInv'
<1>1. Enter(r, "closing", None, base)
  BY DEF BeginDeleteBase
<1>2. /\ Others(r)
      /\ req'[r] = [at |-> "closing", arg |-> None, seen |-> base, clean |-> TRUE]
  BY <1>1, EnterEffect DEF IInv
<1>3. UNCHANGED <<Tables, store, bundle>>
  BY DEF BeginDeleteBase, Tables, catalogue, knowledge, tenant
<1>4. Carries(req'[r])
  <2>1. base \in BaseRow
    BY Typed DEF BeginDeleteBase
  <2> QED
    BY <1>2, <2>1 DEF Carries
<1>5. ProbeKnows(r)' /\ IndexKnows(r)'
  BY <1>2 DEF ProbeKnows, IndexKnows, At, Ingesting
<1>6. StillReads(r)' /\ IndexModel(r)'
  BY <1>2, <1>3 DEF StillReads, IndexModel, At, Tables, BeginDeleteBase
<1> QED
  BY <1>2, <1>3, <1>4, <1>5, <1>6, NothingChanged DEF Fits

LEMMA BeginUploadKeeps ==
  ASSUME IInv, NEW r \in Requests, NEW d \in Documents,
         BeginUpload(r, d), UNCHANGED <<tenant, bundle>>
  PROVE  IInv'
<1>1. Enter(r, "uploading", Asks(d, TRUE), None)
  BY DEF BeginUpload
<1>2. /\ Others(r)
      /\ req'[r] = [at |-> "uploading", arg |-> Asks(d, TRUE), seen |-> None, clean |-> TRUE]
  BY <1>1, EnterEffect DEF IInv
<1>3. UNCHANGED <<Tables, store, bundle>>
  BY DEF BeginUpload, Tables, catalogue, knowledge, tenant
<1>4. Carries(req'[r])
  BY <1>2 DEF Carries, Asks, Asked
<1>5. ProbeKnows(r)' /\ IndexKnows(r)'
  <2>1. base' = base /\ docs' = docs /\ base # None /\ docs[d] = None
    BY <1>3 DEF Tables, BeginUpload
  <2>2. docs[d] # Gone
    BY <2>1, KnowledgeAssumption DEF KnowledgeAssumption
  <2> QED
    BY <1>2, <2>1, <2>2 DEF ProbeKnows, IndexKnows, At, Ingesting, Asks
<1>6. StillReads(r)' /\ IndexModel(r)'
  BY <1>2 DEF StillReads, IndexModel, At
<1> QED
  BY <1>2, <1>3, <1>4, <1>5, <1>6, NothingChanged DEF Fits

LEMMA AddWebKeeps ==
  ASSUME IInv, NEW r \in Requests, NEW d \in Documents,
         AddWeb(r, d), UNCHANGED <<tenant, bundle>>
  PROVE  IInv'
<1>1. Enter(r, "adding", Asks(d, FALSE), None)
  BY DEF AddWeb
<1>2. /\ Others(r)
      /\ req'[r] = [at |-> "adding", arg |-> Asks(d, FALSE), seen |-> None, clean |-> TRUE]
  BY <1>1, EnterEffect DEF IInv
<1>3. UNCHANGED <<Tables, store, bundle>>
  BY DEF AddWeb, Tables, catalogue, knowledge, tenant
<1>4. Carries(req'[r])
  BY <1>2 DEF Carries, Asks, Asked
<1>5. ProbeKnows(r)' /\ IndexKnows(r)'
  <2>1. base' = base /\ docs' = docs /\ base # None /\ docs[d] = None
    BY <1>3 DEF Tables, AddWeb
  <2>2. docs[d] # Gone
    BY <2>1, KnowledgeAssumption DEF KnowledgeAssumption
  <2> QED
    BY <1>2, <2>1, <2>2 DEF ProbeKnows, IndexKnows, At, Ingesting, Asks
<1>6. StillReads(r)' /\ IndexModel(r)'
  BY <1>2 DEF StillReads, IndexModel, At
<1> QED
  BY <1>2, <1>3, <1>4, <1>5, <1>6, NothingChanged DEF Fits

LEMMA ReindexKeeps ==
  ASSUME IInv, NEW r \in Requests, NEW d \in Documents \cup {House},
         Reindex(r, d), UNCHANGED <<tenant, bundle>>
  PROVE  IInv'
<1>1. Enter(r, "reindexing", Asks(d, docs[d].file), docs[d])
  BY DEF Reindex
<1>2. /\ Others(r)
      /\ req'[r] = [at |-> "reindexing", arg |-> Asks(d, docs[d].file), seen |-> docs[d], clean |-> TRUE]
  BY <1>1, EnterEffect DEF IInv
<1>3. UNCHANGED <<Tables, store, bundle>>
  BY DEF Reindex, Tables, catalogue, knowledge, tenant
<1>4. Carries(req'[r])
  <2>1. docs[d] \in DocumentRow
    BY Typed DEF Reindex, Rows
  <2>2. docs[d].file \in BOOLEAN
    BY <2>1 DEF DocumentRow
  <2>3. docs[d].file => d \in Documents
    BY DEF Reindex, Rows, IInv, TablesInv
  <2> QED
    BY <1>2, <2>2, <2>3 DEF Carries, Asks, Asked
<1>5. ProbeKnows(r)' /\ IndexKnows(r)'
  <2>1. base' = base /\ docs' = docs /\ store' = store
    BY <1>3 DEF Tables
  <2>2. d \in Rows
    BY DEF Reindex
  <2>3. base # None
    BY <2>2 DEF IInv, TablesInv, TypeOK
  <2>4. docs[d] # Gone /\ (docs[d].file => d \in store)
    BY <2>2 DEF Rows, IInv, TablesInv, FileExists
  <2> QED
    BY <1>2, <2>1, <2>3, <2>4 DEF ProbeKnows, IndexKnows, At, Ingesting, Asks
<1>6. StillReads(r)' /\ IndexModel(r)'
  BY <1>2 DEF StillReads, IndexModel, At
<1> QED
  BY <1>2, <1>3, <1>4, <1>5, <1>6, NothingChanged DEF Fits

LEMMA BeginRemoveKeeps ==
  ASSUME IInv, NEW r \in Requests, NEW d \in Documents \cup {House},
         BeginRemove(r, d), UNCHANGED <<tenant, bundle>>
  PROVE  IInv'
<1>1. Enter(r, "erasing", Asks(d, docs[d].file), docs[d])
  BY DEF BeginRemove
<1>2. /\ Others(r)
      /\ req'[r] = [at |-> "erasing", arg |-> Asks(d, docs[d].file), seen |-> docs[d], clean |-> TRUE]
  BY <1>1, EnterEffect DEF IInv
<1>3. UNCHANGED <<Tables, store, bundle>>
  BY DEF BeginRemove, Tables, catalogue, knowledge, tenant
<1>4. Carries(req'[r])
  <2>1. docs[d] \in DocumentRow
    BY Typed DEF BeginRemove, Rows
  <2>2. docs[d].file \in BOOLEAN
    BY <2>1 DEF DocumentRow
  <2>3. docs[d].file => d \in Documents
    BY DEF BeginRemove, Rows, IInv, TablesInv
  <2> QED
    BY <1>2, <2>2, <2>3 DEF Carries, Asks, Asked
<1>5. ProbeKnows(r)' /\ IndexKnows(r)'
  BY <1>2 DEF ProbeKnows, IndexKnows, At, Ingesting
<1>6. StillReads(r)' /\ IndexModel(r)'
  BY <1>2 DEF StillReads, IndexModel, At
<1> QED
  BY <1>2, <1>3, <1>4, <1>5, <1>6, NothingChanged DEF Fits

LEMMA BeginSaveKeeps ==
  ASSUME IInv, NEW r \in Requests, NEW c \in Submitted,
         BeginSave(r, c)
  PROVE  IInv'
<1>1. Enter(r, "saving", c, [agent |-> agent, number |-> Newest, draft |-> versions[Newest].state = "DRAFT",
                            models |-> entry, tool |-> tool, base |-> base])
  BY DEF BeginSave
<1>2. /\ Others(r)
      /\ req'[r] = [at |-> "saving", arg |-> c, seen |-> [agent |-> agent, number |-> Newest, draft |-> versions[Newest].state = "DRAFT",
                            models |-> entry, tool |-> tool, base |-> base], clean |-> TRUE]
  BY <1>1, EnterEffect DEF IInv
<1>3. UNCHANGED <<Tables, store, bundle>>
  BY DEF BeginSave, Tables, catalogue, knowledge, tenant
<1>4. Carries(req'[r])
  <2>1. agent \in AgentRow /\ c \in Contents
    BY Typed, BundleAssumption DEF BeginSave, BundleAssumption
  <2> QED
    BY <1>2, <2>1, Typed DEF Carries
<1>5. ProbeKnows(r)' /\ IndexKnows(r)'
  BY <1>2 DEF ProbeKnows, IndexKnows, At, Ingesting
<1>6. StillReads(r)' /\ IndexModel(r)'
  BY <1>2 DEF StillReads, IndexModel, At
<1> QED
  BY <1>2, <1>3, <1>4, <1>5, <1>6, NothingChanged DEF Fits

LEMMA BeginDeleteToolKeeps ==
  ASSUME IInv, NEW r \in Requests,
         BeginDeleteTool(r)
  PROVE  IInv'
<1>1. Enter(r, "untooling", None, tool)
  BY DEF BeginDeleteTool
<1>2. /\ Others(r)
      /\ req'[r] = [at |-> "untooling", arg |-> None, seen |-> tool, clean |-> TRUE]
  BY <1>1, EnterEffect DEF IInv
<1>3. UNCHANGED <<Tables, store, bundle>>
  BY DEF BeginDeleteTool, Tables, catalogue, knowledge, tenant
<1>4. Carries(req'[r])
  <2>1. tool \in ToolRow
    BY Typed DEF BeginDeleteTool
  <2> QED
    BY <1>2, <2>1 DEF Carries
<1>5. ProbeKnows(r)' /\ IndexKnows(r)'
  BY <1>2 DEF ProbeKnows, IndexKnows, At, Ingesting
<1>6. StillReads(r)' /\ IndexModel(r)'
  BY <1>2, <1>3 DEF StillReads, IndexModel, At, Tables, BeginDeleteTool
<1> QED
  BY <1>2, <1>3, <1>4, <1>5, <1>6, NothingChanged DEF Fits

LEMMA BeginExportKeeps ==
  ASSUME IInv, NEW r \in Requests,
         BeginExport(r)
  PROVE  IInv'
<1>1. Enter(r, "exporting", None, [entry |-> entry, agent |-> agent, tool |-> tool, hours |-> hours])
  BY DEF BeginExport
<1>2. /\ Others(r)
      /\ req'[r] = [at |-> "exporting", arg |-> None, seen |-> [entry |-> entry, agent |-> agent, tool |-> tool, hours |-> hours], clean |-> TRUE]
  BY <1>1, EnterEffect DEF IInv
<1>3. UNCHANGED <<Tables, store, bundle>>
  BY DEF BeginExport, Tables, catalogue, knowledge, tenant
<1>4. Carries(req'[r])
  BY <1>2, Typed DEF Carries
<1>5. ProbeKnows(r)' /\ IndexKnows(r)'
  BY <1>2 DEF ProbeKnows, IndexKnows, At, Ingesting
<1>6. StillReads(r)' /\ IndexModel(r)'
  BY <1>2 DEF StillReads, IndexModel, At
<1> QED
  BY <1>2, <1>3, <1>4, <1>5, <1>6, NothingChanged DEF Fits

LEMMA BeginImportKeeps ==
  ASSUME IInv, NEW r \in Requests,
         BeginImport(r)
  PROVE  IInv'
<1>1. Enter(r, "importing", bundle, [entry |-> entry, agent |-> agent, tool |-> tool, number |-> Newest])
  BY DEF BeginImport
<1>2. /\ Others(r)
      /\ req'[r] = [at |-> "importing", arg |-> bundle, seen |-> [entry |-> entry, agent |-> agent, tool |-> tool, number |-> Newest], clean |-> TRUE]
  BY <1>1, EnterEffect DEF IInv
<1>3. UNCHANGED <<Tables, store, bundle>>
  BY DEF BeginImport, Tables, catalogue, knowledge, tenant
<1>4. Carries(req'[r])
  <2>1. BundleSound(bundle)
    BY DEF BeginImport, IInv, TablesInv
  <2> QED
    BY <1>2, <2>1, Typed DEF Carries
<1>5. ProbeKnows(r)' /\ IndexKnows(r)'
  BY <1>2 DEF ProbeKnows, IndexKnows, At, Ingesting
<1>6. StillReads(r)' /\ IndexModel(r)'
  BY <1>2, <1>3 DEF StillReads, IndexModel, At, Tables
<1> QED
  BY <1>2, <1>3, <1>4, <1>5, <1>6, NothingChanged DEF Fits

LEMMA BeginSeedKeeps ==
  ASSUME IInv, NEW r \in Requests, NEW dev \in BOOLEAN,
         BeginSeed(r, dev)
  PROVE  IInv'
<1>1. Enter(r, "seeding", [dev |-> dev], [slugs |-> Present])
  BY DEF BeginSeed
<1>2. /\ Others(r)
      /\ req'[r] = [at |-> "seeding", arg |-> [dev |-> dev], seen |-> [slugs |-> Present], clean |-> TRUE]
  BY <1>1, EnterEffect DEF IInv
<1>3. UNCHANGED <<Tables, store, bundle>>
  BY DEF BeginSeed, Tables, catalogue, knowledge, tenant
<1>4. Carries(req'[r])
  BY <1>2 DEF Carries, Present
<1>5. ProbeKnows(r)' /\ IndexKnows(r)'
  BY <1>2 DEF ProbeKnows, IndexKnows, At, Ingesting
<1>6. StillReads(r)' /\ IndexModel(r)'
  BY <1>2 DEF StillReads, IndexModel, At
<1> QED
  BY <1>2, <1>3, <1>4, <1>5, <1>6, NothingChanged DEF Fits

LEMMA BeginSetModelKeeps ==
  ASSUME IInv, NEW r \in Requests, NEW e \in Entries,
         BeginSetModel(r, e)
  PROVE  IInv'
<1>1. Enter(r, "pointing", [slug |-> e], [row |-> entry[e], agent |-> agent, number |-> Newest])
  BY DEF BeginSetModel
<1>2. /\ Others(r)
      /\ req'[r] = [at |-> "pointing", arg |-> [slug |-> e], seen |-> [row |-> entry[e], agent |-> agent, number |-> Newest], clean |-> TRUE]
  BY <1>1, EnterEffect DEF IInv
<1>3. UNCHANGED <<Tables, store, bundle>>
  BY DEF BeginSetModel, Tables, catalogue, knowledge, tenant
<1>4. Carries(req'[r])
  <2>1. agent \in AgentRow /\ entry[e] \in EntryRow \cup {None}
    BY Typed DEF BeginSetModel, EntryTable
  <2> QED
    BY <1>2, <2>1, Typed DEF Carries
<1>5. ProbeKnows(r)' /\ IndexKnows(r)'
  BY <1>2 DEF ProbeKnows, IndexKnows, At, Ingesting
<1>6. StillReads(r)' /\ IndexModel(r)'
  BY <1>2 DEF StillReads, IndexModel, At
<1> QED
  BY <1>2, <1>3, <1>4, <1>5, <1>6, NothingChanged DEF Fits

-----------------------------------------------------------------------------
(* The catalogue *)

\* Entries that change keep the tables sound if every one a version names stays.
LEMMA EntriesChange ==
  ASSUME TablesInv, UNCHANGED <<key, accepted, versions, knowledge, tenant, bundle>>,
         provider' \in {"ACTIVE", "DISABLED"}, entry' \in EntryTable, Named \subseteq Present'
  PROVE  TablesInv'
<1>1. TypeOK'
  BY DEF TablesInv, TypeOK, EntryTable, knowledge, tenant, Rows, Newest
<1>2. NamedExist'
  BY DEF NamedExist, Named
<1>3. FileExists'
  BY DEF TablesInv, FileExists, knowledge, Rows
<1> QED
  BY <1>1, <1>2, <1>3 DEF TablesInv, knowledge, Rows, BundleSound

LEMMA ProviderKeeps ==
  ASSUME IInv, NEW r \in Requests, Disable(r) \/ Enable(r), UNCHANGED <<knowledge, tenant, bundle>>
  PROVE  IInv'
<1>1. Fair(r) /\ req'[r] = State("done")
  <2>1. CASE Disable(r)
    BY <2>1, CommitEnds DEF Disable, At
  <2>2. CASE Enable(r)
    BY <2>2, HandleEnds DEF Enable
  <2> QED
    BY <2>1, <2>2
<1>2. UNCHANGED <<entry, key, accepted, versions>> /\ provider' \in {"ACTIVE", "DISABLED"}
  BY DEF Disable, Enable
<1>3. entry' \in EntryTable /\ Named \subseteq Present'
  BY <1>2, Typed DEF IInv, TablesInv, NamedExist, Present
<1>4. TablesInv'
  BY <1>2, <1>3, EntriesChange DEF IInv
<1> QED
  BY <1>1, <1>2, <1>4, EndsApart

\* Clearing defaults removes no entry.
LEMMA ClearedTyped ==
  ASSUME entry \in EntryTable, NEW cleared
  PROVE  /\ Cleared(cleared) \in EntryTable
         /\ \A e \in Entries : Cleared(cleared)[e] = None <=> entry[e] = None
<1>1. ASSUME NEW e \in Entries
      PROVE  /\ Cleared(cleared)[e] \in EntryRow \cup {None}
             /\ Cleared(cleared)[e] = None <=> entry[e] = None
  <2>1. CASE entry[e] = None
    BY <2>1 DEF Cleared
  <2>2. CASE entry[e] # None
    <3>1. entry[e] \in EntryRow
      BY <2>2 DEF EntryTable
    <3>2. [entry[e] EXCEPT !.default = FALSE] \in EntryRow
      BY <3>1 DEF EntryRow
    <3>3. None \notin EntryRow
      BY CatalogueAssumption DEF CatalogueAssumption
    <3> QED
      BY <3>1, <3>2, <3>3 DEF Cleared
  <2> QED
    BY <2>1, <2>2
<1> QED
  BY <1>1 DEF Cleared, EntryTable

LEMMA NewEntryTyped ==
  ASSUME NEW by \in Ids, NEW default \in BOOLEAN
  PROVE  NewEntry(by, default) \in EntryRow /\ NewEntry(by, default) # None
<1>1. NewEntry(by, default) \in EntryRow
  BY DEF NewEntry, EntryRow
<1> QED
  BY <1>1, CatalogueAssumption DEF CatalogueAssumption

\* The entry the request is about becomes another row, and the defaults it saw are cleared.
LEMMA EntryWritten ==
  ASSUME IInv, NEW r \in Requests, req[r].at # "done", Commits(r), NEW e \in Entries, NEW cleared,
         NEW row \in EntryRow, entry' = [Cleared(cleared) EXCEPT ![e] = row],
         UNCHANGED <<provider, key, accepted, versions, knowledge, tenant, bundle>>
  PROVE  IInv'
<1>1. entry \in EntryTable /\ None \notin EntryRow
  BY Typed, CatalogueAssumption DEF CatalogueAssumption
<1>2. /\ Cleared(cleared) \in EntryTable
      /\ \A x \in Entries : Cleared(cleared)[x] = None <=> entry[x] = None
  BY <1>1, ClearedTyped
<1>3. entry' \in EntryTable
  BY <1>2 DEF EntryTable
<1>4. Present \subseteq Present'
  BY <1>1, <1>2 DEF Present, EntryTable
<1>5. Named \subseteq Present' /\ provider' \in {"ACTIVE", "DISABLED"}
  BY <1>4 DEF IInv, TablesInv, NamedExist, TypeOK
<1>6. TablesInv'
  BY <1>3, <1>5, EntriesChange DEF IInv
<1>7. Fair(r) /\ req'[r] = State("done")
  BY CommitEnds
<1> QED
  BY <1>6, <1>7, EndsApart

LEMMA CreateKeeps ==
  ASSUME IInv, NEW r \in Requests, Create(r), UNCHANGED <<knowledge, tenant, bundle>>
  PROVE  IInv'
<1> PICK e : e = req[r].arg.slug
  OBVIOUS
<1>1. e \in Entries /\ req[r].arg.default \in BOOLEAN /\ req[r].at # "done"
  BY DEF Create, At, IInv, RequestsInv, Fits, Carries
<1>2. CASE entry[e] # None
  BY <1>1, <1>2, RollsKeeps DEF Create, Tables, knowledge, tenant
<1>3. CASE entry[e] = None
  <2>1. NewEntry(r, req[r].arg.default) \in EntryRow
    BY <1>1, NewEntryTyped DEF Ids
  <2>2. /\ Commits(r)
        /\ entry' = [Cleared(req[r].seen.clears) EXCEPT ![e] = NewEntry(r, req[r].arg.default)]
    BY <1>3 DEF Create
  <2>3. UNCHANGED <<provider, key, accepted, versions>>
    BY DEF Create
  <2> QED
    BY <1>1, <2>1, <2>2, <2>3, EntryWritten
<1> QED
  BY <1>2, <1>3

LEMMA UpdateKeeps ==
  ASSUME IInv, NEW r \in Requests, Update(r), UNCHANGED <<knowledge, tenant, bundle>>
  PROVE  IInv'
<1> PICK e : e = req[r].arg.slug
  OBVIOUS
<1> PICK c : c = req[r].arg.change
  OBVIOUS
<1> PICK s : s = req[r].seen
  OBVIOUS
<1>1. /\ e \in Entries /\ c \in Changes /\ s.row \in EntryRow /\ req[r].at # "done"
      /\ UNCHANGED <<provider, key, accepted, versions>>
  BY DEF Update, At, IInv, RequestsInv, Fits, Carries
<1>2. CASE ~Same(s.row, entry[e])
  BY <1>1, <1>2, RollsKeeps DEF Update, Tables, knowledge, tenant
<1>3. CASE Same(s.row, entry[e])
  <2>1. entry \in EntryTable /\ None \notin EntryRow
    BY Typed, CatalogueAssumption DEF CatalogueAssumption
  <2>2. entry[e] # None
    BY <1>1, <1>3, <2>1 DEF Same
  <2>3. /\ Cleared(s.clears) \in EntryTable
        /\ Cleared(s.clears)[e] # None
    BY <1>1, <2>1, <2>2, ClearedTyped
  <2> PICK old : old = Cleared(s.clears)[e]
    OBVIOUS
  <2> PICK row : row = [old EXCEPT ![c.field] = Flushed(s.row[c.field], c.to, @)]
    OBVIOUS
  <2>4. old \in EntryRow
    BY <2>3, <1>1 DEF EntryTable
  <2>5. c.field \in {"default", "active"} /\ c.to \in BOOLEAN
    BY <1>1 DEF Changes
  <2>6. row \in EntryRow
    <3>1. CASE c.field = "default"
      BY <3>1, <2>4, <2>5, SMTT(30) DEF EntryRow, Flushed
    <3>2. CASE c.field = "active"
      BY <3>2, <2>4, <2>5 DEF EntryRow, Flushed
    <3> QED
      BY <3>1, <3>2, <2>5, Zenon
  <2>7. /\ Commits(r)
        /\ entry' = [Cleared(s.clears) EXCEPT ![e][c.field] = Flushed(s.row[c.field], c.to, @)]
    BY <1>3, Zenon DEF Update
  <2>8. entry' = [Cleared(s.clears) EXCEPT ![e] = row]
    BY <2>7, <2>3, <1>1, Zenon DEF EntryTable
  <2>9. Commits(r) /\ UNCHANGED <<provider, key, accepted, versions, knowledge, tenant, bundle>>
    BY <1>1, <2>7, Zenon
  <2> QED
    BY <1>1, <2>6, <2>8, <2>9, EntryWritten, Zenon
<1> QED
  BY <1>2, <1>3

\* The foreign key: an entry some version names stays.
LEMMA DeleteKeeps ==
  ASSUME IInv, NEW r \in Requests, Delete(r), UNCHANGED <<knowledge, tenant, bundle>>
  PROVE  IInv'
<1> PICK e : e = req[r].arg.slug
  OBVIOUS
<1>1. /\ e \in Entries /\ req[r].at # "done"
      /\ UNCHANGED <<provider, key, accepted, versions>>
  BY DEF Delete, At, IInv, RequestsInv, Fits, Carries
<1>2. CASE Rolls(r) /\ UNCHANGED entry
  BY <1>1, <1>2, RollsKeeps DEF Tables, knowledge, tenant
<1>3. CASE /\ Commits(r)
           /\ (Deletable(e) /\ entry' = [entry EXCEPT ![e] = None]) \/ UNCHANGED entry
  <2>1. entry' \in EntryTable
    BY <1>3, Typed DEF EntryTable
  <2>2. Named \subseteq Present' /\ provider' \in {"ACTIVE", "DISABLED"}
    BY <1>1, <1>3, Typed DEF IInv, TablesInv, TypeOK, NamedExist, Present, Deletable, EntryTable
  <2>3. TablesInv'
    BY <1>1, <2>1, <2>2, EntriesChange DEF IInv
  <2>4. Fair(r) /\ req'[r] = State("done")
    BY <1>1, <1>3, CommitEnds
  <2> QED
    BY <1>1, <2>3, <2>4, EndsApart
<1> QED
  BY <1>2, <1>3 DEF Delete

(* Keys *)

LEMMA KeysChange ==
  ASSUME TablesInv, key' \in [Labels -> KeyRow \cup {None}], accepted' \subseteq Keys,
         UNCHANGED <<provider, entry, versions, knowledge, tenant, bundle>>
  PROVE  TablesInv'
<1>1. TypeOK'
  BY DEF TablesInv, TypeOK, knowledge, tenant, Rows, Newest
<1>2. NamedExist' /\ FileExists'
  BY DEF TablesInv, NamedExist, Named, Present, FileExists, knowledge, Rows
<1> QED
  BY <1>1, <1>2 DEF TablesInv, knowledge, Rows, BundleSound

\* Files and documents stay apart from keys.
LEMMA KeysApart ==
  ASSUME IInv, NEW r \in Requests, Fair(r), UNCHANGED knowledge,
         \A q \in Requests \ {r} : ProbeKnows(q)'
  PROVE  Apart(r)
BY OthersIndex DEF Apart, Fair, IInv

LEMMA StoreKeeps ==
  ASSUME IInv, NEW r \in Requests, Store(r), UNCHANGED <<knowledge, tenant, bundle>>
  PROVE  IInv'
<1> PICK l : l = req[r].arg.label
  OBVIOUS
<1> PICK old : old = req[r].seen
  OBVIOUS
<1>1. /\ l \in Labels /\ req[r].arg.key \in Keys /\ old \in KeyRow \cup {None}
      /\ req[r].at \in {"storing", "rotating"} /\ req[r].at # "done"
      /\ UNCHANGED <<provider, entry, accepted, versions>>
  BY DEF Store, IInv, RequestsInv, Fits, Carries
<1>2. CASE ~Same(old, key[l])
  BY <1>1, <1>2, RollsKeeps DEF Store, Tables, knowledge, tenant
<1>3. CASE Same(old, key[l])
  <2>1. Commits(r) /\ key' = [key EXCEPT ![l] = Stored(r)]
    BY <1>3 DEF Store
  <2>2. Fair(r) /\ req'[r] = State("done")
    BY <1>1, <2>1, CommitEnds
  <2>3. key \in [Labels -> KeyRow \cup {None}] /\ None \notin KeyRow
    BY Typed, CatalogueAssumption DEF CatalogueAssumption
  <2>4. old # None => key[l] \in KeyRow /\ key[l].id = old.id /\ l \in Held
    BY <1>1, <1>3, <2>3 DEF Same, Held
  <2>5. Stored(r) \in KeyRow
    <3>1. CASE old = None
      BY <3>1, <1>1 DEF Stored, NewKey, KeyRow, Ids
    <3>2. CASE old # None
      BY <3>2, <1>1, <2>4 DEF Stored, KeyRow, Flushed
    <3> QED
      BY <3>1, <3>2
  <2>6. key' \in [Labels -> KeyRow \cup {None}] /\ accepted' \subseteq Keys
    BY <1>1, <2>1, <2>3, <2>5 DEF IInv, TablesInv
  <2>7. TablesInv'
    BY <1>1, <2>6, KeysChange DEF IInv
  \* A key that is put comes without a tick.
  <2>8. Stored(r).how = "put" => Stored(r).verified = FALSE
    <3>1. CASE old = None
      BY <3>1 DEF Stored, NewKey
    <3>2. CASE old # None
      <4>1. SUFFICES ASSUME At(r, "storing"), req[r].clean PROVE Stored(r).verified = FALSE
        BY <3>2 DEF Stored
      <4>2. key[l] = old
        BY <4>1 DEF IInv, RequestsInv, Fits, StillReads
      <4>3. old.verified \in BOOLEAN
        BY <1>1, <3>2 DEF KeyRow
      <4> QED
        BY <3>2, <4>1, <4>2, <4>3 DEF Stored, Flushed
    <3> QED
      BY <3>1, <3>2
  <2>9. TickIsEarned'
    BY <1>1, <2>1, <2>3, <2>8 DEF IInv, KeysInv, TickIsEarned, Held
  <2> PICK new : new = Stored(r)
    OBVIOUS
  <2>10. Settled(new.id)'
    <3>1. CASE old = None
      BY <3>1, <2>2 DEF Stored, NewKey, Settled, State
    <3>2. CASE old # None
      <4>1. Settled(key[l].id)
        BY <2>4, <3>2 DEF IInv, KeysInv
      <4>2. new.id = key[l].id
        BY <3>2, <2>4 DEF Stored
      <4>3. \A i : Settled(i) => Settled(i)'
        BY <2>2, SettledStays DEF Fair
      <4> QED
        BY <4>1, <4>2, <4>3
    <3> QED
      BY <3>1, <3>2
  <2>11. KeysInv'
    <3>1. ASSUME NEW m \in Held' PROVE Settled(key[m].id)'
      <4>1. CASE m = l
        <5>1. key'[m] = new
          BY <4>1, <1>1, <2>1, <2>3
        <5> QED
          BY <5>1, <2>10 DEF Settled
      <4>2. CASE m # l
        <5>1. key'[m] = key[m] /\ m \in Held
          BY <4>2, <3>1, <2>1, <2>3 DEF Held
        <5>2. Settled(key[m].id)
          BY <5>1 DEF IInv, KeysInv
        <5>3. \A i : Settled(i) => Settled(i)'
          BY <2>2, SettledStays DEF Fair
        <5> QED
          BY <5>1, <5>2, <5>3 DEF Settled
      <4> QED
        BY <4>1, <4>2
    <3> QED
      BY <2>9, <3>1 DEF KeysInv
  <2>12. ASSUME NEW q \in Requests \ {r} PROVE ProbeKnows(q)'
    <3>1. /\ req'[q].at = req[q].at /\ req'[q].arg = req[q].arg /\ req'[q].seen = req[q].seen
          /\ ProbeKnows(q) /\ Carries(req[q])
      BY <2>2 DEF Fair, Others, IInv, RequestsInv, Fits
    <3> SUFFICES ASSUME req[q].at = "probing" PROVE ProbeKnows(q)'
      BY <3>1 DEF ProbeKnows, At
    <3>2. Settled(req[q].seen.id)
      BY <3>1 DEF ProbeKnows, At
    <3>3. Settled(req[q].seen.id)'
      <4>1. \A i : Settled(i) => Settled(i)'
        BY <2>2, SettledStays DEF Fair
      <4> QED
        BY <4>1, <3>1, <3>2 DEF Settled
    <3>4. CASE req[q].arg.label # l
      BY <3>1, <3>3, <3>4, <2>1, <2>3 DEF ProbeKnows, At, Carries, Same
    <3>5. CASE req[q].arg.label = l
      <4>1. q \in Probing(l)
        BY <3>5 DEF Probing, At
      <4>2. CASE old # None
        <5>1. Stored(r).how = "raced"
          BY <4>1, <4>2 DEF Stored
        <5> QED
          BY <3>1, <3>3, <3>5, <5>1, <2>1, <2>3, <1>1 DEF ProbeKnows, At
      \* The new row is nobody's who could have read it.
      <4>3. CASE old = None
        <5>1. Stored(r).id = r /\ Stored(r) # None
          BY <4>3, <2>5, <2>3 DEF Stored, NewKey
        <5>2. req[q].seen \in KeyRow
          BY <3>1 DEF Carries
        <5>3. req[q].seen.id # r
          BY <3>2, <1>1, CatalogueAssumption DEF Settled, CatalogueAssumption
        <5>4. ~Same(req[q].seen, Stored(r))
          BY <5>1, <5>2, <5>3, <2>3 DEF Same
        <5> QED
          BY <3>1, <3>3, <3>5, <5>4, <2>1, <2>3, <1>1 DEF ProbeKnows, At, Same
      <4> QED
        BY <4>2, <4>3
    <3> QED
      BY <3>4, <3>5
  <2>13. Apart(r)
    BY <2>2, <2>12, KeysApart
  <2> QED
    BY <2>2, <2>7, <2>11, <2>13, EndsKeeps
<1> QED
  BY <1>2, <1>3

\* A probe ticks the row whose key it tried, and no other key has taken its place unnoticed.
LEMMA ProbedKeeps ==
  ASSUME IInv, NEW r \in Requests, Probed(r), UNCHANGED <<knowledge, tenant, bundle>>
  PROVE  IInv'
<1> PICK l : l = req[r].arg.label
  OBVIOUS
<1> PICK seen : seen = req[r].seen
  OBVIOUS
<1>1. /\ l \in Labels /\ seen \in KeyRow /\ req[r].at = "probing"
      /\ UNCHANGED <<provider, entry, versions>>
  BY DEF Probed, At, IInv, RequestsInv, Fits, Carries
<1>2. CASE Rolls(r) /\ UNCHANGED <<key, accepted>>
  BY <1>1, <1>2, RollsKeeps DEF Tables, knowledge, tenant
<1>3. CASE /\ Same(seen, key[l]) /\ key' = [key EXCEPT ![l].verified = TRUE]
           /\ accepted' = accepted \cup {seen.key} /\ Commits(r)
  <2>1. Fair(r) /\ req'[r] = State("done")
    BY <1>1, <1>3, CommitEnds
  <2>2. key \in [Labels -> KeyRow \cup {None}] /\ None \notin KeyRow
    BY Typed, CatalogueAssumption DEF CatalogueAssumption
  <2>3. key[l] \in KeyRow /\ l \in Held
    BY <1>1, <1>3, <2>2 DEF Same, Held
  <2> PICK new : new = [key[l] EXCEPT !.verified = TRUE]
    OBVIOUS
  <2>4. /\ new \in KeyRow /\ new.id = key[l].id /\ new.key = key[l].key /\ new.how = key[l].how
        /\ key' = [key EXCEPT ![l] = new]
    BY <1>1, <1>3, <2>2, <2>3, Zenon DEF KeyRow
  <2>5. key' \in [Labels -> KeyRow \cup {None}] /\ accepted' \subseteq Keys
    BY <1>1, <1>3, <2>2, <2>4 DEF IInv, TablesInv, KeyRow
  <2>6. TablesInv'
    BY <1>1, <2>5, KeysChange DEF IInv
  <2>7. new.how = "put" => new.key \in accepted'
    <3>1. ProbeKnows(r)
      BY SMTT(30) DEF IInv, RequestsInv, Fits
    <3> QED
      BY <1>1, <1>3, <2>4, <3>1 DEF ProbeKnows, At
  <2>8. TickIsEarned'
    BY <1>1, <1>3, <2>2, <2>4, <2>7 DEF IInv, KeysInv, TickIsEarned, Held
  <2>9. ASSUME NEW m \in Held' PROVE Settled(key[m].id)'
    <3>1. m \in Held /\ key'[m].id = key[m].id
      BY <2>2, <2>3, <2>4, <2>9 DEF Held
    <3>2. Settled(key[m].id)
      BY <3>1 DEF IInv, KeysInv
    <3>3. \A i : Settled(i) => Settled(i)'
      BY <2>1, SettledStays DEF Fair
    <3> QED
      BY <3>1, <3>2, <3>3 DEF Settled
  <2>10. ASSUME NEW q \in Requests \ {r} PROVE ProbeKnows(q)'
    <3>1. /\ req'[q].at = req[q].at /\ req'[q].arg = req[q].arg /\ req'[q].seen = req[q].seen
          /\ ProbeKnows(q) /\ Carries(req[q])
      BY <2>1 DEF Fair, Others, IInv, RequestsInv, Fits
    <3> SUFFICES ASSUME req[q].at = "probing" PROVE ProbeKnows(q)'
      BY <3>1 DEF ProbeKnows, At
    <3> PICK m : m = req[q].arg.label
      OBVIOUS
    <3>2. m \in Labels
      BY <3>1 DEF Carries
    <3>3. \A i : Settled(i) => Settled(i)'
      BY <2>1, SettledStays DEF Fair
    <3>4. Settled(req[q].seen.id)'
      BY <3>1, <3>3, SMTT(30) DEF ProbeKnows, At, Settled
    <3>5. \/ key'[m] = key[m]
          \/ /\ key[m] # None /\ key'[m] # None /\ key'[m].id = key[m].id
             /\ key'[m].key = key[m].key /\ key'[m].how = key[m].how
      BY <2>2, <2>3, <2>4, <3>2
    <3> QED
      BY <3>1, <3>4, <3>5 DEF ProbeKnows, At, Same
  <2>11. KeysInv' /\ Apart(r)
    BY <2>1, <2>8, <2>9, <2>10, KeysApart DEF KeysInv
  <2> QED
    BY <2>1, <2>6, <2>11, EndsKeeps
<1> QED
  BY <1>2, <1>3 DEF Probed

LEMMA DeleteKeyKeeps ==
  ASSUME IInv, NEW r \in Requests, NEW l \in Labels, DeleteKey(r, l),
         UNCHANGED <<knowledge, tenant, bundle>>
  PROVE  IInv'
<1>1. Fair(r) /\ req'[r] = State("done")
  BY HandleEnds DEF DeleteKey
<1>2. key' = [key EXCEPT ![l] = None] /\ UNCHANGED <<provider, entry, accepted, versions>>
  BY DEF DeleteKey
<1>3. key \in [Labels -> KeyRow \cup {None}] /\ None \notin KeyRow
  BY Typed, CatalogueAssumption DEF CatalogueAssumption
<1>4. key' \in [Labels -> KeyRow \cup {None}] /\ accepted' \subseteq Keys
  BY <1>2, <1>3 DEF IInv, TablesInv
<1>5. TablesInv'
  BY <1>2, <1>4, KeysChange DEF IInv
<1>6. ASSUME NEW m \in Held' PROVE m \in Held /\ key'[m] = key[m]
  BY <1>6, <1>2, <1>3 DEF Held
<1>7. TickIsEarned'
  BY <1>2, <1>6 DEF TickIsEarned, IInv, KeysInv
<1>8. \A i : Settled(i) => Settled(i)'
  BY <1>1, SettledStays DEF Fair
<1>9. \A m \in Held' : Settled(key[m].id)'
  BY <1>6, <1>8 DEF IInv, KeysInv, Settled
<1>10. ASSUME NEW q \in Requests \ {r} PROVE ProbeKnows(q)'
  <2>1. /\ req'[q].at = req[q].at /\ req'[q].arg = req[q].arg /\ req'[q].seen = req[q].seen
        /\ ProbeKnows(q) /\ Carries(req[q])
    BY <1>1 DEF Fair, Others, IInv, RequestsInv, Fits
  <2> SUFFICES ASSUME req[q].at = "probing" PROVE ProbeKnows(q)'
    BY <2>1 DEF ProbeKnows, At
  <2>2. Settled(req[q].seen.id)'
    BY <2>1, <1>8 DEF ProbeKnows, At, Settled
  <2>3. req[q].seen \in KeyRow /\ req[q].arg.label \in Labels
    BY <2>1 DEF Carries
  <2>4. \/ key'[req[q].arg.label] = key[req[q].arg.label]
        \/ key'[req[q].arg.label] = None
    BY <1>2, <1>3, <2>3
  <2> QED
    BY <1>3, <2>1, <2>2, <2>3, <2>4 DEF ProbeKnows, At, Same
<1>11. KeysInv' /\ Apart(r)
  BY <1>1, <1>7, <1>9, <1>10, KeysApart DEF KeysInv
<1> QED
  BY <1>1, <1>5, <1>11, EndsKeeps

-----------------------------------------------------------------------------
(* The knowledge base *)

\* A base that stays, or is there anew, takes nothing from who works in it.
LEMMA BaseApart ==
  ASSUME IInv, NEW r \in Requests, Fair(r), UNCHANGED <<key, docs, store>>, base' = base \/ base' # None
  PROVE  Apart(r)
<1>1. ASSUME NEW q \in Requests \ {r} PROVE IndexKnows(q)'
  <2>1. IndexKnows(q) /\ req'[q].at = req[q].at /\ req'[q].arg = req[q].arg
    BY DEF Fair, Others, IInv, RequestsInv, Fits
  <2> QED
    BY <2>1 DEF IndexKnows, Ingesting, At
<1> QED
  BY <1>1, OthersProbe DEF Apart, Fair, IInv

LEMMA NewBaseTyped ==
  ASSUME NEW r \in Requests, NEW m \in Spaces \cup {None}
  PROVE  NewBase(r, m) \in BaseRow /\ NewBase(r, m) # None
<1>1. NewBase(r, m) \in BaseRow
  BY DEF NewBase, BaseRow, Ids
<1> QED
  BY <1>1, KnowledgeAssumption DEF KnowledgeAssumption

LEMMA BaseWritten ==
  ASSUME TablesInv, base' \in BaseRow,
         UNCHANGED <<provider, entry, key, accepted, versions, tenant, docs, store, bundle>>
  PROVE  TablesInv'
<1>1. base' # None
  BY KnowledgeAssumption DEF KnowledgeAssumption
<1>2. TypeOK'
  BY <1>1 DEF TablesInv, TypeOK, tenant, Newest
<1> QED
  BY <1>2 DEF TablesInv, NamedExist, Named, Present, FileExists, Rows, BundleSound

LEMMA BaseKeeps ==
  ASSUME IInv, NEW r \in Requests, NEW m \in Spaces \cup {None},
         CreateBase(r, m) \/ UpdateBase(r, m), UNCHANGED <<tenant, bundle>>
  PROVE  IInv'
<1>1. Fair(r) /\ req'[r] = State("done")
  BY HandleEnds DEF CreateBase, UpdateBase
<1>2. UNCHANGED <<catalogue, versions, docs, store>>
  BY DEF CreateBase, UpdateBase
<1>3. base' \in BaseRow
  <2>1. CASE CreateBase(r, m)
    BY <2>1, NewBaseTyped DEF CreateBase
  <2>2. CASE UpdateBase(r, m)
    <3>1. base \in BaseRow /\ base' = [base EXCEPT !.model = m]
      BY <2>2, Typed DEF UpdateBase
    <3> QED
      BY <3>1 DEF BaseRow
  <2> QED
    BY <2>1, <2>2
<1>4. base' # None
  BY <1>3, KnowledgeAssumption DEF KnowledgeAssumption
<1>5. TablesInv'
  BY <1>2, <1>3, BaseWritten DEF IInv, catalogue
<1>6. KeysInv' /\ Apart(r)
  BY <1>1, <1>2, <1>4, KeysKept, BaseApart DEF IInv, Fair, catalogue
<1> QED
  BY <1>1, <1>5, <1>6, EndsKeeps

\* A sequence of rows is one by its rows.
LEMMA RowsTyped ==
  ASSUME NEW n \in Nat, NEW s, s = [i \in 1..n |-> s[i]], \A i \in 1..n : s[i] \in VersionRow
  PROVE  s \in Seq(VersionRow) /\ Len(s) = n /\ DOMAIN s = 1..n
<1>1. s \in [1..n -> VersionRow] /\ DOMAIN s = 1..n
  OBVIOUS
<1>2. s \in Seq(VersionRow)
  BY <1>1, SeqDef
<1> QED
  BY <1>1, <1>2, LenProperties

LEMMA DeleteBaseKeeps ==
  ASSUME IInv, NEW r \in Requests, DeleteBase(r), UNCHANGED <<tenant, bundle>>
  PROVE  IInv'
<1>1. At(r, "closing") /\ Ingesting = {} /\ Commits(r) /\ UNCHANGED <<catalogue, store>>
  BY DEF DeleteBase
<1>2. Fair(r) /\ req'[r] = State("done")
  BY <1>1, CommitEnds DEF At
<1>3. KeysInv'
  BY <1>1, <1>2, KeysKept DEF IInv, Fair, catalogue
<1>4. CASE UNCHANGED <<base, docs, versions>>
  <2>1. TablesInv'
    BY <1>1, <1>4, TablesKept DEF IInv, Tables, catalogue, tenant
  <2> QED
    BY <1>1, <1>2, <1>4, <2>1, EndsApart DEF catalogue, knowledge
<1>5. CASE /\ base' = None
           /\ docs' = [d \in DOMAIN docs |-> IF d \in Rows THEN Gone ELSE docs[d]]
           /\ versions' = [n \in DOMAIN versions |-> [versions[n] EXCEPT !.kb = FALSE]]
  <2>1. \A n \in DOMAIN versions : versions[n] \in VersionRow
    BY Typed
  <2>2. DOMAIN versions' = DOMAIN versions /\ versions' = [n \in DOMAIN versions |-> versions'[n]]
    BY <1>5
  <2>3. \A n \in DOMAIN versions : /\ versions'[n] \in VersionRow /\ versions'[n].model = versions[n].model
                                   /\ versions'[n].kb = FALSE
                                   /\ versions'[n].grant = versions[n].grant
    BY <1>5, <2>1 DEF VersionRow
  <2>4. versions' \in Seq(VersionRow) /\ Newest' = Newest /\ DOMAIN versions' = 1..Newest
    <3>1. Newest \in Nat /\ DOMAIN versions = 1..Newest
      BY Typed
    <3> QED
      BY <2>2, <2>3, <3>1, RowsTyped DEF Newest
  <2>5. /\ docs' \in [Documents \cup {House} -> DocumentRow \cup {None, Gone}]
        /\ Rows' = {} /\ \A d \in Documents \cup {House} : docs[d] = Gone => docs'[d] = Gone
    BY <1>5, Typed DEF Rows
  <2>6. TypeOK'
    <3>1. agent = None => versions' = <<>>
      <4>1. agent = None => Newest = 0
        BY DEF IInv, TablesInv, TypeOK, Newest
      <4> QED
        BY <4>1, <2>4 DEF Newest
    <3>2. tool = None => \A n \in DOMAIN versions' : ~versions'[n].grant
      BY <2>2, <2>3 DEF IInv, TablesInv, TypeOK
    <3>3. \A n \in DOMAIN versions' : ~versions'[n].kb
      BY <2>2, <2>3
    <3> QED
      BY <1>1, <1>5, <2>4, <2>5, <3>1, <3>2, <3>3 DEF IInv, TablesInv, TypeOK, catalogue, tenant
  <2>7. NamedExist'
    <3>1. Named' = Named
      BY <2>2, <2>3 DEF Named
    <3> QED
      BY <1>1, <3>1 DEF IInv, TablesInv, NamedExist, Present, catalogue
  <2>8. TablesInv'
    BY <1>1, <2>5, <2>6, <2>7 DEF IInv, TablesInv, FileExists, catalogue, BundleSound
  <2>9. Apart(r)
    <3>1. ASSUME NEW q \in Requests \ {r} PROVE IndexKnows(q)'
      <4>1. /\ IndexKnows(q) /\ req'[q].at = req[q].at /\ req'[q].arg = req[q].arg
            /\ q \notin Ingesting
        BY <1>1, <1>2 DEF Fair, Others, IInv, RequestsInv, Fits
      <4> QED
        BY <4>1, <1>1, <2>5 DEF IndexKnows, Ingesting, At
    <3> QED
      BY <1>1, <1>2, <3>1, OthersProbe DEF Apart, Fair, IInv, catalogue
  <2> QED
    BY <1>2, <1>3, <2>8, <2>9, EndsKeeps
<1> QED
  BY <1>4, <1>5 DEF DeleteBase

(* Files and documents *)

LEMMA FilesChange ==
  ASSUME TablesInv, UNCHANGED Tables, UNCHANGED bundle, store' \subseteq Documents,
         \A d \in Rows : docs[d].file => d \in store'
  PROVE  TablesInv'
<1>1. TypeOK'
  BY DEF TablesInv, TypeOK, Tables, Rows, Newest
<1> QED
  BY <1>1 DEF TablesInv, Tables, NamedExist, Named, Present, FileExists, Rows, BundleSound

LEMMA PutKeeps ==
  ASSUME IInv, NEW r \in Requests, Put(r), UNCHANGED <<tenant, bundle>>
  PROVE  IInv'
<1> PICK d : d = req[r].arg.doc
  OBVIOUS
<1>1. /\ At(r, "uploading") /\ req[r].arg \in Asked /\ req[r].arg.file /\ d \in Documents
      /\ Carries(req[r]) /\ IndexKnows(r)
  BY DEF Put, At, IInv, RequestsInv, Fits, Carries
<1>2. UNCHANGED Tables /\ UNCHANGED bundle /\ UNCHANGED <<key, accepted>>
  BY DEF Put, Tables, catalogue, tenant
<1>3. store' \in {store, store \cup {d}} /\ Others(r)
  BY <1>1, MovesEffect, OneEffect DEF Put, At, Rolls, IInv
<1>4. Fair(r)
  BY <1>2, <1>3 DEF Fair
<1>5. TablesInv'
  <2>1. store' \subseteq Documents /\ \A x \in Rows : docs[x].file => x \in store'
    BY <1>1, <1>3 DEF IInv, TablesInv, TypeOK, FileExists
  <2> QED
    BY <1>2, <2>1, FilesChange DEF IInv
<1>6. KeysInv'
  BY <1>2, <1>3, KeysKept DEF IInv
<1>7. Apart(r)
  <2>1. ASSUME NEW q \in Requests \ {r} PROVE IndexKnows(q)'
    <3>1. IndexKnows(q) /\ req'[q].at = req[q].at /\ req'[q].arg = req[q].arg
      BY <1>3 DEF Others, IInv, RequestsInv, Fits
    <3> QED
      BY <1>2, <1>3, <3>1 DEF IndexKnows, Ingesting, At, Tables
  <2> QED
    BY <1>2, <1>3, <2>1, OthersProbe DEF Apart, IInv
<1>8. Fits(r)'
  <2>1. CASE Rolls(r)
    BY <2>1, <1>1, OneEffect, EndedFits DEF Rolls, At, IInv
  <2>2. CASE Moves(r, "indexing", None) /\ store' = store \cup {d}
    <3>1. req'[r] = [req[r] EXCEPT !.at = "indexing", !.seen = None]
      BY <2>2, <1>1, MovesEffect DEF At, IInv
    <3>2. /\ req'[r].at = "indexing" /\ req'[r].seen = None /\ req'[r].arg = req[r].arg
          /\ DOMAIN req'[r] = {"at", "arg", "seen", "clean"} /\ req'[r].clean \in BOOLEAN
      BY <3>1, <1>1 DEF Carries
    <3>3. Carries(req'[r])
      BY <3>2, <1>1 DEF Carries
    <3>4. base # None /\ docs[d] # Gone
      BY <1>1 DEF IndexKnows, Ingesting, At
    <3>5. IndexKnows(r)' /\ ProbeKnows(r)'
      BY <3>2, <3>4, <1>2, <2>2 DEF IndexKnows, ProbeKnows, Ingesting, At, Tables
    <3>6. StillReads(r)' /\ IndexModel(r)'
      BY <3>2 DEF StillReads, IndexModel, At
    <3> QED
      BY <3>3, <3>5, <3>6 DEF Fits
  <2> QED
    BY <1>1, <2>1, <2>2 DEF Put
<1> QED
  BY <1>4, <1>5, <1>6, <1>7, <1>8, RequestsKept DEF IInv

\* What the embedding provider answers is one of three outcomes.
LEMMA ExtractKeeps ==
  ASSUME IInv, NEW r \in Requests, Extract(r), UNCHANGED <<tenant, bundle>>
  PROVE  IInv'
<1>1. /\ req[r].at \in {"adding", "reindexing", "indexing"} /\ req[r].at # "done"
      /\ r \in Ingesting /\ Carries(req[r]) /\ IndexKnows(r)
  BY DEF Extract, At, IInv, RequestsInv, Fits, Ingesting
<1>2. UNCHANGED <<Tables, store, bundle>>
  BY DEF Extract, Tables, catalogue, knowledge, tenant
<1>3. base # None /\ base \in BaseRow /\ base.model \in Spaces \cup {None}
  BY <1>1, Typed DEF IndexKnows, BaseRow
<1>4. Model \in Spaces /\ (base.model # None => Model = base.model)
  BY <1>3, KnowledgeAssumption DEF Model, KnowledgeAssumption
<1>5. PICK outcome \in {"failed", "text", "vectors"} :
        Moves(r, "indexing", [outcome |-> outcome, loaded |-> base.model, model |-> Model])
  BY DEF Extract, Embeds
<1> PICK seen : seen = [outcome |-> outcome, loaded |-> base.model, model |-> Model]
  OBVIOUS
<1>6. seen \in Outcomes
  BY <1>3, <1>4, <1>5 DEF Outcomes
<1>7. Others(r) /\ req'[r] = [req[r] EXCEPT !.at = "indexing", !.seen = seen]
  BY <1>1, <1>5, MovesEffect DEF IInv
<1>8. /\ req'[r].at = "indexing" /\ req'[r].seen = seen /\ req'[r].arg = req[r].arg
      /\ DOMAIN req'[r] = {"at", "arg", "seen", "clean"} /\ req'[r].clean \in BOOLEAN
  BY <1>7, <1>1 DEF Carries
<1>9. Carries(req'[r])
  BY <1>1, <1>6, <1>8 DEF Carries
<1>10. IndexKnows(r)' /\ ProbeKnows(r)'
  BY <1>1, <1>2, <1>8 DEF IndexKnows, ProbeKnows, Ingesting, At, Tables
<1>11. StillReads(r)'
  <2>1. seen.loaded = base'.model
    BY <1>2 DEF Tables
  <2> QED
    BY <1>8, <2>1 DEF StillReads, At
<1>12. IndexModel(r)'
  BY <1>4, <1>8 DEF IndexModel, At
<1> QED
  BY <1>2, <1>7, <1>9, <1>10, <1>11, <1>12, NothingChanged DEF Fits

LEMMA IndexKeeps ==
  ASSUME IInv, NEW r \in Requests, Index(r), UNCHANGED <<tenant, bundle>>
  PROVE  IInv'
<1> PICK d : d = req[r].arg.doc
  OBVIOUS
<1> PICK seen : seen = req[r].seen
  OBVIOUS
<1> PICK file : file = req[r].arg.file
  OBVIOUS
<1>1. /\ req[r].at = "indexing" /\ req[r].at # "done" /\ seen \in Outcomes
      /\ d \in Documents \cup {House} /\ file \in BOOLEAN /\ (file => d \in Documents)
      /\ (file => d \in store) /\ base # None /\ docs[d] # Gone
  <2>1. At(r, "indexing") /\ seen # None /\ Carries(req[r]) /\ IndexKnows(r)
    BY DEF Index, IInv, RequestsInv, Fits
  <2>2. seen \in Outcomes /\ req[r].arg \in Asked /\ (file => d \in Documents)
    BY <2>1 DEF Carries, At
  <2>3. (file => d \in store) /\ base # None /\ docs[d] # Gone
    BY <2>1 DEF IndexKnows, Ingesting, At
  <2> QED
    BY <2>1, <2>2, <2>3 DEF At, Asked
<1>2. Commits(r) /\ UNCHANGED <<catalogue, versions, store>>
  BY DEF Index
<1>3. Fair(r) /\ req'[r] = State("done")
  BY <1>1, <1>2, CommitEnds
<1>4. KeysInv'
  BY <1>2, <1>3, KeysKept DEF IInv, Fair, catalogue
<1>5. /\ base \in BaseRow /\ docs \in [Documents \cup {House} -> DocumentRow \cup {None, Gone}]
      /\ None \notin BaseRow \cup DocumentRow /\ Gone \notin DocumentRow \cup {None}
  BY <1>1, Typed, KnowledgeAssumption DEF KnowledgeAssumption
<1>6. PICK row \in DocumentRow :
        docs' = [docs EXCEPT ![d] = row] /\ (row.file => d \in store) /\ (d = House => ~row.file)
  <2>1. CASE seen.outcome = "failed"
    <3>1. docs' = [docs EXCEPT ![d] = FailedRow(r, d)]
      BY <2>1 DEF Index
    <3>2. CASE docs[d] = None
      <4>1. FailedRow(r, d) = Document("FAILED", file, None, None)
        BY <3>2 DEF FailedRow
      <4>2. FailedRow(r, d) \in DocumentRow /\ FailedRow(r, d).file = file
        BY <4>1, <1>1 DEF Document, DocumentRow
      <4> QED
        BY <3>1, <4>2, <1>1, KnowledgeAssumption DEF KnowledgeAssumption
    <3>3. CASE docs[d] # None
      <4>1. docs[d] \in DocumentRow /\ FailedRow(r, d) = [docs[d] EXCEPT !.status = "FAILED"]
        BY <3>3, <1>1, <1>5 DEF FailedRow
      <4>2. FailedRow(r, d) \in DocumentRow /\ FailedRow(r, d).file = docs[d].file
        BY <4>1 DEF DocumentRow
      <4>3. d \in Rows
        BY <3>3, <1>1 DEF Rows
      <4>4. (docs[d].file => d \in store) /\ (d = House => ~docs[d].file)
        BY <4>3 DEF IInv, TablesInv, FileExists
      <4> QED
        BY <3>1, <4>2, <4>4
    <3> QED
      BY <3>2, <3>3
  <2>2. CASE seen.outcome = "text"
    <3>1. docs' = [docs EXCEPT ![d] = Document("INDEXED", file, r, None)]
      BY <2>2 DEF Index
    <3>2. Document("INDEXED", file, r, None) \in DocumentRow /\ Document("INDEXED", file, r, None).file = file
      BY <1>1 DEF Document, DocumentRow, Ids
    <3> QED
      BY <3>1, <3>2, <1>1, KnowledgeAssumption DEF KnowledgeAssumption
  <2>3. CASE seen.outcome = "vectors"
    <3>1. docs' = [docs EXCEPT ![d] = Document("INDEXED", file, r, seen.model)]
      BY <2>3 DEF Index
    <3>2. /\ Document("INDEXED", file, r, seen.model) \in DocumentRow
          /\ Document("INDEXED", file, r, seen.model).file = file
      BY <1>1 DEF Document, DocumentRow, Ids, Outcomes
    <3> QED
      BY <3>1, <3>2, <1>1, KnowledgeAssumption DEF KnowledgeAssumption
  <2> QED
    BY <2>1, <2>2, <2>3, <1>1 DEF Outcomes
<1>7. base' \in BaseRow /\ base' # None
  <2>1. base' \in {base, [base EXCEPT !.model = seen.model]}
    BY DEF Index, Recorded
  <2>2. [base EXCEPT !.model = seen.model] \in BaseRow
    BY <1>1, <1>5 DEF BaseRow, Outcomes
  <2> QED
    BY <2>1, <2>2, <1>5
<1>8. /\ docs' \in [Documents \cup {House} -> DocumentRow \cup {None, Gone}]
      /\ docs'[d] = row /\ \A x \in Documents \cup {House} : x # d => docs'[x] = docs[x]
  BY <1>1, <1>5, <1>6
<1>9. TablesInv'
  <2>1. TypeOK'
    BY <1>2, <1>7, <1>8 DEF IInv, TablesInv, TypeOK, catalogue, tenant, Newest
  <2>2. ASSUME NEW x \in Rows' PROVE (docs'[x].file => x \in store') /\ (x = House => ~docs'[x].file)
    <3>1. CASE x = d
      BY <3>1, <1>2, <1>6, <1>8
    <3>2. CASE x # d
      BY <2>2, <3>2, <1>2, <1>8 DEF Rows, IInv, TablesInv, FileExists
    <3> QED
      BY <3>1, <3>2
  <2>3. NamedExist'
    BY <1>2 DEF IInv, TablesInv, NamedExist, Named, Present, catalogue
  <2> QED
    BY <1>2, <2>1, <2>2, <2>3 DEF IInv, TablesInv, FileExists, catalogue, BundleSound
<1>10. Apart(r)
  <2>1. ASSUME NEW q \in Requests \ {r} PROVE IndexKnows(q)'
    <3>1. IndexKnows(q) /\ req'[q].at = req[q].at /\ req'[q].arg = req[q].arg /\ Carries(req[q])
      BY <1>3 DEF Fair, Others, IInv, RequestsInv, Fits
    <3>2. docs'[d] # Gone
      BY <1>5, <1>8
    <3>3. q \in Ingesting \/ At(q, "removing") => req[q].arg.doc \in Documents \cup {House}
      BY <3>1 DEF Carries, Asked, Ingesting, At
    <3> QED
      BY <1>1, <1>2, <1>7, <1>8, <3>1, <3>2, <3>3 DEF IndexKnows, Ingesting, At
  <2> QED
    BY <1>2, <1>3, <2>1, OthersProbe DEF Apart, Fair, IInv, catalogue
<1> QED
  BY <1>3, <1>4, <1>9, <1>10, EndsKeeps

\* A document is deleted under nobody who is indexing it.
LEMMA RemoveKeeps ==
  ASSUME IInv, NEW r \in Requests, Remove(r), UNCHANGED <<tenant, bundle>>
  PROVE  IInv'
<1> PICK d : d = req[r].arg.doc
  OBVIOUS
<1> PICK next : next = IF req[r].arg.file THEN [State("removing") EXCEPT !.arg = req[r].arg] ELSE State("done")
  OBVIOUS
<1>1. /\ req[r].at = "erasing" /\ req[r].at # "done" /\ req[r].arg \in Asked
      /\ d \in Documents \cup {House} /\ (req[r].arg.file => d \in Documents)
  BY DEF Remove, At, IInv, RequestsInv, Fits, Carries, Asked
<1>2. /\ CommitsTo(r, next) /\ docs' = [docs EXCEPT ![d] = Gone] /\ Holds(d) = {}
      /\ UNCHANGED <<catalogue, versions, base, store>>
  BY DEF Remove
<1>3. Fair(r) /\ Others(r) /\ req'[r] = next
  BY <1>1, <1>2, CommitsEffect DEF Fair, IInv
<1>4. KeysInv'
  BY <1>2, <1>3, KeysKept DEF IInv, catalogue
<1>5. docs \in [Documents \cup {House} -> DocumentRow \cup {None, Gone}]
  BY Typed
<1>6. /\ docs' \in [Documents \cup {House} -> DocumentRow \cup {None, Gone}]
      /\ docs'[d] = Gone /\ \A x \in Documents \cup {House} : x # d => docs'[x] = docs[x]
  BY <1>1, <1>2, <1>5
<1>7. Rows' \subseteq Rows /\ \A x \in Rows' : docs'[x] = docs[x]
  BY <1>6 DEF Rows
<1>8. TablesInv'
  <2>1. TypeOK'
    BY <1>2, <1>6, <1>7 DEF IInv, TablesInv, TypeOK, catalogue, tenant, Newest
  <2>2. NamedExist'
    BY <1>2 DEF IInv, TablesInv, NamedExist, Named, Present, catalogue
  <2> QED
    BY <1>2, <1>7, <2>1, <2>2 DEF IInv, TablesInv, FileExists, catalogue, BundleSound
<1>9. Apart(r)
  <2>1. ASSUME NEW q \in Requests \ {r} PROVE IndexKnows(q)'
    <3>1. IndexKnows(q) /\ req'[q].at = req[q].at /\ req'[q].arg = req[q].arg /\ Carries(req[q])
      BY <1>3 DEF Others, IInv, RequestsInv, Fits
    <3>2. q \in Ingesting \/ At(q, "removing") => req[q].arg.doc \in Documents \cup {House}
      BY <3>1 DEF Carries, Asked, Ingesting, At
    <3>3. q \in Ingesting => req[q].arg.doc # d
      BY <1>2 DEF Holds
    <3> QED
      BY <1>2, <1>6, <3>1, <3>2, <3>3 DEF IndexKnows, Ingesting, At
  <2> QED
    BY <1>2, <1>3, <2>1, OthersProbe DEF Apart, IInv, catalogue
<1>10. Fits(r)'
  <2>1. CASE ~req[r].arg.file
    BY <2>1, <1>3, EndedFits
  <2>2. CASE req[r].arg.file
    <3>1. /\ req'[r].at = "removing" /\ req'[r].arg = req[r].arg /\ req'[r].clean = TRUE
          /\ DOMAIN req'[r] = {"at", "arg", "seen", "clean"}
      BY <2>2, <1>3 DEF State
    <3>2. Carries(req'[r])
      BY <3>1, <1>1 DEF Carries
    <3>3. IndexKnows(r)' /\ ProbeKnows(r)'
      BY <3>1, <2>2, <1>1, <1>6 DEF IndexKnows, ProbeKnows, Ingesting, At
    <3>4. StillReads(r)' /\ IndexModel(r)'
      BY <3>1 DEF StillReads, IndexModel, At
    <3> QED
      BY <3>2, <3>3, <3>4 DEF Fits
  <2> QED
    BY <2>1, <2>2
<1> QED
  BY <1>3, <1>4, <1>8, <1>9, <1>10, RequestsKept DEF IInv

LEMMA RemoveFileKeeps ==
  ASSUME IInv, NEW r \in Requests, RemoveFile(r), UNCHANGED <<tenant, bundle>>
  PROVE  IInv'
<1> PICK d : d = req[r].arg.doc
  OBVIOUS
<1>1. /\ req[r].at = "removing" /\ req[r].at # "done" /\ docs[d] = Gone
      /\ store' \in {store \ {d}, store} /\ req' = [req EXCEPT ![r] = State("done")]
      /\ UNCHANGED <<catalogue, versions, base, docs>>
  BY DEF RemoveFile, At, IInv, RequestsInv, Fits, IndexKnows
<1>2. Others(r) /\ req'[r] = State("done")
  BY <1>1, OneEffect DEF IInv
<1>3. UNCHANGED Tables /\ UNCHANGED bundle /\ UNCHANGED <<key, accepted>>
  BY <1>1 DEF Tables, catalogue, tenant
<1>4. TablesInv'
  <2>1. store' \subseteq Documents /\ \A x \in Rows : docs[x].file => x \in store'
    BY <1>1 DEF Rows, IInv, TablesInv, TypeOK, FileExists
  <2> QED
    BY <1>3, <2>1, FilesChange DEF IInv
<1>5. KeysInv'
  BY <1>2, <1>3, KeysKept DEF IInv
<1>6. Apart(r)
  <2>1. ASSUME NEW q \in Requests \ {r} PROVE IndexKnows(q)'
    <3>1. IndexKnows(q) /\ req'[q].at = req[q].at /\ req'[q].arg = req[q].arg
      BY <1>2 DEF Others, IInv, RequestsInv, Fits
    <3> QED
      BY <1>1, <3>1 DEF IndexKnows, Ingesting, At
  <2> QED
    BY <1>2, <1>3, <2>1, OthersProbe DEF Apart, IInv
<1>7. Fair(r)
  BY <1>2, <1>3 DEF Fair
<1> QED
  BY <1>2, <1>4, <1>5, <1>6, <1>7, EndsKeeps

-----------------------------------------------------------------------------
(* The tenant's rows *)

\* A version refers to what is there.
RowSound(v) ==
  /\ v \in VersionRow
  /\ v.model # None => v.model \in Present
  /\ v.kb => base # None
  /\ v.grant => tool # None

TenantSound ==
  /\ versions \in Seq(VersionRow) /\ \A n \in DOMAIN versions : RowSound(versions[n])
  /\ agent \in AgentRow \cup {None} /\ tool \in ToolRow \cup {None}
  /\ hours \in HoursRow \cup {None} /\ rule \in RuleRow \cup {None}
  /\ agent = None => versions = <<>>
  /\ agent # None => agent.live \in 0..Newest
  /\ rule # None => (rule.hours => hours # None) /\ (rule.agent => agent # None)

LEMMA TenantNow ==
  ASSUME IInv
  PROVE  TenantSound
<1>1. ASSUME NEW n \in DOMAIN versions PROVE RowSound(versions[n])
  <2>1. versions[n] \in VersionRow
    BY Typed
  <2>2. versions[n].model # None => versions[n].model \in Present
    BY DEF IInv, TablesInv, NamedExist, Named
  <2> QED
    BY <2>1, <2>2 DEF RowSound, IInv, TablesInv, TypeOK
<1> QED
  BY <1>1 DEF TenantSound, IInv, TablesInv, TypeOK

LEMMA TenantChange ==
  ASSUME IInv, UNCHANGED <<provider, key, accepted, knowledge>>, entry' \in EntryTable,
         TenantSound', bundle' # None => BundleSound(bundle')
  PROVE  TablesInv'
<1>1. \A n \in DOMAIN versions' : /\ versions'[n].kb => base # None
                                  /\ versions'[n].grant => tool' # None
  BY DEF TenantSound, RowSound, knowledge
<1>2. TypeOK'
  BY <1>1 DEF IInv, TablesInv, TypeOK, TenantSound, EntryTable, knowledge, Rows
<1>3. NamedExist'
  BY DEF NamedExist, Named, TenantSound, RowSound
<1> QED
  BY <1>2, <1>3 DEF IInv, TablesInv, FileExists, knowledge, Rows

\* A handler of the tenant's rows that commits keeps the invariant if it keeps them sound.
LEMMA TenantKeeps ==
  ASSUME IInv, NEW r \in Requests, Fair(r), req'[r] = State("done"),
         UNCHANGED <<catalogue, knowledge, bundle>>, TenantSound'
  PROVE  IInv'
<1>1. entry' \in EntryTable
  BY Typed DEF catalogue
<1>2. bundle' # None => BundleSound(bundle')
  BY DEF IInv, TablesInv, BundleSound
<1>3. TablesInv'
  BY <1>1, <1>2, TenantChange DEF catalogue
<1> QED
  BY <1>3, EndsApart DEF catalogue, knowledge

\* Versions stay sound where what they refer to stays.
LEMMA RowsStaySound ==
  ASSUME TenantSound, UNCHANGED <<entry, versions>>, base # None => base' # None, tool # None => tool' # None
  PROVE  /\ versions' \in Seq(VersionRow) /\ \A n \in DOMAIN versions' : RowSound(versions[n])'
         /\ Newest' = Newest
BY DEF TenantSound, RowSound, Present, Newest

LEMMA RerouteKeeps ==
  ASSUME IInv, NEW r \in Requests, Reroute(r)
  PROVE  IInv'
<1>1. Fair(r) /\ req'[r] = State("done")
  BY HandleEnds DEF Reroute
<1>2. /\ agent' = [agent EXCEPT !.routed = FALSE] /\ agent # None
      /\ UNCHANGED <<catalogue, versions, knowledge, tool, hours, rule, bundle>>
  BY DEF Reroute
<1>3. agent' \in AgentRow /\ agent'.live = agent.live /\ agent' # None
  BY <1>2, Typed, BundleAssumption DEF AgentRow, BundleAssumption
<1>4. TenantSound'
  BY <1>2, <1>3, TenantNow, RowsStaySound DEF TenantSound, catalogue, knowledge
<1> QED
  BY <1>1, <1>2, <1>4, TenantKeeps

LEMMA ToolKeeps ==
  ASSUME IInv, NEW r \in Requests, UpdateTool(r) \/ \E secret \in BOOLEAN : CreateTool(r, secret)
  PROVE  IInv'
<1>1. Fair(r) /\ req'[r] = State("done")
  BY HandleEnds DEF UpdateTool, CreateTool
<1>2. UNCHANGED <<catalogue, versions, knowledge, agent, hours, rule, bundle>>
  BY DEF UpdateTool, CreateTool
<1>3. tool' \in ToolRow
  <2>1. CASE UpdateTool(r)
    BY <2>1, Typed DEF UpdateTool, ToolRow
  <2>2. ASSUME NEW secret \in BOOLEAN, CreateTool(r, secret) PROVE tool' \in ToolRow
    BY <2>2 DEF CreateTool, ToolRow, Ids
  <2> QED
    BY <2>1, <2>2
<1>4. tool' # None
  BY <1>3, BundleAssumption DEF BundleAssumption
<1>5. TenantSound'
  BY <1>2, <1>3, <1>4, TenantNow, RowsStaySound DEF TenantSound, catalogue, knowledge
<1> QED
  BY <1>1, <1>2, <1>5, TenantKeeps

LEMMA HoursKeeps ==
  ASSUME IInv, NEW r \in Requests, CreateHours(r) \/ DeleteHours(r)
  PROVE  IInv'
<1>1. Fair(r) /\ req'[r] = State("done")
  BY HandleEnds DEF CreateHours, DeleteHours
<1>2. UNCHANGED <<catalogue, versions, knowledge, agent, tool, rule, bundle>>
  BY DEF CreateHours, DeleteHours
<1>3. hours' \in HoursRow \cup {None} /\ (rule # None /\ rule.hours => hours' # None)
  <2>1. CASE CreateHours(r)
    <3>1. hours' \in HoursRow
      BY <2>1 DEF CreateHours, HoursRow, Ids
    <3> QED
      BY <3>1, BundleAssumption DEF BundleAssumption
  <2>2. CASE DeleteHours(r)
    BY <2>2 DEF DeleteHours
  <2> QED
    BY <2>1, <2>2
<1>4. TenantSound'
  BY <1>2, <1>3, TenantNow, RowsStaySound DEF TenantSound, catalogue, knowledge
<1> QED
  BY <1>1, <1>2, <1>4, TenantKeeps

LEMMA UpdateRuleKeeps ==
  ASSUME IInv, NEW r \in Requests, NEW new \in RuleRow \cup {None}, UpdateRule(r, new)
  PROVE  IInv'
<1>1. Fair(r) /\ req'[r] = State("done")
  BY HandleEnds DEF UpdateRule
<1>2. /\ UNCHANGED <<catalogue, versions, knowledge, agent, tool, hours, bundle>>
      /\ rule' = new
      /\ new # None => (new.agent => agent # None) /\ (new.hours => hours # None)
  BY DEF UpdateRule
<1>3. TenantSound'
  BY <1>2, TenantNow, RowsStaySound DEF TenantSound, catalogue, knowledge
<1> QED
  BY <1>1, <1>2, <1>3, TenantKeeps

LEMMA PublishKeeps ==
  ASSUME IInv, NEW r \in Requests, Publish(r)
  PROVE  IInv'
<1>1. Fair(r) /\ req'[r] = State("done")
  BY HandleEnds DEF Publish
<1>2. /\ agent # None /\ Newest > 0 /\ agent' = [agent EXCEPT !.live = Newest]
      /\ UNCHANGED <<catalogue, knowledge, tool, hours, rule, bundle>>
      /\ versions' = [n \in DOMAIN versions |->
                        CASE n = Newest     -> [versions[n] EXCEPT !.state = "PUBLISHED"]
                          [] n = agent.live -> [versions[n] EXCEPT !.state = "ARCHIVED"]
                          [] OTHER          -> versions[n]]
  BY DEF Publish
<1>3. TenantSound /\ DOMAIN versions = 1..Newest /\ Newest \in Nat
  BY TenantNow, Typed
<1>4. ASSUME NEW n \in DOMAIN versions PROVE versions'[n] \in VersionRow /\ RowSound(versions[n])'
  <2>1. versions[n] \in VersionRow /\ RowSound(versions[n])
    BY <1>3 DEF TenantSound, RowSound
  <2>2. /\ versions'[n] \in VersionRow /\ versions'[n].model = versions[n].model
        /\ versions'[n].kb = versions[n].kb /\ versions'[n].grant = versions[n].grant
    BY <1>2, <2>1 DEF VersionRow
  <2> QED
    BY <1>2, <2>1, <2>2 DEF RowSound, Present, catalogue, knowledge
<1>5. DOMAIN versions' = 1..Newest /\ versions' = [n \in 1..Newest |-> versions'[n]]
  BY <1>2, <1>3
<1>6. versions' \in Seq(VersionRow) /\ Len(versions') = Newest
  BY <1>3, <1>4, <1>5, RowsTyped
<1>7. agent' \in AgentRow /\ agent' # None /\ agent'.live = Newest
  BY <1>2, <1>3, BundleAssumption DEF AgentRow, TenantSound, BundleAssumption
<1>8. TenantSound'
  BY <1>2, <1>3, <1>4, <1>5, <1>6, <1>7 DEF TenantSound, Newest
<1> QED
  BY <1>1, <1>2, <1>8, TenantKeeps

LEMMA DeleteAgentKeeps ==
  ASSUME IInv, NEW r \in Requests, DeleteAgent(r)
  PROVE  IInv'
<1>1. Fair(r) /\ req'[r] = State("done")
  BY HandleEnds DEF DeleteAgent
<1>2. /\ agent' = None /\ versions' = <<>> /\ UNCHANGED <<catalogue, knowledge, tool, hours, bundle>>
      /\ rule' = IF rule # None /\ rule.agent THEN None ELSE rule
  BY DEF DeleteAgent
<1>3. versions' \in Seq(VersionRow) /\ DOMAIN versions' = {}
  BY <1>2
<1>4. TenantSound'
  BY <1>2, <1>3, TenantNow DEF TenantSound
<1> QED
  BY <1>1, <1>2, <1>4, TenantKeeps

LEMMA DeleteToolKeeps ==
  ASSUME IInv, NEW r \in Requests, DeleteTool(r)
  PROVE  IInv'
<1>1. Fair(r) /\ req'[r] = State("done")
  BY CommitEnds DEF DeleteTool, At
<1>2. UNCHANGED <<catalogue, knowledge, agent, hours, rule, bundle>>
  BY DEF DeleteTool
<1>3. CASE UNCHANGED <<tool, versions>>
  <2>1. TenantSound'
    BY <1>2, <1>3, TenantNow, RowsStaySound DEF TenantSound, catalogue, knowledge
  <2> QED
    BY <1>1, <1>2, <2>1, TenantKeeps
<1>4. CASE /\ tool' = None
           /\ versions' = [n \in DOMAIN versions |-> [versions[n] EXCEPT !.grant = FALSE]]
  <2>1. TenantSound /\ DOMAIN versions = 1..Newest /\ Newest \in Nat
    BY TenantNow, Typed
  <2>2. ASSUME NEW n \in DOMAIN versions PROVE versions'[n] \in VersionRow /\ RowSound(versions[n])'
    <3>1. versions[n] \in VersionRow /\ RowSound(versions[n])
      BY <2>1 DEF TenantSound, RowSound
    <3>2. /\ versions'[n] \in VersionRow /\ versions'[n].model = versions[n].model
          /\ versions'[n].kb = versions[n].kb /\ versions'[n].grant = FALSE
      BY <1>4, <3>1 DEF VersionRow
    <3> QED
      BY <1>2, <3>1, <3>2 DEF RowSound, Present, catalogue, knowledge
  <2>3. DOMAIN versions' = 1..Newest /\ versions' = [n \in 1..Newest |-> versions'[n]]
    BY <1>4, <2>1
  <2>4. versions' \in Seq(VersionRow) /\ Len(versions') = Newest
    BY <2>1, <2>2, <2>3, RowsTyped
  <2>5. agent = None => versions' = <<>>
    <3>1. agent = None => Newest = 0
      BY <2>1 DEF TenantSound, Newest
    <3> QED
      BY <3>1, <2>4
  <2>6. TenantSound'
    BY <1>2, <1>4, <2>1, <2>2, <2>3, <2>4, <2>5 DEF TenantSound, Newest
  <2> QED
    BY <1>1, <1>2, <2>6, TenantKeeps
<1> QED
  BY <1>3, <1>4 DEF DeleteTool

\* What is saved is checked against the rows by the foreign keys.
LEMMA SaveKeeps ==
  ASSUME IInv, NEW r \in Requests, Save(r)
  PROVE  IInv'
<1> PICK s : s = req[r].seen
  OBVIOUS
<1> PICK c : c = req[r].arg
  OBVIOUS
<1>1. /\ req[r].at = "saving" /\ req[r].at # "done" /\ c \in Contents
      /\ s \in [agent : AgentRow, number : Nat, draft : BOOLEAN, models : EntryTable,
                tool : ToolRow \cup {None}, base : BaseRow \cup {None}]
      /\ UNCHANGED <<catalogue, knowledge, tenant, bundle>>
  BY DEF Save, At, IInv, RequestsInv, Fits, Carries
<1>2. CASE ~Savable(r)
  BY <1>1, <1>2, RollsKeeps DEF Save, Tables, catalogue, knowledge, tenant
<1>3. CASE Savable(r)
  <2>1. /\ Commits(r)
        /\ versions' = IF s.draft THEN [versions EXCEPT ![s.number] = Version(@.state, c)]
                       ELSE Append(versions, Version("DRAFT", c))
    BY <1>3 DEF Save
  <2>2. Fair(r) /\ req'[r] = State("done")
    BY <1>1, <2>1, CommitEnds
  <2>3. TenantSound /\ DOMAIN versions = 1..Newest /\ Newest \in Nat
    BY TenantNow, Typed
  <2>4. Same(s.agent, agent) /\ Referable(c, s.models, s.tool, s.base)
    BY <1>3 DEF Savable
  <2>5. agent # None
    <3>1. None \notin AgentRow
      BY BundleAssumption DEF BundleAssumption
    <3> QED
      BY <1>1, <2>4, <3>1 DEF Same
  <2>6. /\ c.model # None => c.model \in Present
        /\ c.kb => base # None
        /\ c.grant => tool # None
    BY <1>1, <2>4 DEF Referable, Present, Contents
  <2>7. ASSUME NEW state \in {"DRAFT", "PUBLISHED", "ARCHIVED"}
        PROVE  Version(state, c) \in VersionRow /\ RowSound(Version(state, c))
    <3>1. Version(state, c) \in VersionRow
      BY <1>1 DEF Version, VersionRow, Contents
    <3> QED
      BY <3>1, <2>6 DEF RowSound, Version
  <2>8. /\ versions' \in Seq(VersionRow) /\ Newest' \in Nat /\ Newest <= Newest'
        /\ \A n \in DOMAIN versions' : RowSound(versions'[n])
    <3>1. CASE s.draft
      <4>1. versions' = [versions EXCEPT ![s.number] = Version(@.state, c)]
        BY <2>1, <3>1
      <4>2. \A n \in 1..Newest : versions[n].state \in {"DRAFT", "PUBLISHED", "ARCHIVED"}
        BY <2>3 DEF TenantSound, RowSound, VersionRow
      <4>3. ASSUME NEW n \in 1..Newest PROVE versions'[n] \in VersionRow /\ RowSound(versions'[n])
        <5>1. CASE n = s.number
          BY <5>1, <4>1, <4>2, <2>3, <2>7
        <5>2. CASE n # s.number
          BY <5>2, <4>1, <2>3 DEF TenantSound, RowSound
        <5> QED
          BY <5>1, <5>2
      <4>4. DOMAIN versions' = 1..Newest /\ versions' = [n \in 1..Newest |-> versions'[n]]
        BY <4>1, <2>3
      <4>5. versions' \in Seq(VersionRow) /\ Len(versions') = Newest
        BY <4>3, <4>4, <2>3, RowsTyped
      <4> QED
        BY <4>3, <4>4, <4>5, <2>3 DEF Newest
    <3>2. CASE ~s.draft
      <4>1. versions' = Append(versions, Version("DRAFT", c))
        BY <2>1, <3>2
      <4>2. Version("DRAFT", c) \in VersionRow /\ RowSound(Version("DRAFT", c))
        BY <2>7
      <4>3. versions \in Seq(VersionRow) /\ \A n \in 1..Newest : RowSound(versions[n])
        BY <2>3 DEF TenantSound
      <4>4. /\ versions' \in Seq(VersionRow) /\ Len(versions') = Newest + 1
            /\ \A n \in 1..Newest : versions'[n] = versions[n]
            /\ versions'[Newest + 1] = Version("DRAFT", c)
        BY <4>1, <4>2, <4>3, AppendProperties DEF Newest
      <4>5. DOMAIN versions' = 1..(Newest + 1)
        BY <4>4
      <4>6. ASSUME NEW n \in DOMAIN versions' PROVE RowSound(versions'[n])
        BY <4>2, <4>3, <4>4, <4>5, <4>6, <2>3
      <4> QED
        BY <4>4, <4>6, <2>3 DEF Newest
    <3> QED
      BY <3>1, <3>2
  <2>9. \A n \in DOMAIN versions' : RowSound(versions[n])'
    BY <1>1, <2>8 DEF RowSound, Present, catalogue, knowledge, tenant
  <2>10. agent.live \in 0..Newest'
    BY <2>3, <2>5, <2>8 DEF TenantSound
  <2>11. TenantSound'
    BY <1>1, <2>3, <2>5, <2>8, <2>9, <2>10 DEF TenantSound, tenant
  <2> QED
    BY <1>1, <2>2, <2>11, TenantKeeps
<1> QED
  BY <1>2, <1>3

\* The model may be registered first, and the newest version is edited in place.
LEMMA SetModelKeeps ==
  ASSUME IInv, NEW r \in Requests, SetModel(r)
  PROVE  IInv'
<1> PICK s : s = req[r].seen
  OBVIOUS
<1> PICK e : e = req[r].arg.slug
  OBVIOUS
<1>1. /\ req[r].at = "pointing" /\ req[r].at # "done" /\ e \in Entries
      /\ s \in [row : EntryRow \cup {None}, agent : AgentRow, number : Nat]
      /\ UNCHANGED <<provider, key, accepted, knowledge, tenant, bundle>>
  BY DEF SetModel, At, IInv, RequestsInv, Fits, Carries
<1>2. CASE ~(Same(s.row, entry[e]) /\ Same(s.agent, agent))
  BY <1>1, <1>2, RollsKeeps DEF SetModel, Tables, knowledge, tenant
<1>3. CASE Same(s.row, entry[e]) /\ Same(s.agent, agent)
  <2>1. /\ Commits(r) /\ versions' = [versions EXCEPT ![s.number].model = e]
        /\ entry' = IF s.row = None THEN [entry EXCEPT ![e] = NewEntry(r, FALSE)] ELSE entry
    BY <1>3 DEF SetModel
  <2>2. Fair(r) /\ req'[r] = State("done")
    BY <1>1, <2>1, CommitEnds
  <2>3. TenantSound /\ DOMAIN versions = 1..Newest /\ Newest \in Nat /\ entry \in EntryTable
    BY TenantNow, Typed
  <2>4. entry' \in EntryTable /\ e \in Present' /\ Present \subseteq Present'
    <3>1. NewEntry(r, FALSE) \in EntryRow /\ NewEntry(r, FALSE) # None
      BY NewEntryTyped DEF Ids
    <3>2. entry' \in EntryTable
      BY <2>1, <2>3, <3>1 DEF EntryTable
    <3>3. e \in Present'
      BY <1>1, <1>3, <2>1, <2>3, <3>1 DEF Present, Same, EntryTable
    <3>4. Present \subseteq Present'
      BY <1>1, <2>1, <2>3, <3>1 DEF Present, EntryTable
    <3> QED
      BY <3>2, <3>3, <3>4
  <2>5. ASSUME NEW n \in 1..Newest PROVE versions'[n] \in VersionRow /\ RowSound(versions[n])'
    <3>1. versions[n] \in VersionRow /\ RowSound(versions[n])
      BY <2>3 DEF TenantSound, RowSound
    <3>2. CASE n = s.number
      <4>1. versions'[n] = [versions[n] EXCEPT !.model = e]
        BY <2>1, <2>3, <3>2
      <4>2. /\ versions'[n] \in VersionRow /\ versions'[n].model = e
            /\ versions'[n].kb = versions[n].kb /\ versions'[n].grant = versions[n].grant
        BY <1>1, <3>1, <4>1 DEF VersionRow
      <4> QED
        BY <1>1, <2>4, <3>1, <4>2 DEF RowSound, knowledge, tenant
    <3>3. CASE n # s.number
      <4>1. versions'[n] = versions[n]
        BY <2>1, <2>3, <3>3
      <4> QED
        BY <1>1, <2>4, <3>1, <4>1 DEF RowSound, knowledge, tenant
    <3> QED
      BY <3>2, <3>3
  <2>6. DOMAIN versions' = 1..Newest /\ versions' = [n \in 1..Newest |-> versions'[n]]
    BY <2>1, <2>3
  <2>7. versions' \in Seq(VersionRow) /\ Len(versions') = Newest
    BY <2>3, <2>5, <2>6, RowsTyped
  <2>8. agent = None => versions' = <<>>
    <3>1. agent = None => Newest = 0
      BY <2>3 DEF TenantSound, Newest
    <3> QED
      BY <3>1, <2>7
  <2>9. TenantSound'
    BY <1>1, <2>3, <2>5, <2>6, <2>7, <2>8 DEF TenantSound, tenant, Newest
  <2>10. TablesInv'
    BY <1>1, <2>4, <2>9, TenantChange DEF IInv, TablesInv, BundleSound
  <2> QED
    BY <1>1, <2>2, <2>10, EndsApart DEF knowledge
<1> QED
  BY <1>2, <1>3

LEMMA CrashKeeps ==
  ASSUME IInv, NEW r \in Requests, Crash(r)
  PROVE  IInv'
<1>1. req[r].at # "done" /\ Rolls(r) /\ UNCHANGED <<Tables, store, bundle>>
  BY DEF Crash, Running, Ended, Tables, catalogue, knowledge, tenant
<1> QED
  BY <1>1, RollsKeeps

(* Export and import *)

LEMMA ContentsTyped ==
  ASSUME NEW n \in Nat, NEW s, s = [i \in 1..n |-> s[i]], \A i \in 1..n : s[i] \in Contents
  PROVE  s \in Seq(Contents) /\ Len(s) = n /\ DOMAIN s = 1..n
<1>1. s \in [1..n -> Contents] /\ DOMAIN s = 1..n
  OBVIOUS
<1>2. s \in Seq(Contents)
  BY <1>1, SeqDef
<1> QED
  BY <1>1, <1>2, LenProperties

\* A bundle holds together because the rows it is read from do.
LEMMA ExportedSound ==
  ASSUME TenantSound, entry \in EntryTable, base \in BaseRow \cup {None},
         NEW seen \in [entry : EntryTable, agent : AgentRow \cup {None},
                       tool : ToolRow \cup {None}, hours : HoursRow \cup {None}]
  PROVE  BundleSound(Exported(seen))
<1> PICK known \in BOOLEAN : known = (seen.agent # None /\ Same(seen.agent, agent))
  OBVIOUS
<1> PICK met \in BOOLEAN : met = Same(seen.hours, hours)
  BY DEF Same
<1> PICK a, t, h \in BOOLEAN : a = (seen.agent # None) /\ t = (seen.tool # None) /\ h = (seen.hours # None)
  OBVIOUS
<1> PICK rows : rows = IF ~known THEN <<>>
                       ELSE [n \in DOMAIN versions |->
                               Content(Name(versions[n].model, seen.entry), versions[n].kb, versions[n].grant)]
  OBVIOUS
<1> PICK stored : stored = IF base = None THEN None ELSE [model |-> base.model]
  OBVIOUS
<1> PICK ruled : ruled = IF rule = None THEN None
                         ELSE Scheduled(rule.agent /\ known, rule.hours /\ met, rule.priority)
  OBVIOUS
<1>1. Exported(seen) = [agent |-> a, versions |-> rows, tool |-> t, hours |-> h, base |-> stored, rule |-> ruled]
  BY DEF Exported
<1>2. versions \in Seq(VersionRow) /\ DOMAIN versions = 1..Newest /\ Newest \in Nat
  BY LenProperties DEF TenantSound, Newest
<1>3. /\ rows \in Seq(Contents) /\ (~known => rows = <<>>)
      /\ \A i \in DOMAIN rows : rows[i].kb => base # None
  <2>1. CASE ~known
    BY <2>1
  <2>2. CASE known
    <3>1. rows = [n \in 1..Newest |->
                    Content(Name(versions[n].model, seen.entry), versions[n].kb, versions[n].grant)]
      BY <2>2, <1>2
    <3>2. ASSUME NEW n \in 1..Newest PROVE rows[n] \in Contents /\ (rows[n].kb => base # None)
      <4>1. versions[n] \in VersionRow /\ RowSound(versions[n])
        BY <1>2 DEF TenantSound, RowSound
      <4>2. Name(versions[n].model, seen.entry) \in Entries \cup {None}
        BY <4>1 DEF Name, VersionRow
      <4>3. rows[n] = Content(Name(versions[n].model, seen.entry), versions[n].kb, versions[n].grant)
        BY <3>1
      <4> QED
        BY <4>1, <4>2, <4>3 DEF Content, Contents, VersionRow, RowSound
    <3>3. rows = [n \in 1..Newest |-> rows[n]] /\ DOMAIN rows = 1..Newest
      BY <3>1
    <3>4. rows \in Seq(Contents)
      BY <1>2, <3>2, <3>3, ContentsTyped
    <3> QED
      BY <2>2, <3>2, <3>3, <3>4
  <2> QED
    BY <2>1, <2>2
<1>4. stored \in BaseEntry \cup {None} /\ (base # None => stored # None)
  <2>1. base # None => [model |-> base.model] \in BaseEntry
    BY DEF BaseRow, BaseEntry
  <2> QED
    BY <2>1, BundleAssumption DEF BundleAssumption
<1>5. /\ ruled \in RuleRow \cup {None}
      /\ ruled # None => (ruled.agent => known) /\ (ruled.hours => seen.hours # None)
  <2>1. CASE rule = None
    BY <2>1
  <2>2. CASE rule # None
    <3>1. /\ rule \in RuleRow /\ rule.hours \in BOOLEAN /\ rule.agent \in BOOLEAN
          /\ rule.priority \in Nat /\ (rule.hours => hours # None)
      BY <2>2 DEF TenantSound, RuleRow
    <3>2. ruled = [agent |-> rule.agent /\ known, hours |-> rule.hours /\ met,
                   priority |-> rule.priority]
      BY <2>2 DEF Scheduled
    <3> PICK x, y \in BOOLEAN : x = (rule.agent /\ known) /\ y = (rule.hours /\ met)
      BY <3>1
    <3>3. ruled \in RuleRow
      <4>1. ruled = [agent |-> x, hours |-> y, priority |-> rule.priority]
        BY <3>2
      <4>2. \A p \in Nat : [agent |-> x, hours |-> y, priority |-> p] \in RuleRow
        BY DEF RuleRow
      <4>3. rule.priority \in Nat
        BY <3>1
      <4> QED
        BY <4>1, <4>2, <4>3
    <3>4. (ruled.agent => known) /\ (ruled.hours => rule.hours /\ met)
      BY <3>1, <3>2
    <3>5. rule.hours /\ met => seen.hours # None
      BY <3>1 DEF Same
    <3> QED
      BY <3>3, <3>4, <3>5
  <2> QED
    BY <2>1, <2>2
<1>6. Exported(seen) \in BundleFile
  BY <1>1, <1>3, <1>4, <1>5 DEF BundleFile
<1>7. (known => a) /\ (h <=> seen.hours # None)
  OBVIOUS
<1>8. ~a => rows = <<>>
  BY <1>3, <1>7
<1>9. ruled # None => (ruled.agent => a) /\ (ruled.hours => h)
  BY <1>5, <1>7
<1>10. \A i \in DOMAIN rows : rows[i].kb => stored # None
  BY <1>3, <1>4
<1> PICK b : b = Exported(seen)
  OBVIOUS
<1>11. b.agent = a /\ b.versions = rows /\ b.hours = h /\ b.base = stored /\ b.rule = ruled
  BY <1>1
<1>12. BundleSound(b)
  BY <1>6, <1>8, <1>9, <1>10, <1>11 DEF BundleSound
<1> QED
  BY <1>12

LEMMA ExportKeeps ==
  ASSUME IInv, NEW r \in Requests, Export(r)
  PROVE  IInv'
<1>1. /\ req[r].at = "exporting" /\ req[r].at # "done"
      /\ req[r].seen \in [entry : EntryTable, agent : AgentRow \cup {None},
                          tool : ToolRow \cup {None}, hours : HoursRow \cup {None}]
      /\ bundle' = Exported(req[r].seen) /\ req' = [req EXCEPT ![r] = State("done")]
      /\ UNCHANGED <<catalogue, versions, knowledge, tenant>>
  BY DEF Export, At, IInv, RequestsInv, Fits, Carries
<1>2. Others(r) /\ req'[r] = State("done")
  BY <1>1, OneEffect DEF IInv
<1>3. Fair(r)
  BY <1>1, <1>2 DEF Fair, Tables, catalogue, knowledge, tenant
<1>4. BundleSound(Exported(req[r].seen))
  BY <1>1, ExportedSound, TenantNow, Typed
<1>5. TenantSound'
  BY <1>1, TenantNow, RowsStaySound DEF TenantSound, catalogue, knowledge, tenant
<1>6. TablesInv'
  BY <1>1, <1>4, <1>5, Typed, TenantChange DEF catalogue, BundleSound
<1> QED
  BY <1>1, <1>2, <1>3, <1>6, EndsApart DEF catalogue, knowledge

KnowledgeSound ==
  /\ base \in BaseRow \cup {None}
  /\ docs \in [Documents \cup {House} -> DocumentRow \cup {None, Gone}]
  /\ base = None => Rows = {}
  /\ store \subseteq Documents /\ FileExists
  /\ House \in Rows => ~docs[House].file

LEMMA BundleChange ==
  ASSUME IInv, UNCHANGED <<provider, key, accepted, bundle>>, entry' \in EntryTable,
         TenantSound', KnowledgeSound'
  PROVE  TablesInv'
<1>1. \A n \in DOMAIN versions' : /\ versions'[n].kb => base' # None
                                  /\ versions'[n].grant => tool' # None
  BY DEF TenantSound, RowSound
<1>2. TypeOK'
  BY <1>1 DEF IInv, TablesInv, TypeOK, TenantSound, KnowledgeSound, EntryTable
<1>3. NamedExist'
  BY DEF NamedExist, Named, TenantSound, RowSound
<1> QED
  BY <1>2, <1>3 DEF IInv, TablesInv, KnowledgeSound, BundleSound

LEMMA NewTenantRows ==
  ASSUME NEW r \in Requests, NEW secret \in BOOLEAN, NEW live \in Nat, NEW routed \in BOOLEAN
  PROVE  /\ [id |-> r, secret |-> secret] \in ToolRow \ {None}
         /\ [id |-> r] \in HoursRow \ {None}
         /\ [id |-> r, live |-> live, routed |-> routed] \in AgentRow \ {None}
<1>1. [id |-> r, secret |-> secret] \in ToolRow /\ [id |-> r] \in HoursRow
  BY DEF ToolRow, HoursRow, Ids
<1>2. [id |-> r, live |-> live, routed |-> routed] \in AgentRow
  BY DEF AgentRow, Ids
<1> QED
  BY <1>1, <1>2, BundleAssumption DEF BundleAssumption

\* A version of the bundle, as the import writes it.
LEMMA WrittenDraft ==
  ASSUME NEW b, NEW seen, NEW c \in Contents
  PROVE  Version("DRAFT", [Resolved(c, b, seen) EXCEPT !.kb = @ /\ base' # None]) =
           [state |-> "DRAFT", model |-> Resolved(c, b, seen).model, kb |-> c.kb /\ base' # None,
            grant |-> c.grant /\ b.tool]
<1> PICK m : m = Resolved(c, b, seen).model
  OBVIOUS
<1>1. Resolved(c, b, seen) = [model |-> m, kb |-> c.kb, grant |-> c.grant /\ b.tool]
  BY DEF Resolved, Content
<1>2. [Resolved(c, b, seen) EXCEPT !.kb = @ /\ base' # None] =
        [model |-> m, kb |-> c.kb /\ base' # None, grant |-> c.grant /\ b.tool]
  BY <1>1
<1> QED
  BY <1>2 DEF Version

LEMMA ImportedRows ==
  ASSUME NEW r \in Requests, NEW b, NEW seen, b.versions \in Seq(Contents), b.tool \in BOOLEAN,
         UNCHANGED entry, Importable(b, seen), ImportAgents(r, b, seen),
         tool # None => tool' # None, b.tool /\ seen.tool = None => tool' # None
  PROVE  \E rows \in Seq(VersionRow) :
           versions' = versions \o rows /\ Len(rows) = Len(b.versions)
           /\ \A i \in 1..Len(b.versions) : RowSound(rows[i])'
<1> PICK n : n = Len(b.versions)
  OBVIOUS
<1>1. n \in Nat /\ DOMAIN b.versions = 1..n /\ \A i \in 1..n : b.versions[i] \in Contents
  BY LenProperties
<1>2. PICK rows : /\ versions' = versions \o rows
                  /\ rows = [i \in 1..n |-> Version("DRAFT", [Resolved(b.versions[i], b, seen) EXCEPT
                                                                !.kb = @ /\ base' # None])]
  BY <1>1 DEF ImportAgents
<1>3. ASSUME NEW i \in 1..n PROVE rows[i] \in VersionRow /\ RowSound(rows[i])'
  <2> PICK c : c = b.versions[i]
    OBVIOUS
  <2> PICK v : v = rows[i]
    OBVIOUS
  <2> PICK m : m = Resolved(c, b, seen).model
    OBVIOUS
  <2> PICK k \in BOOLEAN : k = (c.kb /\ base' # None)
    OBVIOUS
  <2> PICK g \in BOOLEAN : g = (c.grant /\ b.tool)
    OBVIOUS
  <2>1. c \in Contents /\ i \in DOMAIN b.versions
    BY <1>1
  <2>2. Resolved(c, b, seen).grant = (c.grant /\ b.tool)
    BY DEF Resolved, Content
  <2>3. /\ m # None => Same(seen.entry[m], entry[m])
        /\ g /\ seen.tool # None => Same(seen.tool, tool)
    BY <2>1, <2>2 DEF Importable
  <2>4. v = [state |-> "DRAFT", model |-> m, kb |-> k, grant |-> g]
    <3>1. rows[i] = Version("DRAFT", [Resolved(b.versions[i], b, seen) EXCEPT !.kb = @ /\ base' # None])
      BY <1>2
    <3> QED
      BY <2>1, <3>1, WrittenDraft
  <2>5. (k => base' # None) /\ (g => b.tool)
    OBVIOUS
  <2>6. m \in Entries \cup {None} /\ (m # None => seen.entry[m] # None)
    BY <2>1 DEF Resolved, Content, Contents
  <2>7. m # None => m \in Present
    BY <2>3, <2>6 DEF Present, Same
  <2>8. g => tool' # None
    BY <2>3, <2>5 DEF Same
  <2>9. v \in VersionRow /\ v.model = m /\ v.kb = k /\ v.grant = g
    BY <2>4, <2>6 DEF VersionRow
  <2>10. Present' = Present
    BY DEF Present
  <2> QED
    BY <2>5, <2>7, <2>8, <2>9, <2>10 DEF RowSound
<1>4. rows = [i \in 1..n |-> rows[i]]
  BY <1>2
<1>5. rows \in Seq(VersionRow) /\ Len(rows) = n
  BY <1>1, <1>3, <1>4, RowsTyped
<1> QED
  BY <1>2, <1>3, <1>5

\* What the import writes is sound by what it looked up or made itself.
LEMMA ImportKeeps ==
  ASSUME IInv, NEW r \in Requests, Import(r)
  PROVE  IInv'
<1> PICK b : b = req[r].arg
  OBVIOUS
<1> PICK seen : seen = req[r].seen
  OBVIOUS
<1>1. /\ req[r].at = "importing" /\ req[r].at # "done" /\ BundleSound(b)
      /\ seen \in [entry : EntryTable, agent : AgentRow \cup {None}, tool : ToolRow \cup {None}, number : Nat]
      /\ UNCHANGED <<catalogue, docs, store, bundle>>
  BY DEF Import, At, IInv, RequestsInv, Fits, Carries
<1>2. CASE ~Importable(b, seen)
  BY <1>1, <1>2, RollsKeeps DEF Import, Tables, catalogue, tenant
<1>3. CASE Importable(b, seen)
  <2>1. /\ Commits(r)
        /\ ImportTool(r, b, seen) /\ ImportHours(r, b) /\ ImportBase(r, b)
        /\ ImportAgents(r, b, seen)
        /\ rule' = IF b.rule = None THEN rule ELSE ImportedRule(b)
    BY <1>3 DEF Import
  <2>2. Fair(r) /\ req'[r] = State("done")
    BY <1>1, <2>1, CommitEnds
  <2>3. TenantSound /\ DOMAIN versions = 1..Newest /\ Newest \in Nat /\ entry \in EntryTable
    BY TenantNow, Typed
  <2>4. /\ b \in BundleFile /\ b.versions \in Seq(Contents)
        /\ b.agent \in BOOLEAN /\ b.tool \in BOOLEAN /\ b.hours \in BOOLEAN
        /\ b.base \in BaseEntry \cup {None} /\ b.rule \in RuleRow \cup {None}
    BY <1>1 DEF BundleSound, BundleFile
  <2>5. /\ tool' \in ToolRow \cup {None} /\ (tool # None => tool' # None)
        /\ (b.tool /\ seen.tool = None => tool' # None)
    BY <2>1, <2>3, NewTenantRows DEF ImportTool, TenantSound
  <2>6. hours' \in HoursRow \cup {None} /\ (hours # None \/ b.hours => hours' # None)
    BY <2>1, <2>3, NewTenantRows DEF ImportHours, TenantSound
  <2>7. base' \in BaseRow \cup {None} /\ (base # None => base' # None) /\ (b.base # None => base' # None)
    <3>1. base \in BaseRow \cup {None} /\ None \notin BaseRow
      BY Typed, KnowledgeAssumption DEF KnowledgeAssumption
    <3>2. CASE b.base = None
      BY <2>1, <3>1, <3>2 DEF ImportBase
    <3>3. CASE b.base # None
      <4>1. b.base.model \in Spaces \cup {None}
        BY <2>4, <3>3 DEF BaseEntry
      <4>2. NewBase(r, b.base.model) \in BaseRow
        BY <4>1, NewBaseTyped
      <4>3. base # None => [base EXCEPT !.model = b.base.model] \in BaseRow
        BY <3>1, <4>1 DEF BaseRow
      <4>4. base' = IF base = None THEN NewBase(r, b.base.model) ELSE [base EXCEPT !.model = b.base.model]
        BY <2>1, <3>3 DEF ImportBase
      <4> QED
        BY <3>1, <4>2, <4>3, <4>4
    <3> QED
      BY <3>2, <3>3
  <2>8. /\ agent' \in AgentRow \cup {None} /\ (agent # None \/ b.agent => agent' # None)
        /\ agent' # None => (agent' = agent \/ agent'.live = 0)
    <3>1. agent' = IF b.agent /\ agent = None THEN [id |-> r, live |-> 0, routed |-> FALSE] ELSE agent
      BY <2>1, Zenon DEF ImportAgents
    <3> QED
      BY <3>1, <2>3, NewTenantRows DEF TenantSound
  <2> PICK n : n = Len(b.versions)
    OBVIOUS
  <2>9. n \in Nat /\ DOMAIN b.versions = 1..n
    BY <2>4, LenProperties
  <2>10. PICK rows \in Seq(VersionRow) :
           versions' = versions \o rows /\ Len(rows) = n /\ \A i \in 1..n : RowSound(rows[i])'
    BY <1>1, <1>3, <2>1, <2>4, <2>5, ImportedRows DEF catalogue
  <2>11. /\ versions' \in Seq(VersionRow) /\ Newest' = Newest + n /\ DOMAIN versions' = 1..(Newest + n)
         /\ \A j \in 1..(Newest + n) : versions'[j] = IF j <= Newest THEN versions[j] ELSE rows[j - Newest]
    <3>1. versions \in Seq(VersionRow) /\ Len(versions) = Newest
      BY <2>3 DEF TenantSound, Newest
    <3>2. rows \in Seq(VersionRow) /\ versions' = versions \o rows /\ Len(rows) = n
      BY <2>10
    <3>3. /\ versions' \in Seq(VersionRow) /\ Len(versions') = Len(versions) + Len(rows)
          /\ \A j \in 1..(Len(versions) + Len(rows)) :
               versions'[j] = IF j <= Len(versions) THEN versions[j] ELSE rows[j - Len(versions)]
      BY <3>1, <3>2, ConcatProperties
    <3> QED
      BY <3>1, <3>2, <3>3, LenProperties DEF Newest
  <2>12. ASSUME NEW j \in DOMAIN versions' PROVE RowSound(versions[j])'
    <3>1. CASE j <= Newest
      <4>1. versions'[j] = versions[j] /\ RowSound(versions[j])
        BY <2>3, <2>11, <3>1 DEF TenantSound
      <4> QED
        BY <4>1, <1>1, <2>5, <2>7 DEF RowSound, Present, catalogue
    <3>2. CASE ~(j <= Newest)
      <4> PICK i : i = j - Newest
        OBVIOUS
      <4>1. i \in 1..n /\ versions'[j] = rows[i]
        BY <2>3, <2>9, <2>11, <3>2
      <4>2. RowSound(rows[i])'
        BY <2>10, <4>1
      <4> QED
        BY <4>1, <4>2 DEF RowSound
    <3> QED
      BY <3>1, <3>2
  <2>13. agent' = None => versions' = <<>>
    <3> SUFFICES ASSUME agent' = None PROVE versions' = <<>>
      OBVIOUS
    <3>1. agent = None /\ ~b.agent
      BY <2>8
    <3>2. versions = <<>> /\ b.versions = <<>>
      BY <1>1, <2>3, <3>1 DEF TenantSound, BundleSound
    <3>3. Newest = 0 /\ n = 0
      BY <3>2 DEF Newest
    <3> QED
      BY <2>11, <3>3
  <2>14. agent' # None => agent'.live \in 0..Newest'
    BY <2>3, <2>8, <2>9, <2>11 DEF TenantSound
  <2>15. rule' \in RuleRow \cup {None} /\ (rule' # None => (rule'.hours => hours' # None) /\ (rule'.agent => agent' # None))
    <3>1. CASE b.rule = None
      BY <2>1, <2>3, <2>6, <2>8, <3>1 DEF TenantSound
    <3>2. CASE b.rule # None
      <4>1. b.rule.agent \in BOOLEAN /\ b.rule.hours \in BOOLEAN /\ b.rule.priority \in Nat
        BY <2>4, <3>2 DEF RuleRow
      <4> PICK x, y \in BOOLEAN : x = (b.rule.agent /\ agent' # None) /\ y = (b.rule.hours /\ hours' # None)
        OBVIOUS
      <4> PICK p \in Nat : p = IF b.rule.priority = 0 THEN 100 ELSE b.rule.priority
        BY <4>1
      <4>2. rule' = [agent |-> x, hours |-> y, priority |-> p]
        BY <2>1, <3>2 DEF ImportedRule, Scheduled
      <4>3. [agent |-> x, hours |-> y, priority |-> p] \in RuleRow
        BY DEF RuleRow
      <4>4. rule'.agent = x /\ rule'.hours = y
        BY <4>2
      <4> QED
        BY <4>2, <4>3, <4>4
    <3> QED
      BY <3>1, <3>2
  <2>16. TenantSound'
    BY <2>5, <2>6, <2>8, <2>11, <2>12, <2>13, <2>14, <2>15 DEF TenantSound
  <2>17. KnowledgeSound'
    BY <1>1, <2>7 DEF KnowledgeSound, IInv, TablesInv, TypeOK, FileExists, Rows
  <2>18. TablesInv'
    BY <1>1, <2>3, <2>16, <2>17, BundleChange DEF catalogue
  <2>19. KeysInv'
    BY <1>1, <2>2, KeysKept DEF IInv, Fair, catalogue
  <2>20. Apart(r)
    BY <1>1, <2>2, <2>7, BaseApart DEF catalogue
  <2> QED
    BY <2>2, <2>18, <2>19, <2>20, EndsKeeps
<1> QED
  BY <1>2, <1>3

\* The seeding adds what it needs and then refers to it.
LEMMA SeedKeeps ==
  ASSUME IInv, NEW r \in Requests, Seed(r)
  PROVE  IInv'
<1> PICK slugs : slugs = req[r].seen.slugs
  OBVIOUS
<1>1. /\ req[r].at = "seeding" /\ req[r].at # "done"
      /\ UNCHANGED <<provider, key, accepted, hours, store, bundle>>
  BY DEF Seed, At
<1>2. CASE Missing(slugs) \cap Present # {}
  BY <1>1, <1>2, RollsKeeps DEF Seed, Tables
<1>3. CASE Missing(slugs) \cap Present = {}
  <2>1. /\ Commits(r) /\ entry' = Registered(r, slugs)
        /\ IF req[r].arg.dev THEN SeedTenant(r) ELSE UNCHANGED <<agent, tool, rule, base, docs, versions>>
    BY <1>3 DEF Seed
  <2>2. Fair(r) /\ req'[r] = State("done")
    BY <1>1, <2>1, CommitEnds
  <2>3. TenantSound /\ DOMAIN versions = 1..Newest /\ Newest \in Nat /\ entry \in EntryTable
    BY TenantNow, Typed
  <2>4. entry' \in EntryTable /\ Present \subseteq Present'
    <3>1. \A e \in Entries : NewEntry(r, e = Shipped[1]) \in EntryRow /\ NewEntry(r, e = Shipped[1]) # None
      BY NewEntryTyped DEF Ids
    <3> QED
      BY <2>1, <2>3, <3>1 DEF Registered, EntryTable, Present
  <2>5. KeysInv'
    BY <1>1, <2>2, KeysKept DEF IInv, Fair
  <2>6. CASE UNCHANGED <<agent, tool, rule, base, docs, versions>>
    <3>1. \A n \in DOMAIN versions' : RowSound(versions[n])'
      BY <2>3, <2>4, <2>6 DEF TenantSound, RowSound
    <3>2. TenantSound'
      BY <1>1, <2>3, <2>6, <3>1 DEF TenantSound, Newest
    <3>3. TablesInv'
      BY <1>1, <2>4, <2>6, <3>2, TenantChange DEF knowledge, IInv, TablesInv, BundleSound
    <3> QED
      BY <1>1, <2>2, <2>6, <3>3, EndsApart DEF knowledge
  <2>7. CASE SeedTenant(r)
    <3> PICK first : first = Version("PUBLISHED", Content(IF entry'[Shipped[1]] = None THEN None ELSE Shipped[1],
                                                          FALSE, FALSE))
      OBVIOUS
    <3> PICK rows : rows = IF versions = <<>> THEN <<first>> ELSE versions
      OBVIOUS
    <3> PICK found : found = IF agent = None THEN [id |-> r, live |-> 0, routed |-> FALSE] ELSE agent
      OBVIOUS
    <3> PICK live : live = IF found.live = 0 THEN 1 ELSE found.live
      OBVIOUS
    <3>1. /\ agent' = IF versions = <<>> THEN [found EXCEPT !.live = 1] ELSE found
          /\ tool' = IF tool = None THEN [id |-> r, secret |-> FALSE] ELSE tool
          /\ rule' = IF rule = None THEN Scheduled(TRUE, FALSE, 100) ELSE rule
          /\ base' = IF base = None THEN NewBase(r, Default) ELSE base
          /\ docs' = IF House \in Rows THEN docs ELSE [docs EXCEPT ![House] = SeededDocument]
          /\ versions' = Wired(rows, live)
      BY <2>7 DEF SeedTenant
    <3>2. tool' \in ToolRow \cup {None} /\ tool' # None
      BY <2>3, <3>1, NewTenantRows DEF TenantSound
    <3>3. base' \in BaseRow \cup {None} /\ base' # None
      <4>1. NewBase(r, Default) \in BaseRow /\ NewBase(r, Default) # None
        BY NewBaseTyped, KnowledgeAssumption DEF KnowledgeAssumption
      <4> QED
        BY <3>1, <4>1, Typed
    <3>4. first \in VersionRow /\ (first.model # None => first.model \in Present')
      <4>1. Shipped[1] \in Entries
        <5>1. Shipped \in Seq(Entries) /\ Shipped # <<>>
          BY CatalogueAssumption DEF CatalogueAssumption
        <5> QED
          BY <5>1, EmptySeq, LenProperties
      <4> QED
        BY <4>1 DEF Version, Content, VersionRow, Present
    <3> PICK n \in Nat : n >= 1 /\ n >= Newest /\ DOMAIN rows = 1..n /\ (versions # <<>> => n = Newest)
      <4>1. CASE versions = <<>>
        <5>1. Newest = 0 /\ DOMAIN rows = 1..1
          BY <4>1 DEF Newest
        <5> QED
          BY <4>1, <5>1
      <4>2. CASE versions # <<>>
        <5>1. Newest >= 1
          BY <2>3, <4>2, EmptySeq DEF TenantSound, Newest
        <5> QED
          BY <2>3, <4>2, <5>1
      <4> QED
        BY <4>1, <4>2
    <3>5. ASSUME NEW i \in 1..n PROVE rows[i] \in VersionRow /\ (rows[i].model # None => rows[i].model \in Present')
      <4>1. CASE versions = <<>>
        <5>1. rows = <<first>> /\ i = 1
          BY <4>1
        <5>2. \A x : <<x>>[1] = x
          BY SMT
        <5> QED
          BY <3>4, <5>1, <5>2, Zenon
      <4>2. CASE versions # <<>>
        BY <2>3, <2>4, <4>2 DEF TenantSound, RowSound
      <4> QED
        BY <4>1, <4>2
    <3>6. ASSUME NEW i \in 1..n PROVE versions'[i] \in VersionRow /\ RowSound(versions[i])'
      <4> PICK g \in BOOLEAN : g = (rows[i].grant \/ i = live)
        BY <3>5 DEF VersionRow
      <4> PICK k \in BOOLEAN : k = (rows[i].kb \/ i \in {1, live})
        BY <3>5 DEF VersionRow
      <4>1. versions'[i] = [rows[i] EXCEPT !.grant = g, !.kb = k]
        BY <3>1, Zenon DEF Wired
      <4>2. versions'[i] \in VersionRow /\ versions'[i].model = rows[i].model
        BY <3>5, <4>1 DEF VersionRow
      <4> QED
        BY <3>2, <3>3, <3>5, <4>2 DEF RowSound
    <3>7. DOMAIN versions' = 1..n /\ versions' = [i \in 1..n |-> versions'[i]]
      BY <3>1 DEF Wired
    <3>8. versions' \in Seq(VersionRow) /\ Newest' = n
      BY <3>6, <3>7, RowsTyped DEF Newest
    <3>9. found \in AgentRow /\ found # None /\ (agent # None => found = agent) /\ (agent = None => found.live = 0)
      BY <2>3, NewTenantRows DEF TenantSound
    <3>10. agent' \in AgentRow /\ agent' # None /\ agent'.live \in 0..n
      <4>1. CASE versions = <<>>
        <5>1. agent' = [found EXCEPT !.live = 1]
          BY <3>1, <4>1
        <5>2. agent' \in AgentRow /\ agent'.live = 1
          BY <3>9, <5>1 DEF AgentRow
        <5> QED
          BY <5>2, BundleAssumption DEF BundleAssumption
      <4>2. CASE versions # <<>>
        <5>1. agent' = agent /\ agent # None
          BY <2>3, <3>1, <3>9, <4>2 DEF TenantSound
        <5> QED
          BY <2>3, <3>9, <4>2, <5>1 DEF TenantSound
      <4> QED
        BY <4>1, <4>2
    <3>11. rule' \in RuleRow \cup {None} /\ (rule' # None => (rule'.hours => hours' # None) /\ (rule'.agent => agent' # None))
      <4>1. CASE rule = None
        <5>1. Scheduled(TRUE, FALSE, 100) \in RuleRow /\ ~Scheduled(TRUE, FALSE, 100).hours
          BY DEF Scheduled, RuleRow
        <5> QED
          BY <3>1, <3>10, <4>1, <5>1
      <4>2. CASE rule # None
        BY <1>1, <2>3, <3>1, <3>10, <4>2 DEF TenantSound
      <4> QED
        BY <4>1, <4>2
    <3>12. TenantSound'
      BY <1>1, <2>3, <3>2, <3>6, <3>7, <3>8, <3>10, <3>11 DEF TenantSound
    <3>13. SeededDocument \in DocumentRow /\ ~SeededDocument.file
      BY DEF SeededDocument, Document, DocumentRow, Ids
    <3>14. docs \in [Documents \cup {House} -> DocumentRow \cup {None, Gone}]
      BY Typed
    <3>15. /\ docs' \in [Documents \cup {House} -> DocumentRow \cup {None, Gone}]
           /\ \A d \in Documents : d # House /\ docs'[d] = docs[d]
           /\ docs'[House] = docs[House] \/ docs'[House] = SeededDocument
      BY <3>1, <3>13, <3>14, KnowledgeAssumption DEF KnowledgeAssumption
    <3>16. ASSUME NEW d \in Rows' PROVE (docs'[d].file => d \in store) /\ (d = House => ~docs'[d].file)
      <4>1. docs'[d] = docs[d] \/ (d = House /\ docs'[d] = SeededDocument)
        BY <3>15, <3>16 DEF Rows
      <4>2. CASE docs'[d] = docs[d]
        BY <3>16, <4>2 DEF Rows, IInv, TablesInv, FileExists
      <4> QED
        BY <3>13, <4>1, <4>2
    <3>17. KnowledgeSound'
      BY <1>1, <3>3, <3>15, <3>16 DEF KnowledgeSound, FileExists, IInv, TablesInv, TypeOK
    <3>18. TablesInv'
      BY <1>1, <2>4, <3>12, <3>17, BundleChange
    <3>19. Apart(r)
      <4>1. ASSUME NEW q \in Requests \ {r} PROVE IndexKnows(q)'
        <5>1. IndexKnows(q) /\ req'[q].at = req[q].at /\ req'[q].arg = req[q].arg /\ Carries(req[q])
          BY <2>2 DEF Fair, Others, IInv, RequestsInv, Fits
        <5>2. q \in Ingesting => req[q].arg.doc \in Documents \cup {House}
          BY <5>1 DEF Carries, Asked, Ingesting
        <5>3. SeededDocument # Gone
          BY <3>13, KnowledgeAssumption DEF KnowledgeAssumption
        <5>4. q \in Ingesting => docs'[req[q].arg.doc] # Gone
          BY <3>15, <5>1, <5>2, <5>3 DEF IndexKnows
        <5>5. At(q, "removing") => docs'[req[q].arg.doc] = Gone /\ req[q].arg.doc \in Documents
          BY <3>15, <5>1 DEF IndexKnows
        <5> QED
          BY <1>1, <3>3, <5>1, <5>4, <5>5 DEF IndexKnows, Ingesting, At
      <4> QED
        BY <1>1, <2>2, <4>1, OthersProbe DEF Apart, Fair, IInv
    <3> QED
      BY <2>2, <2>5, <3>18, <3>19, EndsKeeps
  <2> QED
    BY <2>1, <2>6, <2>7
<1> QED
  BY <1>2, <1>3

-----------------------------------------------------------------------------
(* The invariant holds *)

LEMMA OneRow ==
  ASSUME NEW m \in Entries, NEW k \in BOOLEAN, NEW s,
         s = <<[state |-> "PUBLISHED", model |-> m, kb |-> k, grant |-> TRUE]>>
  PROVE  /\ s \in Seq(VersionRow) /\ Len(s) = 1 /\ DOMAIN s = 1..1
         /\ s[1] \in VersionRow /\ s[1].model = m
<1>1. [state |-> "PUBLISHED", model |-> m, kb |-> k, grant |-> TRUE] \in VersionRow
  BY DEF VersionRow
<1>2. s[1] = [state |-> "PUBLISHED", model |-> m, kb |-> k, grant |-> TRUE]
  OBVIOUS
<1> QED
  BY <1>1, <1>2

LEMMA InitInv ==
  ASSUME Init
  PROVE  IInv
<1>1. PICK s \in Scenarios :
        /\ provider = "ACTIVE"
        /\ entry = [e \in Entries |-> IF e \in Slugs THEN NewEntry("seed", e = Shipped[1]) ELSE None]
        /\ key = [l \in Labels |-> IF l \in s.keys THEN NewKey("seed", CHOOSE k \in Keys : TRUE) ELSE None]
        /\ accepted = {}
        /\ versions = <<Version("PUBLISHED", Content(Shipped[1], s.kb, TRUE))>>
        /\ agent = [id |-> "seed", live |-> 1, routed |-> s.routed]
        /\ tool = [id |-> "seed", secret |-> FALSE]
        /\ hours = IF s.hours THEN [id |-> "seed"] ELSE None
        /\ rule = Scheduled(TRUE, s.hours, s.priority)
        /\ base = NewBase("seed", s.model)
        /\ docs = [d \in Documents \cup {House} |-> IF d = House THEN SeededDocument ELSE None]
        /\ store = {}
        /\ bundle = IF s.saved THEN Exported([entry |-> entry, agent |-> agent, tool |-> tool, hours |-> hours])
                               ELSE None
        /\ req = [r \in Requests |-> Idle]
  BY DEF Init
<1>2. /\ s.kb \in BOOLEAN /\ s.routed \in BOOLEAN /\ s.hours \in BOOLEAN
      /\ s.priority \in Nat /\ s.model \in Spaces \cup {None}
  BY BundleAssumption DEF BundleAssumption
<1>3. entry \in EntryTable /\ Shipped[1] \in Entries /\ Shipped[1] \in Present
  <2>1. Shipped \in Seq(Entries) /\ Shipped # <<>>
    BY CatalogueAssumption DEF CatalogueAssumption
  <2>2. 1 \in DOMAIN Shipped /\ Shipped[1] \in Entries
    BY <2>1, EmptySeq, LenProperties
  <2>3. \A e \in Entries : /\ NewEntry("seed", e = Shipped[1]) \in EntryRow
                           /\ NewEntry("seed", e = Shipped[1]) # None
    BY NewEntryTyped DEF Ids
  <2>4. Shipped[1] \in Slugs
    BY <2>2 DEF Slugs
  <2> QED
    BY <1>1, <2>2, <2>3, <2>4 DEF EntryTable, Present
<1>4. /\ key \in [Labels -> KeyRow \cup {None}]
      /\ \A l \in Held : key[l].id = "seed" /\ key[l].verified = FALSE
  <2> PICK k \in Keys : k = CHOOSE x \in Keys : TRUE
    BY CatalogueAssumption DEF CatalogueAssumption
  <2>1. NewKey("seed", k) \in KeyRow /\ NewKey("seed", k).id = "seed" /\ NewKey("seed", k).verified = FALSE
    BY DEF NewKey, KeyRow, Ids
  <2> QED
    BY <1>1, <2>1 DEF Held
<1>5. /\ base \in BaseRow /\ base # None
      /\ agent \in AgentRow /\ agent # None /\ agent.live = 1
      /\ tool \in ToolRow /\ tool # None
      /\ hours \in HoursRow \cup {None} /\ (s.hours => hours # None)
      /\ rule \in RuleRow /\ rule.agent = TRUE /\ rule.hours = s.hours
  <2>1. base \in BaseRow
    BY <1>1, <1>2 DEF NewBase, BaseRow, Ids
  <2>2. agent \in AgentRow /\ agent.live = 1 /\ tool \in ToolRow
    BY <1>1, <1>2 DEF AgentRow, ToolRow, Ids
  <2>3. [id |-> "seed"] \in HoursRow
    BY DEF HoursRow, Ids
  <2>4. rule \in RuleRow /\ rule.agent = TRUE /\ rule.hours = s.hours
    BY <1>1, <1>2 DEF Scheduled, RuleRow
  <2> QED
    BY <1>1, <2>1, <2>2, <2>3, <2>4, KnowledgeAssumption, BundleAssumption
       DEF KnowledgeAssumption, BundleAssumption
<1>6. /\ versions \in Seq(VersionRow) /\ Newest = 1 /\ DOMAIN versions = 1..1
      /\ \A n \in DOMAIN versions : RowSound(versions[n])
  <2>1. versions = <<[state |-> "PUBLISHED", model |-> Shipped[1], kb |-> s.kb, grant |-> TRUE]>>
    BY <1>1 DEF Version, Content
  <2>2. /\ versions \in Seq(VersionRow) /\ Newest = 1 /\ DOMAIN versions = 1..1
        /\ versions[1] \in VersionRow /\ versions[1].model = Shipped[1]
    BY <2>1, <1>2, <1>3, OneRow DEF Newest
  <2>3. RowSound(versions[1])
    BY <2>2, <1>3, <1>5 DEF RowSound
  <2> QED
    BY <2>2, <2>3
<1>7. TenantSound
  BY <1>5, <1>6 DEF TenantSound
<1>8. bundle # None => BundleSound(bundle)
  <2>1. [entry |-> entry, agent |-> agent, tool |-> tool, hours |-> hours] \in
          [entry : EntryTable, agent : AgentRow \cup {None}, tool : ToolRow \cup {None}, hours : HoursRow \cup {None}]
    BY <1>3, <1>5
  <2>2. BundleSound(Exported([entry |-> entry, agent |-> agent, tool |-> tool, hours |-> hours]))
    BY <1>3, <1>5, <1>7, <2>1, ExportedSound
  <2> QED
    BY <1>1, <2>2
<1>9. /\ docs \in [Documents \cup {House} -> DocumentRow \cup {None, Gone}]
      /\ \A d \in Documents \cup {House} : docs[d] # None => docs[d].file = FALSE
  <2>1. SeededDocument \in DocumentRow /\ SeededDocument.file = FALSE
    BY DEF SeededDocument, Document, DocumentRow, Ids
  <2> QED
    BY <1>1, <2>1
<1>10. TablesInv
  <2>1. \A n \in DOMAIN versions : (versions[n].kb => base # None) /\ (versions[n].grant => tool # None)
    BY <1>6 DEF RowSound
  <2>2. TypeOK
    <3>1. provider = "ACTIVE" /\ store = {}
      BY <1>1
    <3> QED
      BY <3>1, <1>3, <1>4, <1>5, <1>7, <1>9, <2>1 DEF TypeOK, EntryTable, TenantSound
  <2>3. NamedExist
    BY <1>6 DEF NamedExist, Named, RowSound
  <2>4. FileExists /\ (House \in Rows => ~docs[House].file)
    BY <1>9 DEF FileExists, Rows
  <2> QED
    BY <1>1, <1>8, <2>2, <2>3, <2>4 DEF TablesInv
<1>11. KeysInv
  BY <1>4 DEF KeysInv, TickIsEarned, Settled
<1>12. RequestsInv
  <2>1. ASSUME NEW r \in Requests PROVE Fits(r)
    <3>1. /\ req[r].at = "idle" /\ DOMAIN req[r] = {"at", "arg", "seen", "clean"}
          /\ req[r].clean = TRUE
      BY <1>1 DEF Idle, State
    <3>2. Carries(req[r])
      BY <3>1 DEF Carries
    <3>3. ProbeKnows(r) /\ IndexKnows(r)
      BY <3>1 DEF ProbeKnows, IndexKnows, At, Ingesting
    <3>4. StillReads(r) /\ IndexModel(r)
      BY <3>1 DEF StillReads, IndexModel, At
    <3> QED
      BY <3>2, <3>3, <3>4 DEF Fits
  <2> QED
    BY <1>1, <2>1 DEF RequestsInv
<1> QED
  BY <1>10, <1>11, <1>12 DEF IInv

LEMMA CatalogueKeeps ==
  ASSUME IInv, NEW r \in Requests, OfCatalogue(r), UNCHANGED <<knowledge, tenant, bundle>>
  PROVE  IInv'
<1>1. CASE BeginDisable(r) \/ Disable(r) \/ Enable(r)
  BY <1>1, BeginDisableKeeps, ProviderKeeps
<1>2. CASE \E l \in Labels, k \in Keys : BeginStore(r, l, k) \/ BeginSetCredential(r, l, k)
  BY <1>2, BeginStoreKeeps, BeginSetCredentialKeeps
<1>3. CASE \E l \in Labels : BeginProbe(r, l) \/ DeleteKey(r, l)
  BY <1>3, BeginProbeKeeps, DeleteKeyKeeps
<1>4. CASE Store(r) \/ Probed(r)
  BY <1>4, StoreKeeps, ProbedKeeps
<1>5. CASE \E e \in Entries, default \in BOOLEAN : BeginCreate(r, e, default)
  BY <1>5, BeginCreateKeeps
<1>6. CASE \E e \in Entries, c \in Changes : BeginUpdate(r, e, c)
  BY <1>6, BeginUpdateKeeps
<1>7. CASE \E e \in Entries : BeginDelete(r, e)
  BY <1>7, BeginDeleteKeeps
<1>8. CASE Create(r) \/ Update(r) \/ Delete(r)
  BY <1>8, CreateKeeps, UpdateKeeps, DeleteKeeps
<1> QED
  BY <1>1, <1>2, <1>3, <1>4, <1>5, <1>6, <1>7, <1>8 DEF OfCatalogue

LEMMA KnowledgeKeeps ==
  ASSUME IInv, NEW r \in Requests, OfKnowledge(r), UNCHANGED <<tenant, bundle>>
  PROVE  IInv'
<1>1. CASE \E m \in Spaces \cup {None} : CreateBase(r, m) \/ UpdateBase(r, m)
  BY <1>1, BaseKeeps
<1>2. CASE BeginDeleteBase(r) \/ DeleteBase(r)
  BY <1>2, BeginDeleteBaseKeeps, DeleteBaseKeeps
<1>3. CASE \E d \in Documents : BeginUpload(r, d) \/ AddWeb(r, d)
  BY <1>3, BeginUploadKeeps, AddWebKeeps
<1>4. CASE \E d \in Rows : Reindex(r, d) \/ BeginRemove(r, d)
  <2>1. PICK d \in Documents \cup {House} : Reindex(r, d) \/ BeginRemove(r, d)
    BY <1>4 DEF Rows
  <2> QED
    BY <2>1, ReindexKeeps, BeginRemoveKeeps
<1>5. CASE Put(r) \/ Extract(r) \/ Index(r)
  BY <1>5, PutKeeps, ExtractKeeps, IndexKeeps
<1>6. CASE Remove(r) \/ RemoveFile(r)
  BY <1>6, RemoveKeeps, RemoveFileKeeps
<1> QED
  BY <1>1, <1>2, <1>3, <1>4, <1>5, <1>6 DEF OfKnowledge

LEMMA TenantStepKeeps ==
  ASSUME IInv, NEW r \in Requests, OfTenant(r)
  PROVE  IInv'
<1>1. CASE (\E c \in Submitted : BeginSave(r, c)) \/ Save(r) \/ Publish(r)
  BY <1>1, BeginSaveKeeps, SaveKeeps, PublishKeeps
<1>2. CASE DeleteAgent(r) \/ Reroute(r)
  BY <1>2, DeleteAgentKeeps, RerouteKeeps
<1>3. CASE (\E secret \in BOOLEAN : CreateTool(r, secret)) \/ UpdateTool(r)
  BY <1>3, ToolKeeps
<1>4. CASE BeginDeleteTool(r) \/ DeleteTool(r)
  BY <1>4, BeginDeleteToolKeeps, DeleteToolKeeps
<1>5. CASE CreateHours(r) \/ DeleteHours(r)
  BY <1>5, HoursKeeps
<1>6. CASE \/ \E a, h \in BOOLEAN, p \in {0, 100} : UpdateRule(r, Scheduled(a, h, p))
           \/ UpdateRule(r, None)
  <2>1. \A a, h \in BOOLEAN, p \in {0, 100} : Scheduled(a, h, p) \in RuleRow
    BY DEF Scheduled, RuleRow
  <2> QED
    BY <1>6, <2>1, UpdateRuleKeeps
<1>7. CASE BeginExport(r) \/ Export(r) \/ BeginImport(r) \/ Import(r)
  BY <1>7, BeginExportKeeps, ExportKeeps, BeginImportKeeps, ImportKeeps
<1>8. CASE (\E dev \in BOOLEAN : BeginSeed(r, dev)) \/ Seed(r)
  BY <1>8, BeginSeedKeeps, SeedKeeps
<1>9. CASE (\E e \in Entries : BeginSetModel(r, e)) \/ SetModel(r) \/ Crash(r)
  BY <1>9, BeginSetModelKeeps, SetModelKeeps, CrashKeeps
<1> QED
  BY <1>1, <1>2, <1>3, <1>4, <1>5, <1>6, <1>7, <1>8, <1>9 DEF OfTenant

LEMMA StutterKeeps ==
  ASSUME IInv, UNCHANGED vars
  PROVE  IInv'
<1>1. UNCHANGED <<Tables, store, bundle>> /\ UNCHANGED req
  BY DEF vars, Tables, catalogue, knowledge, tenant
<1>2. TablesInv'
  BY <1>1, TablesKept DEF IInv
<1>3. KeysInv'
  BY <1>1 DEF IInv, KeysInv, Settled, TickIsEarned, Held, Tables
<1>4. ASSUME NEW r \in Requests PROVE Fits(r)'
  <2>1. Fits(r)
    BY DEF IInv, RequestsInv
  <2>2. Carries(req'[r]) /\ ProbeKnows(r)' /\ IndexKnows(r)'
    BY <1>1, <2>1 DEF Fits, ProbeKnows, IndexKnows, Settled, Ingesting, At, Tables
  <2>3. StillReads(r)' /\ IndexModel(r)'
    BY <1>1, <2>1 DEF Fits, StillReads, IndexModel, Defaults, Present, At, Tables
  <2> QED
    BY <2>2, <2>3 DEF Fits
<1>5. RequestsInv'
  BY <1>1, <1>4 DEF IInv, RequestsInv
<1> QED
  BY <1>2, <1>3, <1>5 DEF IInv

LEMMA StepInv == IInv /\ [Next]_vars => IInv'
<1> SUFFICES ASSUME IInv, [Next]_vars PROVE IInv'
  OBVIOUS
<1>1. CASE Next
  <2>1. PICK r \in Requests :
          \/ OfCatalogue(r) /\ UNCHANGED <<knowledge, tenant, bundle, work>>
          \/ OfKnowledge(r) /\ UNCHANGED <<tenant, bundle, work>>
          \/ OfTenant(r) /\ UNCHANGED work
    BY <1>1 DEF Next
  <2> QED
    BY <2>1, CatalogueKeeps, KnowledgeKeeps, TenantStepKeeps
<1>2. CASE UNCHANGED vars
  BY <1>2, StutterKeeps
<1> QED
  BY <1>1, <1>2

THEOREM Inductive == Spec => []IInv
BY InitInv, StepInv, PTL DEF Spec

\* Whatever requests run into one another, every row refers to rows that are there: versions
\* name entries, a base and a tool that exist, rules an agent and a schedule, documents files
\* in the object store; and no key has a tick it did not earn.
THEOREM RowsStaySoundForever == Spec => []RowsSound
<1>1. IInv => RowsSound
  BY DEF IInv, TablesInv, KeysInv, RowsSound
<1> QED
  BY <1>1, Inductive, PTL

-----------------------------------------------------------------------------
(* What a request that ends has done *)

\* A step of q ends nobody else's request.
Alone(q) == \A r \in Requests \ {q} : req'[r].at = req[r].at

LEMMA AloneBy ==
  ASSUME RequestsInv, NEW q \in Requests,
         \/ \E next : CommitsTo(q, next)
         \/ \E next : req' = [req EXCEPT ![q] = next]
         \/ \E at, seen : Moves(q, at, seen)
  PROVE  Alone(q)
<1>1. \A r \in Requests : DOMAIN req[r] = {"at", "arg", "seen", "clean"}
  BY DEF RequestsInv, Fits, Carries
<1> QED
  BY <1>1 DEF RequestsInv, Alone, CommitsTo, Moves

\* The steps that may end a request of a kind the properties speak of.
Ending(r) ==
  /\ At(r, "creating")  => Create(r)
  /\ At(r, "updating")  => Update(r)
  /\ At(r, "deleting")  => Delete(r)
  /\ At(r, "closing")   => DeleteBase(r)
  /\ At(r, "indexing")  => Index(r)
  /\ At(r, "untooling") => DeleteTool(r)
  /\ At(r, "importing") => Import(r)
  /\ At(r, "seeding")   => Seed(r)

Ends(q) == Alone(q) /\ (Running(q) /\ req'[q].at = "done" => Ending(q))

LEMMA BeginsEnd ==
  ASSUME RequestsInv, NEW q \in Requests, req[q] = Idle,
         \/ \E next : CommitsTo(q, next)
         \/ \E next : req' = [req EXCEPT ![q] = next]
  PROVE  Ends(q)
BY AloneBy DEF Ends, Running, Ended, Idle, State

LEMMA EnterEnds ==
  ASSUME RequestsInv, NEW q \in Requests, NEW at, NEW arg, NEW seen, Enter(q, at, arg, seen)
  PROVE  Ends(q)
BY BeginsEnd DEF Enter

LEMMA HandlesEnds ==
  ASSUME RequestsInv, NEW q \in Requests, NEW kind, Handles(q, kind)
  PROVE  Ends(q)
BY BeginsEnd DEF Handles, Commits

LEMMA CatalogueEnds ==
  ASSUME RequestsInv, NEW q \in Requests, OfCatalogue(q)
  PROVE  Ends(q)
<1>1. CASE BeginDisable(q) \/ Enable(q)
  BY <1>1, EnterEnds, HandlesEnds DEF BeginDisable, Enable
<1>2. CASE \E l \in Labels, k \in Keys : BeginStore(q, l, k) \/ BeginSetCredential(q, l, k)
  BY <1>2, EnterEnds DEF BeginStore, BeginSetCredential
<1>3. CASE \E l \in Labels : BeginProbe(q, l) \/ DeleteKey(q, l)
  BY <1>3, EnterEnds, HandlesEnds DEF BeginProbe, DeleteKey
<1>4. CASE \E e \in Entries, default \in BOOLEAN : BeginCreate(q, e, default)
  BY <1>4, EnterEnds DEF BeginCreate
<1>5. CASE \E e \in Entries, c \in Changes : BeginUpdate(q, e, c)
  BY <1>5, EnterEnds DEF BeginUpdate
<1>6. CASE \E e \in Entries : BeginDelete(q, e)
  BY <1>6, EnterEnds DEF BeginDelete
<1>7. CASE Disable(q) \/ Store(q) \/ Probed(q)
  <2>1. Alone(q)
    BY <1>7, AloneBy DEF Disable, Store, Probed, Commits, Rolls
  <2>2. req[q].at \in {"disabling", "storing", "rotating", "probing"}
    BY <1>7 DEF Disable, Store, Probed, At
  <2> QED
    BY <2>1, <2>2 DEF Ends, Ending, At
<1>8. CASE Create(q) \/ Update(q) \/ Delete(q)
  <2>1. Alone(q)
    BY <1>8, AloneBy, Zenon DEF Create, Update, Delete, Commits, Rolls
  <2>2. Ending(q)
    BY <1>8, Zenon DEF Ending, Create, Update, Delete, At
  <2> QED
    BY <2>1, <2>2 DEF Ends
<1> QED
  BY <1>1, <1>2, <1>3, <1>4, <1>5, <1>6, <1>7, <1>8 DEF OfCatalogue

LEMMA KnowledgeEnds ==
  ASSUME RequestsInv, NEW q \in Requests, OfKnowledge(q)
  PROVE  Ends(q)
<1>1. CASE \E m \in Spaces \cup {None} : CreateBase(q, m) \/ UpdateBase(q, m)
  BY <1>1, HandlesEnds DEF CreateBase, UpdateBase
<1>2. CASE BeginDeleteBase(q) \/ \E d \in Documents : BeginUpload(q, d) \/ AddWeb(q, d)
  BY <1>2, EnterEnds DEF BeginDeleteBase, BeginUpload, AddWeb
<1>3. CASE \E d \in Rows : Reindex(q, d) \/ BeginRemove(q, d)
  BY <1>3, EnterEnds DEF Reindex, BeginRemove
<1>4. CASE DeleteBase(q) \/ Index(q) \/ Remove(q) \/ RemoveFile(q)
  <2>1. Alone(q)
    BY <1>4, AloneBy DEF DeleteBase, Index, Remove, RemoveFile, Commits
  <2>2. Ending(q)
    BY <1>4 DEF Ending, DeleteBase, Index, Remove, RemoveFile, At
  <2> QED
    BY <2>1, <2>2 DEF Ends
<1>5. CASE Put(q)
  <2>1. Alone(q)
    BY <1>5, AloneBy DEF Put, Rolls
  <2>2. At(q, "uploading")
    BY <1>5 DEF Put
  <2> QED
    BY <2>1, <2>2 DEF Ends, Ending, At
<1>6. CASE Extract(q)
  <2>1. PICK seen : Moves(q, "indexing", seen)
    BY <1>6 DEF Extract
  <2>2. Alone(q)
    BY <2>1, AloneBy
  <2>3. req'[q].at = "indexing"
    BY <2>1 DEF Moves, RequestsInv, Fits, Carries
  <2> QED
    BY <2>2, <2>3 DEF Ends
<1> QED
  BY <1>1, <1>2, <1>3, <1>4, <1>5, <1>6 DEF OfKnowledge

LEMMA TenantEnds ==
  ASSUME RequestsInv, NEW q \in Requests, OfTenant(q)
  PROVE  Ends(q)
<1>1. CASE (\E c \in Submitted : BeginSave(q, c)) \/ BeginDeleteTool(q) \/ BeginExport(q) \/ BeginImport(q)
  BY <1>1, EnterEnds DEF BeginSave, BeginDeleteTool, BeginExport, BeginImport
<1>2. CASE (\E dev \in BOOLEAN : BeginSeed(q, dev)) \/ (\E e \in Entries : BeginSetModel(q, e))
  BY <1>2, EnterEnds DEF BeginSeed, BeginSetModel
<1>3. CASE Publish(q) \/ DeleteAgent(q) \/ Reroute(q) \/ UpdateTool(q)
  BY <1>3, HandlesEnds DEF Publish, DeleteAgent, Reroute, UpdateTool
<1>4. CASE \E secret \in BOOLEAN : CreateTool(q, secret)
  BY <1>4, HandlesEnds DEF CreateTool
<1>5. CASE CreateHours(q) \/ DeleteHours(q) \/ \E new : UpdateRule(q, new)
  BY <1>5, HandlesEnds DEF CreateHours, DeleteHours, UpdateRule
<1>6. CASE Save(q) \/ DeleteTool(q) \/ Export(q) \/ Import(q) \/ Seed(q) \/ SetModel(q)
  <2>1. Alone(q)
    BY <1>6, AloneBy DEF Save, DeleteTool, Export, Import, Seed, SetModel, Commits, Rolls
  <2>2. Ending(q)
    BY <1>6 DEF Ending, Save, DeleteTool, Export, Import, Seed, SetModel, At
  <2> QED
    BY <2>1, <2>2 DEF Ends
<1>7. CASE Crash(q)
  <2>1. Alone(q)
    BY <1>7, AloneBy DEF Crash, Rolls
  <2>2. req'[q].at = "refused"
    BY <1>7 DEF Crash, Rolls, State, RequestsInv
  <2> QED
    BY <2>1, <2>2 DEF Ends
<1> QED
  BY <1>1, <1>2, <1>3, <1>4, <1>5, <1>6, <1>7 DEF OfTenant

\* Who ends has taken the last step of its kind itself.
LEMMA WhoEnds ==
  ASSUME IInv, Next, NEW r \in Requests, Running(r), req'[r].at = "done"
  PROVE  Ending(r)
<1>1. PICK q \in Requests : OfCatalogue(q) \/ OfKnowledge(q) \/ OfTenant(q)
  BY DEF Next
<1>2. Ends(q)
  BY <1>1, CatalogueEnds, KnowledgeEnds, TenantEnds DEF IInv
<1>3. q = r
  BY <1>2 DEF Ends, Alone, Running, Ended
<1> QED
  BY <1>2, <1>3 DEF Ends

LEMMA RefusedIsNotDone ==
  ASSUME IInv, NEW r \in Requests, Rolls(r)
  PROVE  req'[r].at = "refused"
BY DEF IInv, RequestsInv, Rolls, State

LEMMA SoleStep ==
  ASSUME IInv, Next, NEW r \in Requests, Undisturbed(r),
         \/ At(r, "creating") /\ req[r].arg.default
         \/ At(r, "updating") /\ MakesDefault(req[r].arg.change)
  PROVE  Defaults' = {req[r].arg.slug}
<1> PICK e : e = req[r].arg.slug
  OBVIOUS
<1>1. Running(r) /\ req[r].clean /\ req'[r].at = "done" /\ ~Rolls(r)
  BY RefusedIsNotDone DEF Undisturbed
<1>2. Ending(r)
  BY <1>1, WhoEnds
<1>3. entry \in EntryTable /\ None \notin EntryRow
  BY Typed, CatalogueAssumption DEF CatalogueAssumption
\* The request saw every default there is.
<1>4. ASSUME NEW cleared, cleared = Defaults \/ cleared = Defaults \ {e}, NEW x \in Entries, x # e
      PROVE  Cleared(cleared)[x] = None \/ ~Cleared(cleared)[x].default
  <2>1. CASE x \in Defaults
    <3>1. entry[x] \in EntryRow /\ Cleared(cleared)[x] = [entry[x] EXCEPT !.default = FALSE]
      BY <1>3, <1>4, <2>1 DEF Defaults, Present, Cleared, EntryTable
    <3> QED
      BY <3>1 DEF EntryRow
  <2>2. CASE x \notin Defaults
    BY <1>3, <1>4, <2>2 DEF Defaults, Present, Cleared
  <2> QED
    BY <2>1, <2>2
<1>5. CASE At(r, "creating") /\ req[r].arg.default
  <2>1. e \in Entries /\ req[r].seen.clears = Defaults
    BY <1>1, <1>5 DEF IInv, RequestsInv, Fits, Carries, StillReads, At
  <2>2. entry' = [Cleared(Defaults) EXCEPT ![e] = NewEntry(r, TRUE)]
    <3>1. Create(r) /\ req[r].arg.default = TRUE
      BY <1>2, <1>5 DEF Ending, IInv, RequestsInv, Fits, Carries, At
    <3> QED
      BY <1>1, <2>1, <3>1 DEF Create
  <2>3. entry'[e] # None /\ entry'[e].default = TRUE
    <3>1. NewEntry(r, TRUE) # None /\ NewEntry(r, TRUE).default = TRUE
      BY NewEntryTyped DEF NewEntry, Ids
    <3> QED
      BY <2>1, <2>2, <3>1 DEF Cleared
  <2>4. \A x \in Entries : x # e => entry'[x] = None \/ ~entry'[x].default
    BY <1>4, <2>2 DEF Cleared
  <2> QED
    BY <2>1, <2>3, <2>4 DEF Defaults, Present
<1>6. CASE At(r, "updating") /\ MakesDefault(req[r].arg.change)
  <2>1. e \in Entries /\ req[r].seen.clears = Defaults \ {e} /\ req[r].seen.row = entry[e] /\ entry[e] \in EntryRow
    BY <1>1, <1>6 DEF IInv, RequestsInv, Fits, Carries, StillReads, At
  <2>2. req[r].arg.change = [field |-> "default", to |-> TRUE]
    BY <1>6, SMTT(30) DEF MakesDefault
  <2>3. entry' = [Cleared(Defaults \ {e}) EXCEPT ![e]["default"] = Flushed(entry[e]["default"], TRUE, @)]
    <3> PICK c : c = req[r].arg.change
      OBVIOUS
    <3>1. Update(r) /\ c.field = "default" /\ c.to = TRUE
      BY <1>2, <1>6, <2>2 DEF Ending
    <3>2. entry' = [Cleared(req[r].seen.clears) EXCEPT
                      ![e][c.field] = Flushed(req[r].seen.row[c.field], c.to, @)]
      BY <1>1, <3>1 DEF Update
    <3> QED
      BY <2>1, <3>1, <3>2
  <2> PICK old : old = Cleared(Defaults \ {e})[e]
    OBVIOUS
  <2>4. old = entry[e]
    BY <2>1 DEF Cleared
  <2>5. entry'[e] = [old EXCEPT !["default"] = Flushed(entry[e]["default"], TRUE, @)]
    BY <2>1, <2>3 DEF Cleared
  <2>6. entry'[e] \in EntryRow /\ entry'[e].default = TRUE
    <3>1. entry[e].default \in BOOLEAN
      BY <2>1 DEF EntryRow
    <3>2. Flushed(entry[e]["default"], TRUE, entry[e]["default"]) = TRUE
      BY <3>1 DEF Flushed
    <3>3. entry'[e] = [entry[e] EXCEPT !.default = TRUE]
      BY <2>4, <2>5, <3>2
    <3> QED
      BY <2>1, <3>3 DEF EntryRow
  <2>7. \A x \in Entries : x # e => entry'[x] = None \/ ~entry'[x].default
    BY <1>4, <2>3 DEF Cleared
  <2> QED
    BY <1>3, <2>1, <2>6, <2>7 DEF Defaults, Present
<1> QED
  BY <1>5, <1>6

LEMMA SpaceStep ==
  ASSUME IInv, Next, NEW r \in Requests, Undisturbed(r), At(r, "indexing"),
         req[r].seen.outcome # "failed"
  PROVE  LET d == docs'[req[r].arg.doc] IN d.by = r /\ (d.space = None \/ d.space = base'.model)
<1> PICK d : d = req[r].arg.doc
  OBVIOUS
<1> PICK seen : seen = req[r].seen
  OBVIOUS
<1>1. Index(r)
  BY WhoEnds DEF Undisturbed, Ending
<1>2. Carries(req[r]) /\ IndexKnows(r) /\ StillReads(r) /\ IndexModel(r) /\ seen # None /\ req[r].clean
  BY <1>1 DEF IInv, RequestsInv, Fits, Index, Undisturbed
<1>3. /\ seen \in Outcomes /\ d \in Documents \cup {House} /\ base # None
      /\ seen.loaded = base.model /\ (seen.loaded # None => seen.model = seen.loaded)
  BY <1>2 DEF Carries, IndexKnows, Ingesting, StillReads, IndexModel, At, Asked
<1>4. base \in BaseRow /\ docs \in [Documents \cup {House} -> DocumentRow \cup {None, Gone}]
  BY <1>3, Typed
<1>5. CASE seen.outcome = "text"
  <2>1. docs' = [docs EXCEPT ![d] = Document("INDEXED", req[r].arg.file, r, None)]
    BY <1>1, <1>5 DEF Index
  <2> QED
    BY <1>3, <1>4, <2>1 DEF Document
<1>6. CASE seen.outcome = "vectors"
  <2>1. /\ docs' = [docs EXCEPT ![d] = Document("INDEXED", req[r].arg.file, r, seen.model)]
        /\ base' = IF seen.loaded = None THEN [base EXCEPT !.model = seen.model] ELSE base
    BY <1>1, <1>6 DEF Index, Recorded
  <2>2. base'.model = seen.model
    BY <1>3, <1>4, <2>1 DEF BaseRow
  <2> QED
    BY <1>3, <1>4, <2>1, <2>2 DEF Document
<1> QED
  BY <1>3, <1>5, <1>6 DEF Outcomes

\* Nobody had given a version what goes, so no version changes.
LEMMA UnusedStep ==
  ASSUME IInv, Next, NEW r \in Requests, Undisturbed(r), req[r].at \in {"deleting", "closing", "untooling"}
  PROVE  versions' = versions
<1>1. Ending(r)
  BY WhoEnds DEF Undisturbed
<1>2. StillReads(r) /\ req[r].clean
  BY DEF IInv, RequestsInv, Fits, Undisturbed
<1>3. versions \in Seq(VersionRow) /\ \A n \in DOMAIN versions : versions[n] \in VersionRow
  BY Typed
<1>4. CASE At(r, "deleting")
  BY <1>1, <1>4 DEF Ending, Delete
<1>5. CASE At(r, "closing")
  <2>1. \A n \in DOMAIN versions : versions[n].kb = FALSE
    BY <1>2, <1>3, <1>5 DEF StillReads, VersionRow
  <2>2. \A n \in DOMAIN versions : [versions[n] EXCEPT !.kb = FALSE] = versions[n]
    BY <1>3, <2>1 DEF VersionRow
  <2>3. versions' = versions \/ versions' = [n \in DOMAIN versions |-> [versions[n] EXCEPT !.kb = FALSE]]
    BY <1>1, <1>5 DEF Ending, DeleteBase
  <2>4. versions = [n \in DOMAIN versions |-> versions[n]]
    BY <1>3
  <2> QED
    BY <2>2, <2>3, <2>4
<1>6. CASE At(r, "untooling")
  <2>1. \A n \in DOMAIN versions : versions[n].grant = FALSE
    BY <1>2, <1>3, <1>6 DEF StillReads, VersionRow
  <2>2. \A n \in DOMAIN versions : [versions[n] EXCEPT !.grant = FALSE] = versions[n]
    BY <1>3, <2>1 DEF VersionRow
  <2>3. versions' = versions \/ versions' = [n \in DOMAIN versions |-> [versions[n] EXCEPT !.grant = FALSE]]
    BY <1>1, <1>6 DEF Ending, DeleteTool
  <2>4. versions = [n \in DOMAIN versions |-> versions[n]]
    BY <1>3
  <2> QED
    BY <2>2, <2>3, <2>4
<1> QED
  BY <1>4, <1>5, <1>6 DEF At

\* What SeedOnlyAdds says of one request.
Adds(r) ==
  /\ \A e \in Present : entry'[e] = entry[e]
  /\ \A d \in Rows : docs'[d] = docs[d]
  /\ key' = key /\ hours' = hours
  /\ tool # None => tool' = tool
  /\ rule # None => rule' = rule
  /\ base # None => base' = base
  /\ \A n \in DOMAIN versions :
       /\ versions'[n].model = versions[n].model /\ versions'[n].state = versions[n].state
       /\ n \notin {1, agent.live} => versions'[n] = versions[n]

LEMMA SeedStep ==
  ASSUME IInv, Next, NEW r \in Requests, At(r, "seeding"), req'[r].at = "done"
  PROVE  Adds(r)
<1> PICK slugs : slugs = req[r].seen.slugs
  OBVIOUS
<1>1. Seed(r) /\ ~Rolls(r)
  BY WhoEnds, RefusedIsNotDone DEF Ending, Running, Ended, At
<1>2. /\ Missing(slugs) \cap Present = {} /\ entry' = Registered(r, slugs)
      /\ IF req[r].arg.dev THEN SeedTenant(r) ELSE UNCHANGED <<agent, tool, rule, base, docs, versions>>
      /\ UNCHANGED <<key, hours>>
  BY <1>1 DEF Seed
<1>3. \A e \in Present : entry'[e] = entry[e]
  BY <1>2 DEF Registered, Present
<1>4. CASE UNCHANGED <<agent, tool, rule, base, docs, versions>>
  BY <1>2, <1>3, <1>4 DEF Adds
<1>5. CASE SeedTenant(r)
  <2>1. TenantSound
    BY TenantNow
  <2>2. \A d \in Rows : docs'[d] = docs[d]
    BY <1>5, Typed DEF SeedTenant, Rows
  <2>3. /\ tool # None => tool' = tool
        /\ rule # None => rule' = rule
        /\ base # None => base' = base
    BY <1>5 DEF SeedTenant
  <2>4. ASSUME NEW n \in DOMAIN versions
        PROVE  /\ versions'[n].model = versions[n].model /\ versions'[n].state = versions[n].state
               /\ n \notin {1, agent.live} => versions'[n] = versions[n]
    <3>1. versions # <<>> /\ agent # None /\ versions[n] \in VersionRow
      BY <2>1 DEF TenantSound, RowSound
    <3> PICK live : live = IF agent.live = 0 THEN 1 ELSE agent.live
      OBVIOUS
    <3>2. versions' = Wired(versions, live)
      BY <1>5, <3>1 DEF SeedTenant
    <3>3. versions[n].kb \in BOOLEAN /\ versions[n].grant \in BOOLEAN
      BY <3>1 DEF VersionRow
    <3> PICK g \in BOOLEAN : g = (versions[n].grant \/ n = live)
      BY <3>3
    <3> PICK k \in BOOLEAN : k = (versions[n].kb \/ n \in {1, live})
      BY <3>3
    <3>4. versions'[n] = [versions[n] EXCEPT !.grant = g, !.kb = k]
      BY <3>2 DEF Wired
    <3>5. versions'[n].model = versions[n].model /\ versions'[n].state = versions[n].state
      BY <3>1, <3>4 DEF VersionRow
    <3>6. ASSUME n \notin {1, agent.live} PROVE versions'[n] = versions[n]
      <4>1. g = versions[n].grant /\ k = versions[n].kb
        BY <3>3, <3>6
      <4> QED
        BY <3>1, <3>4, <4>1, Zenon DEF VersionRow
    <3> QED
      BY <3>5, <3>6
  <2> QED
    BY <1>2, <1>3, <2>2, <2>3, <2>4 DEF Adds
<1> QED
  BY <1>2, <1>4, <1>5

\* The seeding only adds; a default that is set is the only one; what is indexed lies in one
\* space; and only what is unused goes.
THEOREM KeptToItsOwn == Spec => KeepsToItsOwn
<1>1. IInv /\ [Next]_vars =>
        [\A r \in Requests :
           Undisturbed(r) /\ ( \/ At(r, "creating") /\ req[r].arg.default
                               \/ At(r, "updating") /\ MakesDefault(req[r].arg.change) )
           => Defaults' = {req[r].arg.slug}]_<<req, entry>>
  BY SoleStep DEF vars, catalogue
<1>2. IInv /\ [Next]_vars =>
        [\A r \in Requests :
           Undisturbed(r) /\ At(r, "indexing") /\ req[r].seen.outcome # "failed"
           => LET d == docs'[req[r].arg.doc] IN
                d.by = r /\ (d.space = None \/ d.space = base'.model)]_<<req, docs, base>>
  BY SpaceStep DEF vars, knowledge
<1>3. IInv /\ [Next]_vars =>
        [\A r \in Requests :
           At(r, "seeding") /\ req'[r].at = "done"
           => /\ \A e \in Present : entry'[e] = entry[e]
              /\ \A d \in Rows : docs'[d] = docs[d]
              /\ key' = key /\ hours' = hours
              /\ tool # None => tool' = tool
              /\ rule # None => rule' = rule
              /\ base # None => base' = base
              /\ \A n \in DOMAIN versions :
                   /\ versions'[n].model = versions[n].model /\ versions'[n].state = versions[n].state
                   /\ n \notin {1, agent.live} => versions'[n] = versions[n]]_vars
  BY SeedStep DEF Adds
<1>4. IInv /\ [Next]_vars =>
        [\A r \in Requests :
           Undisturbed(r) /\ req[r].at \in {"deleting", "closing", "untooling"}
           => versions' = versions]_vars
  BY UnusedStep
<1>5. Spec => DefaultIsSole
  BY <1>1, Inductive, PTL DEF Spec, DefaultIsSole
<1>6. Spec => IndexedInOneSpace
  BY <1>2, Inductive, PTL DEF Spec, IndexedInOneSpace
<1>7. Spec => SeedOnlyAdds
  BY <1>3, Inductive, PTL DEF Spec, SeedOnlyAdds
<1>8. Spec => OnlyUnusedGo
  BY <1>4, Inductive, PTL DEF Spec, OnlyUnusedGo
<1> QED
  BY <1>5, <1>6, <1>7, <1>8 DEF KeepsToItsOwn

\* What ImportRestores says of one request.
Restores(r) ==
  LET b == req[r].arg IN
    /\ b.rule # None => rule' = [b.rule EXCEPT !.priority = IF @ = 0 THEN 100 ELSE @]
    /\ agent # None => agent' = agent
    /\ SubSeq(versions', 1, Newest) = versions
    /\ \A i \in DOMAIN b.versions :
         LET v == versions'[Newest + i] IN
           /\ v.kb = b.versions[i].kb /\ v.grant = (b.versions[i].grant /\ b.tool)
           /\ v.model \in {b.versions[i].model, None}
           /\ v.model = None => b.versions[i].model \notin Present

LEMMA ImportStep ==
  ASSUME IInv, Next, NEW r \in Requests, Undisturbed(r), At(r, "importing")
  PROVE  Restores(r)
<1> PICK b : b = req[r].arg
  OBVIOUS
<1> PICK seen : seen = req[r].seen
  OBVIOUS
<1>1. Import(r) /\ ~Rolls(r)
  BY WhoEnds, RefusedIsNotDone DEF Undisturbed, Ending
<1>2. /\ BundleSound(b) /\ seen.entry = entry
      /\ b.versions \in Seq(Contents) /\ b.agent \in BOOLEAN /\ b.hours \in BOOLEAN
      /\ b.tool \in BOOLEAN /\ b.rule \in RuleRow \cup {None}
  BY DEF Undisturbed, At, IInv, RequestsInv, Fits, Carries, StillReads, BundleSound, BundleFile
<1>3. /\ ImportHours(r, b) /\ ImportBase(r, b) /\ ImportAgents(r, b, seen)
      /\ rule' = IF b.rule = None THEN rule ELSE ImportedRule(b)
  BY <1>1 DEF Import
<1>4. agent # None => agent' = agent
  BY <1>3, Zenon DEF ImportAgents
\* The agent and the schedule of a rule come with it.
<1>5. (b.agent => agent' # None) /\ (b.hours => hours' # None)
  <2>1. [id |-> r, live |-> 0, routed |-> FALSE] # None /\ [id |-> r] # None
    BY NewTenantRows
  <2> QED
    BY <1>3, <2>1, Zenon DEF ImportAgents, ImportHours
<1>6. b.rule # None => rule' = [b.rule EXCEPT !.priority = IF @ = 0 THEN 100 ELSE @]
  <2> SUFFICES ASSUME b.rule # None PROVE rule' = [b.rule EXCEPT !.priority = IF @ = 0 THEN 100 ELSE @]
    OBVIOUS
  <2>1. b.rule \in RuleRow /\ b.rule.agent \in BOOLEAN /\ b.rule.hours \in BOOLEAN
    BY <1>2 DEF RuleRow
  <2>2. (b.rule.agent => agent' # None) /\ (b.rule.hours => hours' # None)
    BY <1>2, <1>5 DEF BundleSound
  <2>3. rule' = [agent |-> b.rule.agent, hours |-> b.rule.hours,
                 priority |-> IF b.rule.priority = 0 THEN 100 ELSE b.rule.priority]
    BY <1>3, <2>1, <2>2 DEF ImportedRule, Scheduled
  <2> QED
    BY <2>1, <2>3 DEF RuleRow
<1>7. b.base # None => base' # None
  <2>1. b.base \in BaseEntry \cup {None} /\ base \in BaseRow \cup {None}
    BY <1>2, Typed DEF BundleSound, BundleFile
  <2>2. CASE b.base # None
    <3>1. b.base.model \in Spaces \cup {None}
      BY <2>1, <2>2 DEF BaseEntry
    <3>2. NewBase(r, b.base.model) # None
      BY <3>1, NewBaseTyped
    <3>3. base # None => [base EXCEPT !.model = b.base.model] \in BaseRow
      BY <2>1, <3>1 DEF BaseRow
    <3> QED
      BY <1>3, <2>2, <3>2, <3>3, KnowledgeAssumption DEF ImportBase, KnowledgeAssumption
  <2> QED
    BY <2>2
<1> PICK n : n = Len(b.versions)
  OBVIOUS
<1>8. n \in Nat /\ DOMAIN b.versions = 1..n /\ \A i \in 1..n : b.versions[i] \in Contents
  BY <1>2, LenProperties
<1>9. PICK rows : /\ versions' = versions \o rows
                  /\ rows = [i \in 1..n |-> Version("DRAFT", [Resolved(b.versions[i], b, seen) EXCEPT
                                                                !.kb = @ /\ base' # None])]
  BY <1>3, <1>8, Zenon DEF ImportAgents
<1>10. ASSUME NEW i \in 1..n
       PROVE  /\ rows[i] \in VersionRow
              /\ rows[i].kb = b.versions[i].kb /\ rows[i].grant = (b.versions[i].grant /\ b.tool)
              /\ rows[i].model \in {b.versions[i].model, None}
              /\ rows[i].model = None => b.versions[i].model \notin Present
  <2> PICK c : c = b.versions[i]
    OBVIOUS
  <2> PICK m : m = Resolved(c, b, seen).model
    OBVIOUS
  <2>1. c \in Contents
    BY <1>8
  <2>2. rows[i] = Version("DRAFT", [Resolved(b.versions[i], b, seen) EXCEPT !.kb = @ /\ base' # None])
    BY <1>9, Zenon
  <2>3. rows[i] = [state |-> "DRAFT", model |-> m, kb |-> c.kb /\ base' # None, grant |-> c.grant /\ b.tool]
    BY <2>1, <2>2, WrittenDraft
  <2>4. m = IF c.model # None /\ entry[c.model] # None THEN c.model ELSE None
    BY <1>2 DEF Resolved, Content
  <2>5. c.kb \in BOOLEAN /\ (c.kb => base' # None)
    BY <1>2, <1>7, <1>8, <2>1 DEF BundleSound, Contents
  <2>6. None \notin Entries
    BY CatalogueAssumption DEF CatalogueAssumption
  <2>7. rows[i].kb = c.kb /\ rows[i].grant = (c.grant /\ b.tool) /\ rows[i].model = m
    BY <2>3, <2>5
  <2>8. m \in {c.model, None} /\ (m = None => c.model \notin Present)
    BY <2>4, <2>6 DEF Present
  <2>9. rows[i] \in VersionRow
    <3> PICK k, g \in BOOLEAN : k = (c.kb /\ base' # None) /\ g = (c.grant /\ b.tool)
      OBVIOUS
    <3>1. rows[i] = [state |-> "DRAFT", model |-> m, kb |-> k, grant |-> g]
      BY <2>3
    <3>2. m \in Entries \cup {None}
      BY <2>1, <2>8 DEF Contents
    <3> QED
      BY <3>1, <3>2 DEF VersionRow
  <2> QED
    BY <2>7, <2>8, <2>9
<1>11. rows \in Seq(VersionRow) /\ Len(rows) = n
  <2>1. rows = [i \in 1..n |-> rows[i]]
    BY <1>9
  <2> QED
    BY <1>8, <1>10, <2>1, RowsTyped, SMTT(30)
<1>12. versions \in Seq(VersionRow) /\ Newest \in Nat /\ Newest = Len(versions)
  BY Typed DEF Newest
<1>13. /\ \A j \in 1..Newest : versions'[j] = versions[j]
       /\ \A i \in 1..n : versions'[Newest + i] = rows[i]
  <2>1. versions' = versions \o rows
    BY <1>9
  <2>2. \A j \in 1..(Len(versions) + Len(rows)) :
          (versions \o rows)[j] = IF j <= Len(versions) THEN versions[j] ELSE rows[j - Len(versions)]
    BY <1>11, <1>12, ConcatProperties
  <2>3. \A j \in 1..(Newest + n) : versions'[j] = IF j <= Newest THEN versions[j] ELSE rows[j - Newest]
    BY <1>11, <1>12, <2>1, <2>2
  <2>4. \A i \in 1..n : Newest + i \in 1..(Newest + n) /\ ~(Newest + i <= Newest) /\ (Newest + i) - Newest = i
    BY <1>8, <1>12
  <2>5. \A j \in 1..Newest : j \in 1..(Newest + n) /\ j <= Newest
    BY <1>8, <1>12
  <2>6. ASSUME NEW i \in 1..n PROVE versions'[Newest + i] = rows[i]
    BY <2>3, <2>4
  <2> QED
    BY <2>3, <2>5, <2>6, SMTT(30)
<1>14. SubSeq(versions', 1, Newest) = versions
  BY <1>12, <1>13
<1>15. ASSUME NEW i \in DOMAIN b.versions
       PROVE  LET v == versions'[Newest + i] IN
                /\ v.kb = b.versions[i].kb /\ v.grant = (b.versions[i].grant /\ b.tool)
                /\ v.model \in {b.versions[i].model, None}
                /\ v.model = None => b.versions[i].model \notin Present
  BY <1>8, <1>10, <1>13
<1> QED
  BY <1>4, <1>6, <1>14, <1>15 DEF Restores

\* An import that nobody overtook restores the bundle's rule and versions beside what was there.
THEOREM ImportsRestore == Spec => ImportRestores
<1>1. IInv /\ [Next]_vars =>
        [\A r \in Requests :
           Undisturbed(r) /\ At(r, "importing")
           => LET b == req[r].arg IN
                /\ b.rule # None => rule' = [b.rule EXCEPT !.priority = IF @ = 0 THEN 100 ELSE @]
                /\ agent # None => agent' = agent
                /\ SubSeq(versions', 1, Newest) = versions
                /\ \A i \in DOMAIN b.versions :
                     LET v == versions'[Newest + i] IN
                       /\ v.kb = b.versions[i].kb /\ v.grant = (b.versions[i].grant /\ b.tool)
                       /\ v.model \in {b.versions[i].model, None}
                       /\ v.model = None => b.versions[i].model \notin Present]_vars
  BY ImportStep DEF Restores
<1> QED
  BY <1>1, Inductive, PTL DEF Spec, ImportRestores

=============================================================================
