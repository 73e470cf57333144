------------------------------ MODULE Catalogue ------------------------------
(***************************************************************************)
(* The platform's AI catalogue and a tenant's keys for it: one provider,   *)
(* its entries (models; voices are kept the same way), the keys a tenant   *)
(* stored, and the probes that verify them.  A request of the API or of    *)
(* the command line is one transaction at READ COMMITTED: what it read     *)
(* when it began may be stale when it commits, a flush only writes the     *)
(* columns whose value it changed, and a row it loaded may be gone.        *)
(***************************************************************************)
EXTENDS Naturals, Sequences, FiniteSets

CONSTANTS
  Entries,    \* the slugs a provider may have
  Shipped,    \* the slugs seed_provider_catalog registers, the first one as default
  Keys,       \* api keys
  Labels,     \* "primary", "failover"
  Requests,   \* each is one request of the API or one command
  None

\* Who made a row: a request, or the seeding before the run.
Ids == Requests \cup {"seed"}

\* Rows; how: whether the value now stored came in undisturbed through the API.
EntryRow == [id : Ids, active : BOOLEAN, default : BOOLEAN]
KeyRow   == [id : Ids, key : Keys, verified : BOOLEAN, how : {"put", "raced"}]

ASSUME CatalogueAssumption ==
  /\ Shipped \in Seq(Entries) /\ Shipped # <<>>
  /\ "primary" \in Labels /\ Keys # {}
  /\ "seed" \notin Requests
  /\ None \notin Requests \cup Entries \cup EntryRow \cup KeyRow

VARIABLES
  provider,   \* Provider.status
  entry,      \* the Model rows of the provider, by slug
  key,        \* the tenant's ProviderCredential rows, by label
  versions,   \* the AgentVersion rows of the tenant's agent, by number
  req,        \* what each request is about to do, and what it read
  work,       \* bound: the kinds of requests this behaviour mixes
  accepted    \* history: the keys a probe saw accepted

catalogue == <<provider, entry, key, accepted>>

(* ------------------------------ requests ------------------------------- *)

\* clean: nobody committed since the request began.
State(at) == [at |-> at, arg |-> None, seen |-> None, clean |-> TRUE]
Idle      == State("idle")
Ended     == {"idle", "done", "refused"}
Running(r) == req[r].at \notin Ended
At(r, at)  == req[r].at = at

\* Request r starts its transaction: arg is what it asks for, seen what it read.
Enter(r, at, arg, seen) ==
  /\ req[r] = Idle /\ at \in work
  /\ req' = [req EXCEPT ![r] = [at |-> at, arg |-> arg, seen |-> seen, clean |-> TRUE]]

\* It goes on in the same transaction.
Moves(r, at, seen) == req' = [req EXCEPT ![r].at = at, ![r].seen = seen]

\* The request ends without having changed a row: refused, failed, or rolled back.
Rolls(r) == req' = [req EXCEPT ![r] = State("refused")]

\* The request commits: whoever else is running has been overtaken.
CommitsTo(r, next) ==
  req' = [q \in Requests |-> IF q = r THEN next ELSE [req[q] EXCEPT !.clean = @ /\ ~Running(q)]]
Commits(r) == CommitsTo(r, State("done"))

\* One whose reading and writing nothing modelled here comes between.
Handles(r, kind) == req[r] = Idle /\ kind \in work /\ Commits(r)

\* An attribute a flush writes only when the request changed it from what it had loaded.
Flushed(loaded, new, current) == IF new = loaded THEN current ELSE new

\* The row that was read is still that row: there, or not there.
Same(seen, row) == IF seen = None \/ row = None THEN seen = row ELSE seen.id = row.id

(* ------------------------------ providers ------------------------------ *)

Held == {l \in Labels : key[l] # None}

\* update_provider: not disabled while any tenant holds a key for it.
BeginDisable(r) ==
  /\ provider = "ACTIVE" /\ Held = {}
  /\ Enter(r, "disabling", None, None)
  /\ UNCHANGED <<catalogue, versions>>

Disable(r) ==
  /\ At(r, "disabling") /\ Commits(r)
  /\ provider' = "DISABLED"
  /\ UNCHANGED <<entry, key, accepted, versions>>

Enable(r) ==
  /\ Handles(r, "enabling")
  /\ provider' = "ACTIVE"
  /\ UNCHANGED <<entry, key, accepted, versions>>

(* -------------------------------- keys --------------------------------- *)

Probing(l) == {q \in Requests : At(q, "probing") /\ req[q].arg.label = l}

\* upsert_credential: one key per provider and label, stored or rotated.
BeginStore(r, l, k) ==
  /\ provider = "ACTIVE"
  /\ Enter(r, "storing", [label |-> l, key |-> k], key[l])
  /\ UNCHANGED <<catalogue, versions>>

\* cmd_set_credential: the same upsert, without asking for the provider's status.
BeginSetCredential(r, l, k) ==
  /\ Enter(r, "rotating", [label |-> l, key |-> k], key[l])
  /\ UNCHANGED <<catalogue, versions>>

NewKey(by, k) == [id |-> by, key |-> k, verified |-> FALSE, how |-> "put"]

\* Mutant: a PUT lets the tick stand too.
KeepsTick(r) ==
  IF req[r].seen = None
  THEN NewKey(r, req[r].arg.key)
  ELSE [key[req[r].arg.label] EXCEPT !.key = req[r].arg.key]

\* The row r leaves: a PUT takes the tick away, the command line lets it stand.
Stored(r) ==
  LET old == req[r].seen
      l   == req[r].arg.label
      put == At(r, "storing")
  IN IF old = None
     THEN NewKey(r, req[r].arg.key)
     ELSE [id       |-> old.id,
           key      |-> req[r].arg.key,
           verified |-> IF put THEN Flushed(old.verified, FALSE, key[l].verified) ELSE key[l].verified,
           how      |-> IF put /\ req[r].clean /\ Probing(l) = {} THEN "put" ELSE "raced"]

Store(r) ==
  /\ req[r].at \in {"storing", "rotating"}
  /\ LET l == req[r].arg.label IN
       IF Same(req[r].seen, key[l])
       THEN Commits(r) /\ key' = [key EXCEPT ![l] = Stored(r)]
       ELSE Rolls(r) /\ UNCHANGED key
  /\ UNCHANGED <<provider, entry, accepted, versions>>

\* verify_credential: reads the key, asks the provider, and records the tick afterwards.
BeginProbe(r, l) ==
  /\ key[l] # None
  /\ Enter(r, "probing", [label |-> l], key[l])
  /\ UNCHANGED <<catalogue, versions>>

Probed(r) ==
  /\ At(r, "probing")
  /\ LET l == req[r].arg.label IN
       \/ /\ Same(req[r].seen, key[l])
          /\ key' = [key EXCEPT ![l].verified = TRUE]
          /\ accepted' = accepted \cup {req[r].seen.key}
          /\ Commits(r)
       \/ Rolls(r) /\ UNCHANGED <<key, accepted>>       \* rejected, unreachable, or the row is gone
  /\ UNCHANGED <<provider, entry, versions>>

\* delete_credential.
DeleteKey(r, l) ==
  /\ key[l] # None /\ Handles(r, "dropping")
  /\ key' = [key EXCEPT ![l] = None]
  /\ UNCHANGED <<provider, entry, accepted, versions>>

(* ------------------------------- entries ------------------------------- *)

Present  == {e \in Entries : entry[e] # None}
Defaults == {e \in Present : entry[e].default}
Named    == {versions[n].model : n \in DOMAIN versions} \ {None}

\* The adapters this build ships with, by the slugs of their entries.
Slugs == {Shipped[i] : i \in DOMAIN Shipped}

NewEntry(by, default) == [id |-> by, active |-> TRUE, default |-> default]

\* Mutant: the defaults that were there stay.
KeepsDefaults(cleared) == entry

Cleared(cleared) ==
  [e \in Entries |-> IF e \in cleared /\ entry[e] # None
                     THEN [entry[e] EXCEPT !.default = FALSE] ELSE entry[e]]

\* create_model, create_voice: the new default clears the defaults it can see.
BeginCreate(r, e, default) ==
  /\ entry[e] = None
  /\ Enter(r, "creating", [slug |-> e, default |-> default], [clears |-> IF default THEN Defaults ELSE {}])
  /\ UNCHANGED <<catalogue, versions>>

Create(r) ==
  /\ At(r, "creating")
  /\ LET e == req[r].arg.slug IN
       IF entry[e] # None
       THEN Rolls(r) /\ UNCHANGED entry                  \* uq_models_provider_slug
       ELSE /\ Commits(r)
            /\ entry' = [Cleared(req[r].seen.clears) EXCEPT ![e] = NewEntry(r, req[r].arg.default)]
  /\ UNCHANGED <<provider, key, accepted, versions>>

Changes == {[field |-> f, to |-> b] : f \in {"default", "active"}, b \in BOOLEAN}
MakesDefault(change) == change = [field |-> "default", to |-> TRUE]

\* update_model, update_voice.
BeginUpdate(r, e, change) ==
  /\ entry[e] # None
  /\ Enter(r, "updating", [slug |-> e, change |-> change],
           [row |-> entry[e], clears |-> IF MakesDefault(change) THEN Defaults \ {e} ELSE {}])
  /\ UNCHANGED <<catalogue, versions>>

Update(r) ==
  /\ At(r, "updating")
  /\ LET e == req[r].arg.slug
         c == req[r].arg.change
     IN IF Same(req[r].seen.row, entry[e])
        THEN /\ Commits(r)
             /\ entry' = [Cleared(req[r].seen.clears) EXCEPT
                            ![e][c.field] = Flushed(req[r].seen.row[c.field], c.to, @)]
        ELSE Rolls(r) /\ UNCHANGED entry
  /\ UNCHANGED <<provider, key, accepted, versions>>

\* delete_model: refused while a version names the model, and by the foreign key after that.
BeginDelete(r, e) ==
  /\ entry[e] # None /\ e \notin Named
  /\ Enter(r, "deleting", [slug |-> e], entry[e])
  /\ UNCHANGED <<catalogue, versions>>

\* Mutant: the foreign key empties the column instead of refusing.
AnyEntry(e)  == e \in Entries
Deletable(e) == e \notin Named

Delete(r) ==
  /\ At(r, "deleting")
  /\ LET e == req[r].arg.slug IN
       \/ /\ Same(req[r].seen, entry[e]) /\ Deletable(e)
          /\ Commits(r) /\ entry' = [entry EXCEPT ![e] = None]
       \/ /\ Same(req[r].seen, entry[e]) /\ ~Deletable(e)
          /\ Rolls(r) /\ UNCHANGED entry
       \/ /\ ~Same(req[r].seen, entry[e])                 \* deletes no row
          /\ Commits(r) /\ UNCHANGED entry
  /\ UNCHANGED <<provider, key, accepted, versions>>

\* Mutant: what is shipped replaces what is there.
ReRegistered(r, seen) ==
  [e \in Entries |-> IF e \in Slugs THEN NewEntry(r, e = Shipped[1]) ELSE entry[e]]

\* seed_provider_catalog: adds the shipped entries it did not find.
Missing(seen) == Slugs \ seen
Registered(r, seen) ==
  [e \in Entries |-> IF e \in Missing(seen) THEN NewEntry(r, e = Shipped[1]) ELSE entry[e]]

(* ------------------------------ properties ------------------------------ *)

\* A green tick is earned: the key it stands beside was accepted by the provider, unless
\* that key came from the command line or replaced another one under a running request.
TickIsEarned ==
  \A l \in Held : key[l].verified /\ key[l].how = "put" => key[l].key \in accepted

\* Whatever a platform administrator deletes while a tenant saves, imports or seeds, an
\* agent version never names an entry that no longer exists: it could never run again.
NamedExist == Named \subseteq Present

\* The request ends by committing, and nobody committed while it ran.
Undisturbed(r) == Running(r) /\ req[r].clean /\ req'[r].at = "done"

\* A request that makes an entry the default, and that nobody overtook, leaves it the only
\* default of its provider.
DefaultIsSole ==
  [][\A r \in Requests :
       Undisturbed(r) /\ ( \/ At(r, "creating") /\ req[r].arg.default
                           \/ At(r, "updating") /\ MakesDefault(req[r].arg.change) )
       => Defaults' = {req[r].arg.slug}]_<<req, entry>>
=============================================================================
