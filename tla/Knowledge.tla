------------------------------ MODULE Knowledge ------------------------------
(***************************************************************************)
(* One knowledge base of the tenant: its documents, the passages indexed   *)
(* from them, and the uploaded files in the object store                   *)
(* (api/v1/tools.py, services/knowledge_ingest.py, object_store.py).       *)
(* Indexing runs inside the request's transaction and holds the document's *)
(* row; the object store is outside every transaction.                     *)
(***************************************************************************)
EXTENDS Catalogue

CONSTANTS
  Documents,   \* documents that may be uploaded or added from the web
  House,       \* the document seed-dev-tenant writes, without a file
  Spaces,      \* embedding models a base may be set to
  Gone         \* a deleted row; its id never comes back

Default == "text-embedding-3-small"

\* Rows; a document says who indexed its passages and into which vectors.
BaseRow     == [id : Ids, model : Spaces \cup {None}]
DocumentRow == [status : {"INDEXED", "FAILED"}, file : BOOLEAN, by : Ids \cup {None},
                space : Spaces \cup {None}]

ASSUME KnowledgeAssumption ==
  /\ House \notin Documents /\ Default \in Spaces
  /\ None \notin BaseRow \cup DocumentRow /\ Gone \notin DocumentRow \cup {None}

VARIABLES
  base,    \* the KnowledgeBase row
  docs,    \* KnowledgeDocument rows with their chunks; Gone once deleted
  store    \* documents whose file is in the object store

knowledge == <<base, docs, store>>

Rows == {d \in Documents \cup {House} : docs[d] \notin {None, Gone}}

\* Chunks by: the request that indexed them; space: None when there are no vectors.
Document(status, file, by, space) == [status |-> status, file |-> file, by |-> by, space |-> space]
SeededDocument == Document("INDEXED", FALSE, "seed", None)
NewBase(by, model) == [id |-> by, model |-> model]

Ingesting == {r \in Requests : req[r].at \in {"uploading", "adding", "reindexing", "indexing"}}
Holds(d)  == {r \in Ingesting : req[r].arg.doc = d}

(* -------------------------------- bases -------------------------------- *)

\* create_knowledge_base.
CreateBase(r, model) ==
  /\ base = None /\ Handles(r, "founding")
  /\ base' = NewBase(r, model)
  /\ UNCHANGED <<catalogue, versions, docs, store>>

\* update_knowledge_base: the model of a base may be changed under its documents.
UpdateBase(r, model) ==
  /\ base # None /\ Handles(r, "retuning")
  /\ base' = [base EXCEPT !.model = model]
  /\ UNCHANGED <<catalogue, versions, docs, store>>

\* delete_knowledge_base: refused while a version uses it; waits for whoever is indexing
\* into it; versions that took it meanwhile lose it, and the files stay.
BeginDeleteBase(r) ==
  /\ base # None /\ \A n \in DOMAIN versions : ~versions[n].kb
  /\ Enter(r, "closing", None, base)
  /\ UNCHANGED <<catalogue, versions, knowledge>>

DeleteBase(r) ==
  /\ At(r, "closing") /\ Ingesting = {}
  /\ IF Same(req[r].seen, base)
     THEN /\ base' = None
          /\ docs' = [d \in DOMAIN docs |-> IF d \in Rows THEN Gone ELSE docs[d]]
          /\ versions' = [n \in DOMAIN versions |-> [versions[n] EXCEPT !.kb = FALSE]]
     ELSE UNCHANGED <<base, docs, versions>>
  /\ Commits(r)
  /\ UNCHANGED <<catalogue, store>>

(* ------------------------------ documents ------------------------------ *)

Asks(d, file) == [doc |-> d, file |-> file]

\* upload_document: the row first, then the file under the row's id, then the index.
BeginUpload(r, d) ==
  /\ base # None /\ docs[d] = None /\ Holds(d) = {}
  /\ Enter(r, "uploading", Asks(d, TRUE), None)
  /\ UNCHANGED <<catalogue, versions, knowledge>>

Put(r) ==
  /\ At(r, "uploading")
  /\ \/ Moves(r, "indexing", None) /\ store' = store \cup {req[r].arg.doc}
     \/ Rolls(r) /\ store' \in {store, store \cup {req[r].arg.doc}}    \* refused, or no answer
  /\ UNCHANGED <<catalogue, versions, base, docs>>

\* add_web_document.
AddWeb(r, d) ==
  /\ base # None /\ docs[d] = None /\ Holds(d) = {}
  /\ Enter(r, "adding", Asks(d, FALSE), None)
  /\ UNCHANGED <<catalogue, versions, knowledge>>

\* reindex_document: marking the row PROCESSING waits for whoever else is indexing it.
Reindex(r, d) ==
  /\ d \in Rows /\ Holds(d) = {}
  /\ Enter(r, "reindexing", Asks(d, docs[d].file), docs[d])
  /\ UNCHANGED <<catalogue, versions, knowledge>>

\* _load_bytes: the page may be unreachable; the seeded document has neither file nor page.
Loads(d, file) == IF file THEN d \in store ELSE d # House

\* resolve_embedding_auth, embed_texts: without a key the text alone is indexed; with keys
\* under two labels the one row it asks for is ambiguous.
Embeds == CASE Cardinality(Held) = 0 -> {"text"}
            [] Cardinality(Held) = 1 -> {"vectors", "failed"}
            [] OTHER                 -> {"failed"}

Model == IF base.model = None THEN Default ELSE base.model

\* ingest_document up to the answer of the embedding provider.
Extract(r) ==
  /\ req[r].at \in {"adding", "reindexing"} \/ (At(r, "indexing") /\ req[r].seen = None)
  /\ \E outcome \in {"failed"} \cup (IF Loads(req[r].arg.doc, req[r].arg.file) THEN Embeds ELSE {}) :
       Moves(r, "indexing", [outcome |-> outcome, loaded |-> base.model, model |-> Model])
  /\ UNCHANGED <<catalogue, versions, knowledge>>

\* The row a failed indexing leaves: what was indexed before stays and is still found.
FailedRow(r, d) ==
  IF docs[d] = None THEN Document("FAILED", req[r].arg.file, None, None)
                    ELSE [docs[d] EXCEPT !.status = "FAILED"]

\* Mutant: the model that made the vectors is not written down.
Unrecorded(r) == base

\* A base without a model takes the one that made its first vectors.
Recorded(r) == IF req[r].seen.loaded = None THEN [base EXCEPT !.model = req[r].seen.model] ELSE base

\* The rest of ingest_document, and the commit.
Index(r) ==
  /\ At(r, "indexing") /\ req[r].seen # None
  /\ LET d   == req[r].arg.doc
         out == req[r].seen.outcome
     IN /\ docs' = [docs EXCEPT ![d] =
                      CASE out = "failed"  -> FailedRow(r, d)
                        [] out = "text"    -> Document("INDEXED", req[r].arg.file, r, None)
                        [] out = "vectors" -> Document("INDEXED", req[r].arg.file, r, req[r].seen.model)]
        /\ base' = IF out = "vectors" THEN Recorded(r) ELSE base
  /\ Commits(r)
  /\ UNCHANGED <<catalogue, versions, store>>

\* delete_document: the row goes first, then the file, if the store answers.
BeginRemove(r, d) ==
  /\ d \in Rows /\ Holds(d) = {}
  /\ Enter(r, "erasing", Asks(d, docs[d].file), docs[d])
  /\ UNCHANGED <<catalogue, versions, knowledge>>

\* Mutant: the file goes while the row may still come back.
FileFirst(r) ==
  /\ At(r, "erasing") /\ Holds(req[r].arg.doc) = {}
  /\ LET d == req[r].arg.doc IN
       IF d \in store
       THEN store' = store \ {d} /\ UNCHANGED <<req, docs>>
       ELSE docs' = [docs EXCEPT ![d] = Gone] /\ Commits(r) /\ UNCHANGED store
  /\ UNCHANGED <<catalogue, versions, base>>

Remove(r) ==
  /\ At(r, "erasing") /\ Holds(req[r].arg.doc) = {}
  /\ docs' = [docs EXCEPT ![req[r].arg.doc] = Gone]
  /\ CommitsTo(r, IF req[r].arg.file THEN [State("removing") EXCEPT !.arg = req[r].arg]
                                     ELSE State("done"))
  /\ UNCHANGED <<catalogue, versions, base, store>>

RemoveFile(r) ==
  /\ At(r, "removing")
  /\ store' \in {store \ {req[r].arg.doc}, store}
  /\ req' = [req EXCEPT ![r] = State("done")]
  /\ UNCHANGED <<catalogue, versions, base, docs>>

(* ------------------------------ properties ------------------------------ *)

\* The file of a document a tenant can see is in the object store, whichever request was
\* killed, failed or raced another one: otherwise the document can never be indexed again.
FileExists == \A d \in Rows : docs[d].file => d \in store

\* An indexing nobody overtook leaves the document wholly in one space, the one the base
\* is searched in from now on: vectors of two models do not compare.
IndexedInOneSpace ==
  [][\A r \in Requests :
       Undisturbed(r) /\ At(r, "indexing") /\ req[r].seen.outcome # "failed"
       => LET d == docs'[req[r].arg.doc] IN
            d.by = r /\ (d.space = None \/ d.space = base'.model)]_<<req, docs, base>>
=============================================================================
