---------------------------- MODULE MCTenantBundle ----------------------------
(* A small instance of TenantBundle for TLC. *)
EXTENDS TenantBundle, TLC

CONSTANTS q1, q2, q3, q4

Registry == <<"gpt">>
Drafts   == {Content("gpt", TRUE, FALSE), Content("nova", FALSE, TRUE)}

Seeded == [work |-> {}, keys |-> {}, model |-> Default, kb |-> TRUE, routed |-> FALSE,
           hours |-> FALSE, priority |-> 100, saved |-> FALSE]

\* Keys and probes; entries and who names them; the knowledge base; the bundle.
Situations ==
  LET keying   == {"disabling", "enabling", "storing", "rotating", "probing", "dropping", "crashing"}
      entries  == {"creating", "updating", "deleting", "saving", "pointing", "seeding"}
      indexing == {"founding", "retuning", "closing", "uploading", "adding", "reindexing",
                   "erasing", "saving", "storing", "crashing"}
      bundling == {"exporting", "importing", "dismissing", "tooling", "retooling", "untooling",
                   "routing", "saving", "publishing", "closing", "deleting", "seeding"}
  IN {[Seeded EXCEPT !.work = keying, !.keys = k] : k \in {{}, {"primary"}}}
     \cup {[Seeded EXCEPT !.work = entries]}
     \cup {[Seeded EXCEPT !.work = indexing, !.keys = {"primary"}, !.model = m, !.kb = FALSE] :
             m \in {None, Default}}
     \cup {[Seeded EXCEPT !.work = bundling, !.hours = h, !.priority = IF h THEN 0 ELSE 100,
                          !.saved = h, !.routed = ~h] : h \in BOOLEAN}

Interchangeable == Permutations({q1, q2, q3, q4})
=============================================================================
