-------------------------------- MODULE Catalog --------------------------------
(***************************************************************************)
(* The shipped catalog in the mirror.  Every open seeds its tables again,  *)
(* with upserts; a refresh stamps environments as looked at.               *)
(***************************************************************************)
EXTENDS Naturals, SequencesExt

CONSTANT Environment  \* the environments of the catalog

\* In the order in which they are seeded, each in a transaction.
CatalogTables ==
  <<"agents", "models", "environments", "capabilities", "env_capabilities", "offerings">>

CatalogKey ==
  [agents           |-> {"name"},
   models           |-> {"id"},
   environments     |-> {"slug"},
   capabilities     |-> {"capability"},
   env_capabilities |-> {"slug", "detail", "capability"},
   offerings        |-> {"env_slug", "agent_name", "model_id"}]

\* The columns a seed gives a value: `detail` too, though there is nothing to say.
\* It gives no stamp, and so takes none away.
SeedColumns ==
  [agents           |-> {"name"},
   models           |-> {"id"},
   environments     |-> {"slug", "kind", "display_name", "endpoint"},
   capabilities     |-> {"capability"},
   env_capabilities |-> {"slug", "detail", "capability"},
   offerings        |-> {"env_slug", "agent_name", "model_id", "is_default"}]

\* How often each row of a table is there: a seed replaces it, unless a column of
\* its key is NULL, which conflicts with nothing.
Reseeded(copies, table) ==
  IF CatalogKey[table] \subseteq SeedColumns[table] THEN 1 ELSE copies + 1

\* What seed_tx leaves when its first n tables were stored.
Seed(catalog, n) ==
  [table \in ToSet(CatalogTables) |->
     IF \E i \in 1 .. n : CatalogTables[i] = table THEN Reseeded(catalog[table], table)
     ELSE catalog[table]]

Unseeded == [table \in ToSet(CatalogTables) |-> 0]
SeededOnce == [table \in ToSet(CatalogTables) |-> 1]

NeverProbed == [e \in Environment |-> 0]

\* What a refresh names: one environment, or all.
Refreshable == {{e} : e \in Environment} \cup {Environment}

Stamp(probed, E, at) == [e \in Environment |-> IF e \in E THEN at ELSE probed[e]]
=============================================================================
