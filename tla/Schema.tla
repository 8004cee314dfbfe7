------------------------------- MODULE Schema -------------------------------
(***************************************************************************)
(* The schema registry (src/src/core/schema.cpp) for one document type: its *)
(* current version, the migrations registered from older ones, and what it  *)
(* makes of a document's header. A version is <<major, minor>>.             *)
(***************************************************************************)
EXTENDS Naturals, FiniteSets

CONSTANTS Current,         \* currentVersions_ of the type
          Versions,        \* versions that documents and migrations name
          MaxMigrations    \* bound: migrations a registry holds

ASSUME SchemaAssumption == Current \in Nat \X Nat /\ Versions \subseteq Nat \X Nat

VARIABLE schemas          \* the schema registry of a context

\* A registry: its migrations (a version to the version it leads to), the cap on
\* the steps of a walk, and whether it is frozen.
NewRegistry(first, cap) == [migrations |-> [v \in {first} |-> Current], cap |-> cap, frozen |-> FALSE]

CanLoadDirectly(v) == v[1] = Current[1] /\ v[2] <= Current[2]

\* The walk from v, step by step, until it is at the current version, comes back
\* to a version it has seen, or finds no migration.
WalkStep(r, n, w) ==
    IF w.end # "going" THEN w
    ELSE IF w.at = Current THEN [w EXCEPT !.end = "current"]
    ELSE IF n > r.cap THEN [w EXCEPT !.end = "limit"]
    ELSE IF w.at \in w.seen THEN [w EXCEPT !.end = "cycle"]
    ELSE IF w.at \notin DOMAIN r.migrations THEN [w EXCEPT !.end = "no path"]
    ELSE [w EXCEPT !.at = r.migrations[w.at], !.seen = @ \cup {w.at}]

Walk(r, v) ==
    LET step[n \in 0..(r.cap + 1)] ==
          IF n = 0 THEN [at |-> v, seen |-> {}, end |-> "going"]
          ELSE WalkStep(r, n, step[n - 1])
    IN  step[r.cap + 1]

\* Mutant of CanLoad: migrations are not followed.
CanLoadDirect(r, v) == CanLoadDirectly(v) \/ v \in DOMAIN r.migrations

CanLoad(r, v) == CanLoadDirectly(v) \/ Walk(r, v).end = "current"

\* A document is its header: its type and version, each possibly missing.
\* migrate() returns a document, or throws; it refuses a version of a later
\* major before it looks for a migration.
Throws(why) == [end |-> why, version |-> Current]

Migrate(r, doc) ==
    IF ~doc.schema \/ ~doc.version THEN Throws("no header")
    ELSE IF ~doc.ofType THEN Throws("other type")
    ELSE IF CanLoadDirectly(doc.at) THEN [end |-> "current", version |-> doc.at]
    ELSE IF doc.at[1] > Current[1] THEN Throws("future")
    ELSE [end |-> Walk(r, doc.at).end, version |-> Walk(r, doc.at).at]

\* addHeader() stamps a document without a header; a header that is there
\* already has to be the one asked for.
AddHeader(doc, v) ==
    IF (doc.schema /\ ~doc.ofType) \/ (doc.version /\ doc.at # v)
    THEN [doc |-> doc, ok |-> FALSE]
    ELSE [doc |-> [schema |-> TRUE, version |-> TRUE, ofType |-> TRUE, at |-> v], ok |-> TRUE]

\* testMigration(): a sample stamped as from reaches to.
TestMigration(r, from, to) ==
    LET m == Migrate(r, [schema |-> TRUE, version |-> TRUE, ofType |-> TRUE, at |-> from])
    IN  m.end = "current" /\ m.version = to

\* The mutators throw on a frozen registry, which is left as it was.
WithMigration(r, from, to) ==
    IF r.frozen \/ from \in DOMAIN r.migrations THEN r
    ELSE [r EXCEPT !.migrations = [v \in {from} \cup DOMAIN @ |-> IF v = from THEN to ELSE @[v]]]

WithoutMigration(r, from) ==
    IF r.frozen THEN r
    ELSE [r EXCEPT !.migrations = [v \in DOMAIN @ \ {from} |-> @[v]]]

WithCap(r, cap) == IF r.frozen THEN r ELSE [r EXCEPT !.cap = cap]

Frozen(r) == [r EXCEPT !.frozen = TRUE]

-----------------------------------------------------------------------------
SchemaInit == schemas = NewRegistry(<<1, 0>>, 2)

RegisterMigration ==
    \E from, to \in Versions :
        /\ schemas' = WithMigration(schemas, from, to)
        /\ Cardinality(DOMAIN schemas'.migrations) <= MaxMigrations

UnregisterMigration == \E from \in Versions : schemas' = WithoutMigration(schemas, from)

SetMaxMigrationSteps == \E n \in 0..3 : schemas' = WithCap(schemas, n)

FreezeRegistry == schemas' = Frozen(schemas)

SchemaNext ==
    \/ RegisterMigration
    \/ UnregisterMigration
    \/ SetMaxMigrationSteps
    \/ FreezeRegistry

SchemaSpec == SchemaInit /\ [][SchemaNext]_schemas

-----------------------------------------------------------------------------
(* What the loaders rely on: they ask canLoad() and never call migrate().   *)
Document(v) == AddHeader([schema |-> FALSE, version |-> FALSE, ofType |-> FALSE, at |-> v], v).doc

\* canLoad() says of a version that is not of a later major exactly what
\* migrate() does with a document of that version, whatever migrations lead
\* in circles, nowhere, or farther than the cap allows (schema.cpp:208, 262);
\* and a migration that passed its test is one that canLoad() admits.
LoadableMeansMigratable ==
    \A v \in Versions :
        /\ v[1] <= Current[1] =>
            (CanLoad(schemas, v) <=> Migrate(schemas, Document(v)).end = "current")
        /\ \A to \in Versions : TestMigration(schemas, v, to) => CanLoad(schemas, v)

\* A migrated document is at the current version or at one that it loads as it
\* is, and no walk goes round a circle of migrations until the cap stops it
\* ("with cycle detection", schema.cpp:207).
WalksNeverCircle ==
    \A v \in Versions :
        /\ Migrate(schemas, Document(v)).end = "current" =>
              CanLoadDirectly(Migrate(schemas, Document(v)).version)
        /\ schemas.cap >= Cardinality(DOMAIN schemas.migrations) + 1 =>
              Walk(schemas, v).end # "limit"

\* The two walks over the migrations agree, and both come to an end.
MigrationsAgree == LoadableMeansMigratable /\ WalksNeverCircle

=============================================================================
