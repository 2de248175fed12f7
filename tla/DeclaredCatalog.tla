--------------------------- MODULE DeclaredCatalog ---------------------------
(***************************************************************************)
(* DeclaredCatalogSource::from_declarations: a host hands over lists of    *)
(* databases, schemas and tables, and gets a catalog source whose OIDs     *)
(* come from the registry.  Several builders share one registry, and the   *)
(* process restarts; after a restart a file-backed registry (durable) has  *)
(* kept its contents and an InMemoryCatalogOidRegistry starts over.        *)
(*                                                                         *)
(* A registry call is one step here: OidRegistry shows that the calls of   *)
(* the redb registry are atomic (it implements OidAllocation), and those   *)
(* of the in-memory one run under one mutex.  Between two calls of one     *)
(* builder the others run.                                                 *)
(***************************************************************************)
EXTENDS OidAllocator, Sequences, FiniteSets

CONSTANTS
  Builders,         \* concurrent callers of from_declarations
  Declarations,     \* the argument lists they may be called with
  PublicSchema,     \* the name "public"
  PublicSchemaOid,  \* PUBLIC_SCHEMA_OID, a built-in number
  MaxRuns,          \* bound: process runs
  MaxSources        \* bound: no builder starts once so many sources are there

ASSUME DeclaredConstants ==
  /\ PublicSchema \in Schemas
  /\ PublicSchemaOid \in 1 .. FirstUserOid - 1
  /\ MaxRuns \in Nat
  /\ MaxSources \in Nat

Declaration ==
  [databases : Seq(Databases),
   schemas   : Seq(Databases \X Schemas),
   tables    : Seq(Databases \X Schemas \X Relations)]

ASSUME DeclarationsType == Declarations \subseteq Declaration

VARIABLES
  durable,    \* is the registry the host chose file-backed?
  registry,   \* the contents of the registry
  run,        \* the process run, counted from 1
  phase,      \* the loop of from_declarations each builder is in
  todo,       \* the declarations it has not processed yet
  given,      \* its arguments
  source,     \* the rows it has pushed so far
  published   \* history: the sources returned, with their arguments and run

vars == <<durable, registry, run, phase, todo, given, source, published>>

NoDeclarations == [databases |-> <<>>, schemas |-> <<>>, tables |-> <<>>]

\* Rows are <<key, oid>>: a key says which table and under which names.
NoRows == [databases |-> {}, schemas |-> {}, relations |-> {}]

Init ==
  /\ durable \in BOOLEAN
  /\ registry = EmptyRegistry
  /\ run = 1
  /\ phase = [b \in Builders |-> "idle"]
  /\ todo = [b \in Builders |-> NoDeclarations]
  /\ given = [b \in Builders |-> NoDeclarations]
  /\ source = [b \in Builders |-> NoRows]
  /\ published = {}

-----------------------------------------------------------------------------
(* The registry call, get-or-allocate, and its answer. *)

CanResolve(k) == registry.recorded[k] # NoOid \/ Fits(NextOid(registry), Span(k))

ResolvedOid(k) ==
  IF registry.recorded[k] # NoOid THEN registry.recorded[k] ELSE NextOid(registry)

Resolved(k) ==
  IF registry.recorded[k] # NoOid
  THEN registry
  ELSE Recorded(Advanced(registry, Span(k)), k, NextOid(registry))

\* registry.resolve_*(k)? succeeding, and the row it makes joining the source.
ResolveInto(b, table, k) ==
  /\ CanResolve(k)
  /\ registry' = Resolved(k)
  /\ source' = [source EXCEPT ![b][table] = @ \cup {<<k, ResolvedOid(k)>>}]

\* A builder that returns, with a source or with an error.
Finish(b) ==
  /\ phase' = [phase EXCEPT ![b] = "idle"]
  /\ todo' = [todo EXCEPT ![b] = NoDeclarations]
  /\ given' = [given EXCEPT ![b] = NoDeclarations]
  /\ source' = [source EXCEPT ![b] = NoRows]

\* Err(...): what the registry recorded for earlier declarations stays there.
Refuse(b) ==
  /\ Finish(b)
  /\ UNCHANGED <<durable, registry, run, published>>

HasRow(b, table, k) == \E row \in source[b][table] : row[1] = k

-----------------------------------------------------------------------------
Start(b, d) ==
  /\ phase[b] = "idle"
  /\ Cardinality(published) < MaxSources
  /\ phase' = [phase EXCEPT ![b] = "databases"]
  /\ todo' = [todo EXCEPT ![b] = d]
  /\ given' = [given EXCEPT ![b] = d]
  /\ UNCHANGED <<durable, registry, run, source, published>>

\* The checks of the three loops, made before the registry is asked.
DatabaseAccepted(b) ==
  /\ phase[b] = "databases" /\ todo[b].databases # <<>>
  /\ ~HasRow(b, "databases", <<Head(todo[b].databases)>>)

SchemaAccepted(b) ==
  LET k == Head(todo[b].schemas)
  IN  /\ phase[b] = "schemas" /\ todo[b].schemas # <<>>
      /\ HasRow(b, "databases", <<k[1]>>)
      /\ ~HasRow(b, "schemas", k)

\* Mutant: a relation may be declared twice.
TableAcceptedAgain(b) ==
  LET k == Head(todo[b].tables)
  IN  /\ phase[b] = "tables" /\ todo[b].tables # <<>>
      /\ HasRow(b, "databases", <<k[1]>>)

TableAccepted(b) ==
  LET k == Head(todo[b].tables)
  IN  /\ phase[b] = "tables" /\ todo[b].tables # <<>>
      /\ HasRow(b, "databases", <<k[1]>>)
      /\ ~HasRow(b, "relations", k)

DeclareDatabase(b) ==
  /\ DatabaseAccepted(b)
  /\ ResolveInto(b, "databases", <<Head(todo[b].databases)>>)
  /\ todo' = [todo EXCEPT ![b].databases = Tail(@)]
  /\ UNCHANGED <<durable, run, phase, given, published>>

\* `database "..." already exists`
DuplicateDatabase(b) ==
  /\ phase[b] = "databases" /\ todo[b].databases # <<>>
  /\ ~DatabaseAccepted(b)
  /\ Refuse(b)

DatabasesDone(b) ==
  /\ phase[b] = "databases" /\ todo[b].databases = <<>>
  /\ phase' = [phase EXCEPT ![b] = "schemas"]
  /\ UNCHANGED <<durable, registry, run, todo, given, source, published>>

\* declared_schema_row: `public` is the built-in schema in every database and
\* never reaches the registry.
DeclaredSchemaRow(b, k) ==
  \/ /\ k[2] = PublicSchema
     /\ source' = [source EXCEPT ![b].schemas = @ \cup {<<k, PublicSchemaOid>>}]
     /\ UNCHANGED registry
  \/ /\ k[2] # PublicSchema
     /\ ResolveInto(b, "schemas", k)

DeclareSchema(b) ==
  /\ SchemaAccepted(b)
  /\ DeclaredSchemaRow(b, Head(todo[b].schemas))
  /\ todo' = [todo EXCEPT ![b].schemas = Tail(@)]
  /\ UNCHANGED <<durable, run, phase, given, published>>

\* `database "..." does not exist` or `schema "..." already exists`
RefusedSchema(b) ==
  /\ phase[b] = "schemas" /\ todo[b].schemas # <<>>
  /\ ~SchemaAccepted(b)
  /\ Refuse(b)

SchemasDone(b) ==
  /\ phase[b] = "schemas" /\ todo[b].schemas = <<>>
  /\ phase' = [phase EXCEPT ![b] = "tables"]
  /\ UNCHANGED <<durable, registry, run, todo, given, source, published>>

\* A table may name a schema nothing declared: the reference declares it.
TableSchema(b) == LET k == Head(todo[b].tables) IN <<k[1], k[2]>>

ImplySchema(b) ==
  /\ TableAccepted(b)
  /\ \/ HasRow(b, "schemas", TableSchema(b)) /\ UNCHANGED <<registry, source>>
     \/ ~HasRow(b, "schemas", TableSchema(b)) /\ DeclaredSchemaRow(b, TableSchema(b))
  /\ phase' = [phase EXCEPT ![b] = "relation"]
  /\ UNCHANGED <<durable, run, todo, given, published>>

\* The second registry call of the same iteration.
DeclareTable(b) ==
  /\ phase[b] = "relation"
  /\ ResolveInto(b, "relations", Head(todo[b].tables))
  /\ todo' = [todo EXCEPT ![b].tables = Tail(@)]
  /\ phase' = [phase EXCEPT ![b] = "tables"]
  /\ UNCHANGED <<durable, run, given, published>>

\* `database "..." does not exist` or `relation "..." already exists`
RefusedTable(b) ==
  /\ phase[b] = "tables" /\ todo[b].tables # <<>>
  /\ ~TableAccepted(b)
  /\ Refuse(b)

\* resolve_* returns an error: the registry is exhausted or, when it is a
\* file, its storage fails.
CallFails(k) == durable \/ ~CanResolve(k)

SchemaCallFails(k) == k[2] # PublicSchema /\ CallFails(k)

RegistryError(b) ==
  /\ \/ DatabaseAccepted(b) /\ CallFails(<<Head(todo[b].databases)>>)
     \/ SchemaAccepted(b) /\ SchemaCallFails(Head(todo[b].schemas))
     \/ /\ TableAccepted(b) /\ ~HasRow(b, "schemas", TableSchema(b))
        /\ SchemaCallFails(TableSchema(b))
     \/ phase[b] = "relation" /\ CallFails(Head(todo[b].tables))
  /\ Refuse(b)

\* Ok(Self { databases, schemas, relations })
Publish(b) ==
  /\ phase[b] = "tables" /\ todo[b].tables = <<>>
  /\ published' = published \cup {[run |-> run, given |-> given[b], rows |-> source[b]]}
  /\ Finish(b)
  /\ UNCHANGED <<durable, registry, run>>

\* Mutant: every run starts with an empty registry, and one that is a file is
\* created anew.
RestartAnew ==
  /\ run < MaxRuns
  /\ run' = run + 1
  /\ registry' = EmptyRegistry
  /\ phase' = [b \in Builders |-> "idle"]
  /\ todo' = [b \in Builders |-> NoDeclarations]
  /\ given' = [b \in Builders |-> NoDeclarations]
  /\ source' = [b \in Builders |-> NoRows]
  /\ UNCHANGED <<durable, published>>

\* The process ends, builders and all, and starts again.
Restart ==
  /\ run < MaxRuns
  /\ run' = run + 1
  /\ registry' = IF durable THEN registry ELSE EmptyRegistry
  /\ phase' = [b \in Builders |-> "idle"]
  /\ todo' = [b \in Builders |-> NoDeclarations]
  /\ given' = [b \in Builders |-> NoDeclarations]
  /\ source' = [b \in Builders |-> NoRows]
  /\ UNCHANGED <<durable, published>>

Build(b) ==
  \/ DeclareDatabase(b) \/ DuplicateDatabase(b) \/ DatabasesDone(b)
  \/ DeclareSchema(b) \/ RefusedSchema(b) \/ SchemasDone(b)
  \/ ImplySchema(b) \/ DeclareTable(b) \/ RefusedTable(b)
  \/ RegistryError(b) \/ Publish(b)

Next ==
  \/ \E b \in Builders : Build(b) \/ \E d \in Declarations : Start(b, d)
  \/ Restart

Spec == Init /\ [][Next]_vars

-----------------------------------------------------------------------------
Rows == [databases : SUBSET (DatabaseKeys \X Oid32),
         schemas   : SUBSET (SchemaKeys \X Oid32),
         relations : SUBSET (RelationKeys \X Oid32)]

\* from_declarations' locals and results have their types, and every number
\* fits an i32.
TypeOK ==
  /\ durable \in BOOLEAN
  /\ registry \in Registry
  /\ run \in Nat
  /\ phase \in [Builders -> {"idle", "databases", "schemas", "tables", "relation"}]
  /\ todo \in [Builders -> Declaration]
  /\ given \in [Builders -> Declaration]
  /\ source \in [Builders -> Rows]
  /\ published \in SUBSET [run : Nat, given : Declaration, rows : Rows]

AllRows(src) == src.rows.databases \cup src.rows.schemas \cup src.rows.relations

\* Rows whose numbers a client may compare: of one run, or of any run when
\* the registry is kept in a file.
Comparable(s, t) == durable \/ s.run = t.run

NumbersOf(row) == row[2] .. row[2] + Span(row[1]) - 1

IsPublic(k) == Len(k) = 2 /\ k[2] = PublicSchema

(***************************************************************************)
(* An OID a client cached keeps its meaning: two sources built by any      *)
(* builders in any order, before or after a failed build or a restart,     *)
(* give one name one number.                                               *)
(***************************************************************************)
NamesKeepTheirOids ==
  \A s, t \in published : Comparable(s, t) =>
    \A x \in AllRows(s), y \in AllRows(t) : x[1] = y[1] => x[2] = y[2]

(***************************************************************************)
(* A number identifies one object across all sources: databases, schemas,  *)
(* relations and rowtypes never collide, with each other or with the       *)
(* built-in number of `public`, which only the schemas `public` carry.     *)
(***************************************************************************)
OidsIdentifyObjects ==
  \A s, t \in published : Comparable(s, t) =>
    \A x \in AllRows(s), y \in AllRows(t) :
      NumbersOf(x) \cap NumbersOf(y) # {} =>
        x[1] = y[1] \/ (IsPublic(x[1]) /\ IsPublic(y[1]))

(***************************************************************************)
(* A source lists the declared relations, no more and no fewer, and is     *)
(* only built from lists without duplicates: a build that met one never    *)
(* returns a source, however far it got and whatever it had recorded.  It  *)
(* is closed: every relation stands in a schema the source lists once, and *)
(* every schema in a listed database, schemas that only a table's          *)
(* declaration implies included.                                           *)
(***************************************************************************)
RangeOf(seq) == {seq[i] : i \in DOMAIN seq}

SourcesMatchDeclarations ==
  \A s \in published :
    /\ {r[1] : r \in s.rows.relations} = RangeOf(s.given.tables)
    /\ Cardinality(s.rows.relations) = Len(s.given.tables)
    /\ Cardinality(s.rows.databases) = Len(s.given.databases)
    /\ {x[1] : x \in s.rows.schemas} =
         RangeOf(s.given.schemas) \cup {<<t[1], t[2]>> : t \in RangeOf(s.given.tables)}
    /\ Cardinality(s.rows.schemas) = Cardinality({x[1] : x \in s.rows.schemas})
    /\ \A x \in s.rows.schemas : \E d \in s.rows.databases : d[1] = <<x[1][1]>>
=============================================================================
