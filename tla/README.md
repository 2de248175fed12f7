# A verification project for pg_catalog

`pg_catalog` is a Rust library and server that answers PostgreSQL catalog
queries (`pg_class`, `pg_namespace`, `information_schema.columns`, ...) for hosts
that are not PostgreSQL.  It loads a snapshot of a real catalog into a DataFusion
session, lets a host add its own databases, schemas and tables to it, rewrites the
SQL that clients send until DataFusion can run it, and speaks the PostgreSQL wire
protocol.  This directory holds TLA+ models of the parts that carry its own logic
and state, the TLC runs that check them on small instances, and TLAPS proofs.

All source paths below are relative to `src/` (so `src/lazy_catalog.rs` is
`src/src/lazy_catalog.rs` in PROJECT.json).

## 1. Inventory

| Component | State it keeps | Operations | Modelled in |
|---|---|---|---|
| OID registry, `src/catalog_oid_registry.rs` | a counter and three tables (database, schema, relation name to OID), in a redb file or behind a mutex | `open`, `resolve_database`, `resolve_schema`, `resolve_relation` | `OidAllocator`, `OidAllocation`, `OidRegistry`; proofs in `OidRegistryProofs` |
| Declared catalog source, `src/declared_catalog_source.rs` | the rows of one source, fixed once built | `from_declarations`, then the `LazyCatalogSource` methods | `DeclaredCatalog`; `DeclaredCatalogProofs` |
| Combined catalog source, `src/combined_catalog_source.rs` | an ordered list of sources | the eight `LazyCatalogSource` methods, each a merge | `CatalogSource` |
| Lazy catalog provider, `src/lazy_catalog.rs` | the built-in rows captured at registration, a reference to the source; nothing cached | `scan` of thirteen tables | `LazyCatalog`; `LazyCatalogProofs` |
| Registration and view planning, `src/lazy_catalog.rs`, `src/session.rs` | the providers of a context, its views with their captured plans, the recorded view statements, the default schema | `get_base_session_context`, `..._with_lazy_catalog`, `register_lazy_catalog`, `register_database_independent_lazy_catalog` | `CatalogViews`; `CatalogViewsProofs` |
| In-memory catalog tables, `src/db_table.rs` | one partition of batches behind an async lock | `scan`, `insert_into` | `TableInsert`; `ClientSessionProofs` |
| Client session variables, `src/session.rs`, `src/router.rs` | per-connection settings, the session user | `SET`, `SET LOCAL`, `SHOW`, `DEFAULT` | `ClientSession`; `ClientSessionProofs` |
| Wire protocol server, `src/server.rs` | per-connection context cloned from a base, prepared statements, the capture file | simple and extended query handlers, Describe | `ClientSession`; `ClientSessionProofs` |
| Query router, `src/router.rs` | none | search-path resolution, catalog or host decision, qualification of catalog names | `StatementRouting`, `QueryRewrites`; `QueryRewritesProofs` |
| SQL rewrite passes, `src/replace.rs`, `src/scalar_to_cte.rs`, `src/replace_any_group_by.rs`, `src/session_identity_spellings.rs` | none; the statement passes from one to the next | 49 passes in a fixed order, parameter binding | `CastRewrites`, `SubqueryRewrites`, `SelectRewrites`, `ArrayRewrites`, `StatementRouting`, composed in `QueryRewrites`; `QueryRewritesProofs`, `CastRewritesProofs` |
| Duplicate column cleaning, `src/clean_duplicate_columns.rs` | the alias map of one statement | alias generation, renaming of the result | `SelectRewrites`; `QueryRewritesProofs` |
| Catalog functions that read the live catalog, `src/user_functions.rs` | none of their own; they block on catalog queries | `pg_get_viewdef`, `pg_get_constraintdef`, `pg_get_indexdef`, `pg_get_userbyid`, `oid` and its kin | `CatalogFunctions`; `CatalogFunctionsProofs` |
| Runtime resolvers, `src/user_functions.rs`, `src/runtime_function_resolvers.rs` | process-wide callback slots | set, clear, read at call time | `CatalogFunctions`; `CatalogFunctionsProofs` |
| Snapshot-backed functions, `src/session.rs`, `src/user_functions.rs` | rows captured at registration | `format_type`; others only format | `CatalogFunctions`, partly |
| Other catalog functions, `src/user_functions.rs`, `src/describe_object.rs`, `src/function_definitions.rs` | none | stubs and formatters | not modelled |
| Static registration helpers, logical plan rules, command line | none of their own | thin wrappers, one optimizer rule, argument parsing | not modelled |

How they interact.  A host builds a `DeclaredCatalogSource` from lists of
declarations; every name in them becomes an OID through the registry, which other
builders and, across restarts, other runs of the process use too.  The host may put
a `CombinedCatalogSource` over several sources.  It hands the source to
`register_lazy_catalog`, which swaps the providers of the catalog tables for lazy
ones and re-plans the views of the context, because a DataFusion view keeps the
providers it was planned with.  From then on each scan of a catalog table asks the
source again and merges its rows into the built-in ones.  Connections share the
catalog and so the in-memory tables; clients that `INSERT` write to them
concurrently.

A client's query is routed by the names in it, to the host or to the catalog; there
its parameters are bound, its text goes through the rewrite passes, and DataFusion
plans and runs it.  While it runs it calls catalog functions, which are synchronous:
those that need catalog rows spawn a query of their own and block their thread on it,
and those that need the host's knowledge ask a callback, which may query the catalog
again.

What is hard, and where it is covered (PROJECT.json lists every hazard at its line):

- *OID registry*: threads of one process serialised by redb's writer, two processes
  and one file, storage errors and kills between any two steps, the end of the i32
  range where a relation needs two numbers.  Correct means: a number is never given
  to two objects, an answer survives everything, nothing leaks, every transaction
  ends.
- *Declared catalog*: builders interleaving their registry calls, a build refused
  half way after it recorded names, restarts.  Correct means: one name one number
  and one number one object over all sources ever returned, and only complete
  sources are returned.
- *Lazy catalog*: several independent scans make up one query, each over the source
  as it is then; two merges (of sources, and of user rows with built-in rows) with
  different keys.  Correct means: references resolve, collisions are errors.
- *Views*: stacked views, a creation order that may be stale, failures in the middle
  of a swap.  Correct means: Ok implies that no view reads a replaced provider.
- *Catalog tables*: a read-modify-write split over two lock acquisitions.
- *Connections*: contexts cloned from one base, statements that Describe executes,
  errors that make the extended protocol skip messages, one capture file for all.
  Correct means: a client reads back its own settings and role and nobody else's, and
  what it was answered is in the capture file.
- *Rewriting*: each pass matches a shape that the earlier ones have changed; NULLs,
  empty sub-queries, outer rows without a match, repeated names.  Correct means: what
  is planned has the meaning PostgreSQL gives what was sent.
- *Catalog functions*: threads that block on work for the same pool of threads;
  resolvers replaced, tables swapped and the source changed or failing between the steps
  of one call, down to the scans of one join.  Correct means: every call returns; its rows come from one
  resolver, and are what PostgreSQL answers over the catalog rows the call read; and it
  fails only for what the host did.

## 2. Modules

`OidAllocator` has the names, the contents of a registry and the pure operators
both registries are built from: `NextOid`, `Fits` (the `checked_add`), `Advanced`
(`allocate_from_counter`), `Recorded`.  `MaxOid` stands for `i32::MAX`.

`OidAllocation` is the abstract promise: a function from names to numbers, to which
one step adds one new name with numbers that no other name has.

`OidRegistry` is the redb-backed registry.  `disk` is the committed file, `txn[p]`
what the write transaction of process `p` sees, `writer[p]` the thread inside it,
`pc`, `key`, `oid` the progress and locals of each thread's `resolve_*` call, and
`answered` a history of what callers were told.  The actions are the points between
which another thread, an error or a kill can come: `Open`, `Call`, `BeginWrite`,
`Lookup`, `Allocate`, `Exhausted`, `Insert`, `Commit`, `Return`, an error of
the storage at each of these calls (including a commit that fails after it reached
the disk), and `Stop`, the end of a process at any point.  redb itself is external:
its exclusive file lock, its single writer per file, and its atomic durable commit
are modelled from how the registry relies on them.

`DeclaredCatalog` is `from_declarations`, one action per registry call or check, by
several builders over one registry.  A registry call is one step: for the file
that is what `OidRegistry` shows (it implements `OidAllocation`), and the in-memory
registry holds one mutex for the whole call.  Which of the two the host chose is
the variable `durable`, fixed at the start; on a restart only the file keeps its
contents.

`CatalogSource` defines the eight methods of `CombinedCatalogSource`, and what a
source asked directly answers, as operators over the contents of the sources.
`LazyCatalog` extends it: `live` is what each source has now, and changes at any
step (`Change`); a query scans the tables of its plan one after another, and a scan
visits the schemas that `fetch_schemas` gave it.  Rows are kept to the columns that
are keys or references.  One schema's visit is one step; the source may change
between two schemas and between two scans, and the properties speak of queries
during which it did not.  `HostContract` is what the docs of `CombinedCatalogSource` and of the
`LazyCatalogSource` trait ask of a host's sources.

`CatalogViews` has the providers with a generation number each, the views with the
set of (table, generation) pairs their plan reads, the creation loop with its
retries, and the replay after a swap.  `order` ranges over every order of creation,
`broken` is the set of bodies that do not plan, which the host can change while the
context is up.

`TableInsert` is `insert_into` in its two locked sections, with a history of
what the finished inserts leave when run one after another.  `Operations` are the
`InsertOp`s that clients' statements have, appends or overwrites.  Its clients are the
connections of `ClientSession`; it shares no name with that module, so that
`ClientSessionProofs` can extend both.

`ClientSession` is the server: `context[c]` is the session context of a connection
and `opts` the `ClientOpts` of each context, `pc` whether the connection is idle, skips
messages after an error, waits for the capture store or is writing the file.
`SimpleQuery`, `DescribeStatement`, `DescribePortal` and `Execute` are the handlers,
each one step, since only the connection's own task touches its context; `BeginSave`,
`SaveFails` and `EndSave` are the points of `CaptureStore::append`.  Parse and Bind have
no code in `src/`: they store text in pgwire, and a client can have any statement
prepared, so they are not steps.  `register_current_database` finds the function that
the base context registered and does nothing.  `expected` and `replied` are histories of
what each client has been told; a setting that was only described may have the old or
the new value.  `file` is what the current run has written: the first write of a run
replaces what an earlier run left.  Skipping up to Sync, and a BEGIN that fails when the
extended protocol plans it, are external (pgwire, DataFusion).

`QueryRewrites` takes one client statement from the router to the planner.  A statement
has five parts, which different passes look at, and each part has a module with its
syntax, the passes over it as operators, what DataFusion makes of the result, and what
PostgreSQL makes of the original (the reference the properties compare with):

- `CastRewrites`: a comparison of two operands, each a literal or column under a stack
  of casts, calls, parentheses and COLLATE of any height; the meaning is an OID, a text or a boolean,
  with name lookups in `pg_class`, `pg_type` and `pg_proc`;
- `SubqueryRewrites`: a scalar, EXISTS, tuple IN or LATERAL sub-query with its
  correlations, filters and LIMIT; the meaning is the rows it yields for each outer
  row, compared over every small relation, NULLs and empty ones included;
- `SelectRewrites`: a SELECT list of any length (one or two items in the run) with ORDER BY and GROUP BY; the
  meaning is the client's column names, the sort keys and the number of rows;
- `ArrayRewrites`: ARRAY over unnest or a table, index walks, brace literals, tuples;
  the meaning is the array for each array of the outer row;
- `StatementRouting`: the FROM item with its qualifier and its place in the statement,
  a function call, a cast and a session identity; the meaning is the object found by
  PostgreSQL's search path, and which of host and catalog owns the statement.

`StatementRouting`, `SubqueryRewrites` and `SelectRewrites` are extended, `CastRewrites` and
`ArrayRewrites`, whose passes have names of their own but stages of the same name, are
instanced as `Casts` and `Arrays`.  `before_filters`, `rewrite_filters` and `after_filters`
are the passes in the order of `rewrite_and_execute_sql`, given part by part; a statement
differs from the default one in one part at a time, since no pass reads two of them.
`IsStatement` says what a client may write in each part, `RowArrays` which arrays the outer
row may hold.  The walk over the syntax tree is abstracted to
the places that make a difference (top level, join, derived table, sub-query, CTE).
`bind_parameter_as_scalar` works on the declared type, the number of bytes, their
format and whether they are UTF-8.  A property speaks of the shapes its pass documents
(the `Claimed...` operators); what they leave out is listed in section 6.

`CatalogFunctions` has the calls as stacks of tasks: `stack[c]` is the client's query
and the catalog queries it is blocked on, each with its runtime, whether a worker has
taken it up and whether it holds one.  `run_catalog_query` pushes a task, on the
caller's runtime or on the fallback one; `Poll` needs a free worker.  `call[c]` are the
locals of the function: the resolver cloned out of the slot, what the query has read,
the identities found, the texts.

A catalog query goes the way DataFusion and `src/lazy_catalog.rs` take it.  `Plan` looks
up one of its tables per step (`bound`), and fails if that table is unregistered at that moment.
`AskSource` is one call of the host's source by the scan of one joined table: `reads[a]`
lists the states of the source that answered the calls made so far for alias `a`, so the
rows of a join, and those of one table, may come from different moments.  A source that
answers with an error ends the query, and so does a table whose rows, once complete,
repeat a key.  `Join`, `JoinIndexParts` and `JoinAttributes` then compute the result
from the rows served (`Served`: the source's rows and the built-in rows they do not
shadow).  `pg_get_indexdef` goes through this twice.

The host's steps are `SetResolver`, `ClearResolver`, `ChangeCatalog` (the source moves
to its next state), and `DeregisterTable` followed by `RegisterTable`, table by table in
the order of registration.  `seen[c]` is a history of the resolvers and table states in
place while the call ran, and whether one of its tables was missing.  Nothing stands still
by assumption, and a mixture is possible: `AnswersAreExplained` does not deny it but says what
holds all the same.  Each part that was read is of a moment during the call, no table is
half read, and the rows are PostgreSQL's answer over exactly what was read, all from one
resolver.  If source and tables did stand still, that is one state of the catalog.

What is abstracted: the tables of a query are looked up, and scanned, in any order, and one
scan is under way at a time; the call by which a scan lists the schemas is part of its
first call; the calls of a scan are as many in every state of the source; `pg_am` and `pg_authid`,
which are never lazy, are constant; a name stands for an object's whole identity; a resolver is a pure
function that may query the catalog, and is asked for its objects in any order (those of
`pg_get_indexdef` come out of a hash map); a thread without a runtime takes the path of
a single-threaded one; and `block_in_place` always finds a replacement thread.

The MC modules give the constants that a cfg cannot write.  `OidRegistry` needs
none and is run as it is.  Operators whose comment starts with "Mutant" are
plausible wrong versions of the definition after them; no specification uses them.
PROJECT.json pairs each with the property that rules it out.  `OidRegistry`
and `DeclaredCatalog`, whose counters the width of an `i32` bounds, have a type
invariant of their own; the types of the other modules are part of the inductive invariants.

## 3. Runs

| Run | What it shows | Instance |
|---|---|---|
| `oid_registry` | `TypeOK`, `UniqueOids`, `AnswersAreDurable`, `NoLeakedOids`, `OidsInRange`, the inductive invariant `IInv`, the refinement `ImplementsAllocation`, and `TransactionsEnd` under fairness | 2 processes with 2 threads each; 5 objects that need 7 numbers, room for 3; 65k states |
| `declared_catalog` | `TypeOK`, `NamesKeepTheirOids`, `OidsIdentifyObjects`, `SourcesMatchDeclarations` | 2 interchangeable builders, 2 process runs, both registries, 9 argument lists, 2 sources before hosts stop building, room for 7 of 8 numbers; 1.2M states |
| `lazy_catalog` | `ReferencesResolve`, `CollisionsAreRefused`, `ColumnsFollowTheirRelation` | a declared and a live source combined, and one source alone; 7 and 5 contents; 6 query plans that cover the 13 tables; 86k states |
| `catalog_views` | `OkMeansFresh`, `ReadyMeansComplete`, `FailureIsNotTheOrder`, `SchemaIsRestored`, and `CreationEnds` under fairness | 3 stacked views in all 6 orders, 2 tables, 2 registrations; 18k states |
| `table_insert` | `UnracedInsertsAreSerial` | 3 clients, 4 inserts; 1.7k states |
| `client_session` | `ShowTellsOwnSettings`, `CaptureHoldsAnswers` | 2 connections, 2 roles, 7 statements through both protocols, 2 captured queries in each run of the server; 261k states |
| `query_rewrites` | routing: `RoutingFollowsTheNames`, `FromItemsKeepTheirMeaning`, `IdentitySpellingsResolve`; binding: `ParametersKeepTheirValues`; casts: `CastsArePlannable`, `ComparisonsKeepTheirMeaning`; sub-queries: `LiftedScalarsKeepRows`, `PredicatesKeepTheirRows`, `LateralJoinsKeepRows`; lists: `ClientColumnsKeepTheirNames`, `SortKeysAreOutputColumns`, `GroupingKeepsRows`; arrays: `ArraysKeepTheirElements` | statements with one part that varies, out of some tens of thousands; 248k states |
| `catalog_functions` | `AnswersAreExplained`, `FailuresAreTheHosts`, and `EveryCallReturns` under fairness | 2 calls, of 9 functions and of one; both runtimes; 1 worker; callbacks nest a query; a resolver set or cleared; 5 lazy tables, one of them swapped meanwhile; 2 states of the source, whose `pg_class` takes two calls; 315k states |
| `query_rewrites_grouping`, `catalog_views_stale`, `table_insert_race`, `client_session_describe` | one disagreement each, section 6 | |

Why the bounds are enough to be interesting:

- Two threads and two processes are what it takes to race for the counter and for
  the file.  Three numbers for five objects make the counter run out with one and
  with none left, for objects of span one and two.  The number of calls and restarts
  is not bounded: the history is a set, so the state space is finite without it.
- Four argument lists can be built and would number the shared names differently
  one by one; five are refused (a duplicate of each kind, undeclared databases) after
  having recorded some names.  So two builders can meet in every phase, and the second
  process run follows a failed, a killed or a finished first one.  The properties
  compare sources in pairs, so two sources (three with a builder still under way) do.
- The contents of the live source include a relation the declared source also
  has, its database name again, a schema name twice, an index of the declared index's
  name, constraints of its own and nothing at all; schemas share names but not OIDs with the declared ones.
- Three views are the smallest set with a view over a view over a table and a view
  over both; two registrations are what a failed one followed by a successful one
  needs.
- Two connections are what it takes to leak a setting or to race for the capture file,
  two captured queries what it takes for one rewrite to lose the other's entry.  The
  statements have one of each kind that is treated differently: a SET by parameter, to
  the default, LOCAL and of a forbidden name, a planned query, a SHOW and a control
  statement.  Connections, roles and queries that are not captured are not bounded.
- A statement of `query_rewrites` has one part that varies; the parts cover every shape
  that some pass tells apart, and operands nest two casts deep, so that a pass meets what two
  earlier ones have made.  Relations have up to two rows and two values and NULL: enough
  for a duplicate, a missing match and a NULL on either side.
- One worker is the tightest multi-threaded runtime.  A call that blocks, a second call
  that wants the worker, and a callback that queries (from within a query, for
  `pg_get_indexdef`) are what it takes for the innermost query to starve if any of them
  kept its worker.  The two calls meet nowhere but there.  One change of the slot puts a
  resolver, or none, between any two steps.  The source changes once, between any two of
  its calls: it renames a schema, relations and a column, drops others, gives an index
  the name of a view that is gone (read half before and half after, `pg_class` repeats a
  key) and fails on constraints.  Most hosts register their tables before they serve
  (`LazyAtStart`); `pg_class`, which all functions but `pg_get_userbyid` read and
  an index needs twice, can be looked up before, during or after its swap.
- `CHECK_DEADLOCK FALSE` only where the system stops by right: hosts with their sources
  built, a context that failed to build, a table whose inserts are all done, and calls
  that have all returned.

Fairness.  `oid_registry` assumes weak fairness of each thread's own step: a thread
inside `resolve_*` is ordinary code without waits other than `begin_write`, so while
it can run it does; nothing is assumed of callers, errors or kills.  `catalog_views`
assumes weak fairness of the work of the call that is awaited, for the same reason;
nothing is assumed of the host's changes.  `catalog_functions` assumes weak
fairness of each call's own steps (a worker that is free takes a task that waits, and a
task that runs goes on; a source answers).  Nothing is assumed of clients, of the host's
steps (a query that finds a table unregistered fails and does not wait for it), or of a
callback starting another query, but callbacks nest at most `Depth` queries.  Each call is made once, so that all have
returned again and again is that each returns.

## 4. Proofs

A theorem holds for every value of the constants that the named assumptions allow: any
number of threads, builders, views, connections, statements, contents of sources.  TLC
evaluates every assumption on the instance of the run.

| Module | Theorems | Inductive invariant |
|---|---|---|
| `OidRegistryProofs` | `TypeCorrectness`, `OidsAreUnique`, `AnswersSurvive`, `NothingLeaks`, `OidsStayInRange`, `Invariance`, and `Refinement`: the registry implements `OidAllocation` | `IInv` of `OidRegistry` |
| `DeclaredCatalogProofs` | `TypeCorrectness`, `OidsAreStable`, `OidsAreUnique`, `SourcesAreDeclared` | `NamingInv`, then `ListedInv` |
| `LazyCatalogProofs` | `ReferencesAlwaysResolve`, `CollisionsAreAlwaysRefused`, `ColumnsAlwaysFollow` | `IInv` |
| `CatalogViewsProofs` | `RegisteringRefreshesViews`, `ContextsAreComplete`, `OrderNeverFailsStartup`, `DefaultSchemaIsRestored` | `IInv` |
| `ClientSessionProofs` | `ClientsSeeTheirOwnSettings`, `CaptureIsFaithful`; about `TableInsert`: `UnracedInsertsLoseNothing` | `IInv`; `InsertInv` |
| `CatalogFunctionsProofs` | `OnlyHostsFailCalls`, `AnswersAreAlwaysExplained` | `ControlInv`, then `IInv` |
| `QueryRewritesProofs` | `ParametersKept`, `RoutingByName`, `IdentitiesResolve`, `FromItemsMeanTheSame`, `LateralJoinsSameRows`, `PredicatesSameRows`, `LiftedScalarsSameRows`, `SortKeysAreOutputs`, `GroupingSameRows`, `ClientColumnsSameNames`, `ArraysSameElements` | `StageInv` |
| `CastRewritesProofs` | `CastsAlwaysPlannable`, `ComparisonsMeanTheSame` | `StageInv` of `QueryRewritesProofs` |

Every inductive invariant was model-checked before it was proved.  Each module states the
lemmas it needs about the operators it shares with others (those about `Advanced` and
`Recorded` are in the first two).

**OID registry.**  Assumed: `OidRange` (the first user OID is positive and not beyond the
last number) and `NoThreadIsNoThread` (the value for "nobody writes" is not a thread).
None of the invariants is inductive alone: whether a commit keeps the numbers unique
depends on what the transaction read, and on nobody having committed since.  `IInv` adds

- `ExclusiveFile` and `Writing`: at most one process has the file, a thread is in a
  transaction exactly when it has its process's writer slot; so there is one
  transaction at a time and the file does not change under it;
- `CallState`: for each point of a call, what the thread has read and written so
  far, relative to the file: the transaction's view is the file before the
  allocation, the file with the counter moved after it, the file with counter and
  entry moved before the commit;
- `Below`: every recorded number is below the counter, so the next one is new.

Each action has a lemma that it preserves the parts it can disturb; `Commit` is the
only one that changes the file, and there the new registry is one that `CallState`
describes in terms of the old one.  The same description gives the refinement: every
step leaves the recorded names alone or adds one, with numbers at the counter.

**Declared catalog.**  Assumed: `DeclaredConstants` (the number of `public` is below the
first user OID) and the types of the argument lists.  That two published sources agree
says nothing of a third; `NamingInv` ties each row of each builder and of each
published source to the registry (`RowSound`: the number recorded under its name, or
`public` with its fixed one), for the sources of this run, and for those of all runs when
the registry is a file.  A registry call only ever adds names, so rows stay sound, and
two rows agree because the registry is a function and its spans are disjoint.
`SourcesAreDeclared` counts: `ListedInv` says that the rows listed and the declarations
still to do make up the argument list, one row for each database and relation, and that
the schemas listed are those declared or implied by a table; a source is published when
nothing is left to do.

**Lazy catalog.**  Two assumptions say what the merge relies on.  `BuiltinIsConsistent`:
the references among the built-in rows resolve; it holds of the files under
`pg_catalog_data/pg_schema` when the rows that refer to nothing are left out.
`HostsKeepTheirContract`: what `src/combined_catalog_source.rs` and
`src/lazy_catalog.rs` ask of hosts, that OIDs do not collide across sources, that a
source's rows refer to objects of the host's sources, and that sources do not define
system objects.  Names may collide freely.  `IInv` says that, as long as no source has changed since
the query began, a scan under way has exactly the rows of the schemas it has visited,
and each table served is `Faithful`: the merge of what the sources define now.  The
theorems then are about merges alone, and the changes of the sources have dropped out;
`NamespacesAreOne` needs no such condition, because a scan fetches its schemas once.
The row kept when several sources give one key is the earliest source's, which is where
well-foundedness comes in (`LeastNumber`).

**Views.**  Assumed: `ViewConstants`, and `ViewsAreLayered`: no view body reaches itself,
as in the catalog the bodies are taken from, which `view_creation_order.txt` shows by
giving an order that creates them all.  `IInv` has a part per phase.  While views are created: the record of
statements names each view once, after the views it reads; the views not yet created
are those that failed in this pass and those still to try; a pass that has created
nothing has met only views that cannot be planned now; each finished pass created one.
With the precomputed order a second pass creates nothing, so the retries are never what
makes start-up succeed.  While views are planned again: no view still to come is read by one
already done, and, unless something failed, those done are fresh.  The order of the record, kept
from creation, is thus what makes one replay enough.

**In-memory tables** (`InsertInv`).  Assumed: a table is loaded with one batch at most
(`TableConstants`).  The partition never holds two batches, which is why an append may read
the first only; and until two inserts have overlapped, a client about to append
has read the rows that are still there.

**Client sessions.**  Assumed: the shape of statements and that the values standing for
nobody are nobody (`SessionConstants`).  For each connection (`ConnInv`): it runs on a
context of its own, and its settings are among those its client will expect once the
reply it waits for has arrived.  The reply waits while the query is captured, so
`CaptureInv` relates the store to the replies: one entry ahead while a connection
saves, level otherwise.

**Catalog functions.**  Assumed: there is a runtime with workers (`WorkersAssumption`),
objects are numbered and every state of the source answers as many calls
(`CatalogsAssumption`), a row has one argument or NULL (`RequestsAssumption`), and
`HostsKeepOids`: what the docs of `src/lazy_catalog.rs` call the source's job, that an OID
stays one object's.  No assumption keeps the source still or its answers free of errors.
A stack may be of any height, so `StackInv` says what it can look like: the function
alone or blocked on its one query, and above the task that asks a resolver only queries
of the callback.  `Phase` is then where the function is, whatever the callback does; each
action's lemma ends in an `Effect` that names the place it leaves, the place it reaches
and the locals it assigns, and both invariants are proved from these.

`ControlInv` keeps each function on its own path and says that what the host has in
place now is among what a running call has seen.  Two of its parts follow the query:
`ReadsInv` that each table was bound as it was shown, and that each answer of the source
counted in `reads` is of a state shown, with nothing read from a table that is not lazy; `FailInv` that
a call has failed only after it met a missing table, or with a scan that `Refused` what it read.
`OnlyHostsFailCalls` follows from these, and from the short-circuits that keep a query from being
made for nothing.  `WorkInv` follows the rows along the path: the identities are those of
the rows read so far (`FoundIn`), and stay so when the second query of `pg_get_indexdef`
reads another table (`IndexesStay`); its texts are rendered from the columns of that
table (`RenderedFrom`); and from then on `Explained` holds for a fixed resolver: rows
with nothing left to ask are PostgreSQL's over what was read, and asking that same
resolver, by the identity found, would make the others so.  The host can replace anything at
any step because the witnesses are in the history and the history only grows.

**Statements.**  What happens to a statement is decided by what the client sent, so
`StageInv` says for each point of its way which stages have been applied to `asked`, what
the router decided and that the parameter was bound.  It is simple as an invariant; the
work is in the facts about operators that the properties become once it is known.
Assumed: clients write statements (`StatementAssumption`), a row of a catalog has one name and
an OID of its own that is not 0 (`OidAssumption`), the outer rows hold arrays
(`ArrayAssumption`), session identities and set-returning functions are registered the way
`src/session.rs` and `src/user_functions.rs` register them (`IdentityAssumption`,
`TableFunctionAssumption`).  Catalogs, search paths and names are otherwise arbitrary.

- *Routing, names, binding*: one lemma per pass says what it makes of a FROM item, and a
  chain of them that PostgreSQL's lookup of the rewritten item finds what its lookup of the
  original found.
- *Sub-queries*: the lemmas compare the rows of the original and of the rewritten query for
  one inner relation and one outer row, by the form of the query and by whether anything
  matches, NULL included.  The relations and outer rows are the model's (`SubqueryRewrites`
  enumerates those of two rows at most), every form, filter and correlation that is claimed is covered.
- *Lists*: a list has any length.  Numbered aliases are new because a name's number counts
  the earlier items that have it; two equal aliases are excluded by counting these sets with
  `Cardinality`, and facts about the last or the first item with some property by the
  least counterexample.
- *Arrays*: by the construct, for every array of the outer row; an index walk has one
  position for each value of an array without duplicates.
- *Casts*: a pass walks an operand from the inside out.  `WalkInduction` turns a fact about
  one step of the walk into one about the whole operand, again by the least counterexample,
  because the library's induction theorems cannot be instantiated.  Each pass then has a set of
  steps it may meet and a set it may leave, and these sets are chained, pass by pass, down to
  the types the planner knows.  A `regclass` is the exception: what a pass does with it depends
  on whether it stands directly around a literal.  `Firm` (the parentheses around a literal are
  outermost), `FirstOnly` (only there a `pg_catalog.regclass` is left) and `NotFirst` (no bare one
  is) follow it from pass to pass.
- *Comparisons*: `Touched(p)` is the set of identifier casts that pass `p` can act on, and
  `Unmoved` that it leaves an operand without them alone.  With these, `Typed` and `Trimmed`
  (one side after the passes before and after the comparison is looked at) are computed for
  each documented shape: the lookups of a literal under casts, a column, a number or a
  parameter, any number of parentheses around the literal under a `regproc`.  What is left
  of a side is `Settled`: it evaluates to one of the values PostgreSQL may give it.
  Two sides then compare as PostgreSQL's do; where a column holds names and not OIDs,
  because `OidAssumption` makes equal OIDs equal names (`NamesAgree`).

Left to TLC:

- `TransactionsEnd`, `CreationEnds` and `EveryCallReturns`: fairness and ENABLED are outside
  the prover's reach.

Every safety property of a passing run is stated by a theorem.  The runs ending in a
violation are counterexamples and have nothing to prove.

## 5. Not modelled

- Parsing SQL, YAML, JSON, Arrow IPC; formatting; logging; the scan trace.  The
  columns of catalog rows that are neither keys nor references, ACLs and owners.
- DataFusion's planner and executor, redb, tokio and pgwire are external; they
  appear as the steps and outcomes that the code in `src/` sees.
- The int4 checks on column counts of `src/lazy_catalog.rs` (a relation with more than
  2^31 columns).
- In `LazyCatalog` the visit of one schema is a step, though the lazy provider may call
  the source several times in it; `CatalogFunctions` has those calls one by one.
- In `CatalogViews` the swap of a provider is one step; the moment between
  `deregister_table` and `register_table` is in `CatalogFunctions`, for one table.
- `replace_set_command_with_namespace` and the other paths of `SET` are `ClientSession`'s.
- How the passes walk syntax trees, and interactions between two parts of a statement
  that no pass relates.
- tokio's cap on blocking threads (512 by default).
- The stub and formatting functions of `src/user_functions.rs`, `src/describe_object.rs`
  and `src/function_definitions.rs`: they keep no state and depend on one row; a model
  would repeat their text.  `src/catalog_relation_columns.rs` is a table of the built-in
  relations, `src/logical_plan_rules.rs` one rule over DataFusion's plans,
  `src/register_table.rs` and `src/pg_catalog_helpers.rs` wrap the inserts that
  `TableInsert` has, `src/main.rs` parses arguments.
- The MD5 handshake, the GSSAPI refusal and the encoding of rows in `src/server.rs`.

## 6. Disagreements found

Each is shown by a run that TLC ends with a counterexample.

1. `query_rewrites_grouping`: `inject_group_by` groups a SELECT list in which no
   aggregate occurs as soon as one item reads no column (a function without arguments,
   a cast literal), and duplicate rows are lost.
2. `catalog_views_stale`: a view over a view that fails to re-plan is re-planned
   over the stale inner plan, so it still reads the replaced provider and is not named
   in the error that promises to name such views.
3. `table_insert_race`: two appends that overlap between the two locked sections of
   `insert_into` lose the rows of one; the run has no overwrites.
4. `client_session_describe`: Describe announces two columns for a SHOW, Execute answers
   one, or three for SHOW ALL.

Read, not run: the doc comment of `get_base_session_context_with_lazy_catalog`
(`src/session.rs`, "the already-created views keep pointing at the original providers")
predates the replay in `install_lazy_providers`, which the model has.  `SET` through the
extended protocol answers an empty query where `src/router.rs` speaks of a `SET`
command tag.  `start_server` says that the capture file records every query, but
statements the handlers answer themselves and those Describe executes are not
recorded; a kill between `File::create` and `write_all` leaves the file torn where the
comment of `CaptureStore` promises a readable one.

Also read, not run, by component:

- *Combined sources*: indexes are deduplicated by OID although the merge of `pg_class`
  keys them by namespace and name, so a shared index name fails the scan that the doc
  promises is spared duplicates (`CollisionsAreRefused` shows that it fails loudly).  A
  later source's constraint keeps a namespace OID that `pg_namespace` does not list.
- *Casts*: `array_agg(..)::varchar` has become `TEXT` when the pass for it runs;
  `col::oid`, `'n'::regtype::oid` and `'n'::regclass::pg_catalog.oid` look an OID up as if
  it were a name and answer NULL; a parenthesised literal is not recognised, so
  `('n')::pg_catalog.regclass` does not plan and `('n')::regclass` stays text.
- *Sub-queries*: the grouped join for a LATERAL aggregate is called an "exact
  equivalent" but is not for INNER joins and `count`; a correlation other than equality is
  retargeted as if it were one; a projection with its own alias is not found under the
  name the join uses; an ordered LIMIT stays in the lifted body; an EXISTS over an
  ungrouped aggregate, NOT IN over NULLs and a boolean scalar under NOT or in the list
  change their meaning.
- *Routing*: a bare `::regclass`, calls in FROM and tables in sub-queries of expressions
  do not make a statement the catalog's; a CTE or a call with the name of a catalog table
  is qualified; bare user tables in such sub-queries are qualified to `pg_catalog`; the
  prefix of set-returning functions is stripped, and their column named, only in some
  places.
- *Lists*: names made by numbering (`oid_2`, `alias_1`) can collide; duplicate explicit
  aliases fail; a parenthesised body counts as nested; qualified function names keep
  their schema; `user` and `current_catalog` come back as `current_user` and
  `current_database`; ORDER BY outside parentheses, or by a function's name, is left to
  the planner; system columns are hidden by searching the text of the statement; grouping
  by an ANY expression splits groups.
- *Arrays*: ORDER BY, DISTINCT and LIMIT around an unnest are dropped with it; an ARRAY
  sub-query without rows is `{NULL}`; `'{}'` has one empty element; an index walk over
  an array with duplicates loses them.
- *Binding*: the format code of a parameter is not read, so a boolean sent as the text
  `f` binds as true.
- *Functions*: the doc of `register_scalar_format_type` says that `format_type` "resolves
  every type the catalog knows", that of `load_typname_by_oid` that the catalog is static
  once loaded, and that of `current_setting` that a host's settings are included; but the rows
  are captured when the functions are registered, before the lazy catalog, so a host's type is
  rendered as a number and its settings are missing (`AnswersAreExplained` leaves
  `format_type` out for this); set-returning
  functions build their rows when a query is planned, where the docs say on each call;
  `row_security_active(NULL)` is false; nested functions "cannot deadlock at any depth"
  only while tokio has threads left; an answer can mix two states of a source that changes under
  it, as `pg_get_indexdef` an index's old name with a column's new one.

## 7. Plan

Done, modelling: `OidAllocator`, `OidAllocation`, `OidRegistry`; `DeclaredCatalog`;
`CatalogSource` and `LazyCatalog`; `CatalogViews`; `TableInsert`; `ClientSession`;
`StatementRouting` and the four rewrite modules, composed in `QueryRewrites`;
`CatalogFunctions`.  Done, proofs: the safety properties of `OidRegistry` with its
refinement, `DeclaredCatalog`, `LazyCatalog`, `CatalogViews`, `TableInsert`,
`ClientSession`, `CatalogFunctions` and `QueryRewrites`.

Next, proofs: sub-queries over relations of any size, which need their rows counted as
the lists' items are; liveness waits for a prover that does ENABLED.

Next, modelling: queries that read planned views across a registration, composed from
`CatalogViews` and `CatalogFunctions`.
