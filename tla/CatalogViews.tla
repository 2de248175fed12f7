---------------------------- MODULE CatalogViews ----------------------------
(***************************************************************************)
(* The views of one session context: how they are created when the context *)
(* is built, and how they follow the table providers that registering a    *)
(* lazy catalog swaps underneath them.                                     *)
(*                                                                         *)
(* A DataFusion view keeps the plan it was planned from, and the plan      *)
(* holds the provider objects of that moment, those of inner views         *)
(* included.  So a view reads (table, generation of the provider) pairs:   *)
(* generation 0 is the built-in snapshot, and the n-th registration        *)
(* installs providers of generation n.                                     *)
(***************************************************************************)
EXTENDS Naturals, Sequences, FiniteSets

CONSTANTS
  Tables,            \* catalog tables a lazy provider may serve
  Independent,       \* those that hold no database's rows
  Views,             \* the declared views
  BaseOf,            \* BaseOf[v]: the tables v's body names
  InnerOf,           \* InnerOf[v]: the views v's body names
  Orders,            \* the orders in which the views may be tried
  Breakable,         \* views whose body may be one the engine cannot plan
  MaxRegistrations   \* bound: registrations of a lazy catalog

ASSUME ViewConstants ==
  /\ Views # {}
  /\ Independent \subseteq Tables
  /\ BaseOf \in [Views -> SUBSET Tables]
  /\ InnerOf \in [Views -> SUBSET Views]
  /\ Orders \subseteq {o \in [1 .. Cardinality(Views) -> Views] :
                         {o[i] : i \in DOMAIN o} = Views}
  /\ Breakable \subseteq Views
  /\ MaxRegistrations \in Nat

(***************************************************************************)
(* No body reaches itself: the views are those of a PostgreSQL catalog,    *)
(* and view_creation_order.txt records an order that creates them all.     *)
(***************************************************************************)
ASSUME ViewsAreLayered ==
  /\ IsFiniteSet(Views)
  /\ \A S \in SUBSET Views : S # {} => \E v \in S : InnerOf[v] \cap S = {}

VARIABLES
  phase,       \* "new", "installing", "creating", "replanning", "ready" or "failed"
  provider,    \* provider[t]: the generation of t's provider
  generation,  \* registrations so far
  swaps,       \* the tables the registration under way has still to swap
  views,       \* the views registered in the catalog
  reads,       \* reads[v]: the (table, generation) pairs the plan of v reads
  statements,  \* registered_view_statements: the recorded CREATE statements
  order,       \* the order the views are tried in
  todo,        \* the views the pass or the replay under way has still to try
  failing,     \* still_failing / failures: those it could not plan
  created,     \* did this pass create a view?
  passes,      \* passes of the creation loop
  broken,      \* the views whose body the engine cannot plan now
  schema,      \* the default schema: the caller's choice or "pg_catalog"
  result       \* what the last building or registering call returned

vars == <<phase, provider, generation, swaps, views, reads, statements, order, todo,
          failing, created, passes, broken, schema, result>>

providerVars == <<provider, generation, swaps>>
viewVars == <<views, reads, statements>>
loopVars == <<todo, failing, created, passes>>

Init ==
  /\ phase = "new"
  /\ provider = [t \in Tables |-> 0]
  /\ generation = 0
  /\ swaps = {}
  /\ views = {}
  /\ reads = [v \in Views |-> {}]
  /\ statements = <<>>
  /\ order \in Orders
  /\ todo = <<>>
  /\ failing = <<>>
  /\ created = FALSE
  /\ passes = 0
  /\ broken \in SUBSET Breakable
  /\ schema = "chosen"
  /\ result = "none"

-----------------------------------------------------------------------------
\* A body plans when the engine supports it and the views it names exist.
Plannable(v) == v \notin broken /\ InnerOf[v] \subseteq views

PlannedReads(v) ==
  {<<t, provider[t]>> : t \in BaseOf[v]} \cup UNION {reads[u] : u \in InnerOf[v]}

\* A call that fails ends the building of the context, or returns to the host
\* that registered a source over a context that is up.
Building == views = {}

ReturnError(error) ==
  /\ phase' = IF Building THEN "failed" ELSE "ready"
  /\ result' = error

-----------------------------------------------------------------------------
(* create_registered_views *)

\* The attempts start under pg_catalog with an empty record of statements.
CreateViews ==
  /\ phase' = "creating"
  /\ statements' = <<>>
  /\ todo' = order
  /\ failing' = <<>>
  /\ created' = FALSE
  /\ passes' = 1
  /\ schema' = "pg_catalog"

\* get_base_session_context: no lazy catalog.
Build ==
  /\ phase = "new"
  /\ CreateViews
  /\ UNCHANGED <<providerVars, views, reads, order, broken, result>>

\* try_create_view of the next view of the pass.
TryCreateView ==
  /\ phase = "creating" /\ todo # <<>>
  /\ LET v == Head(todo)
     IN  \/ /\ Plannable(v)
            /\ views' = views \cup {v}
            /\ reads' = [reads EXCEPT ![v] = PlannedReads(v)]
            /\ statements' = Append(statements, v)
            /\ created' = TRUE
            /\ UNCHANGED failing
         \/ /\ ~Plannable(v)
            /\ failing' = Append(failing, v)
            /\ UNCHANGED <<viewVars, created>>
  /\ todo' = Tail(todo)
  /\ UNCHANGED <<phase, providerVars, order, passes, broken, schema, result>>

\* A pass that created something and left something is followed by another.
NextPass ==
  /\ phase = "creating" /\ todo = <<>>
  /\ created /\ failing # <<>>
  /\ todo' = failing
  /\ failing' = <<>>
  /\ created' = FALSE
  /\ passes' = passes + 1
  /\ UNCHANGED <<phase, providerVars, viewVars, order, broken, schema, result>>

\* Mutant: the first failure ends the creation.
ViewsUnplannableAtOnce ==
  /\ phase = "creating" /\ failing # <<>>
  /\ phase' = "failed"
  /\ result' = "unplannable views"
  /\ schema' = "chosen"
  /\ UNCHANGED <<providerVars, viewVars, loopVars, order, broken>>

\* Mutant: the default schema is not restored when the creation fails.
ViewsUnplannableAbrupt ==
  /\ phase = "creating" /\ todo = <<>>
  /\ ~created
  /\ phase' = "failed"
  /\ result' = "unplannable views"
  /\ UNCHANGED <<providerVars, viewVars, loopVars, order, broken, schema>>

\* Mutant: a pass that created nothing is noticed only when nothing is left.
ViewsUnplannableLate ==
  /\ phase = "creating" /\ todo = <<>>
  /\ ~created /\ failing = <<>>
  /\ phase' = "failed"
  /\ result' = "unplannable views"
  /\ schema' = "chosen"
  /\ UNCHANGED <<providerVars, viewVars, loopVars, order, broken>>

\* Nothing moved: startup fails, under the default schema it started with.
ViewsUnplannable ==
  /\ phase = "creating" /\ todo = <<>>
  /\ ~created
  /\ phase' = "failed"
  /\ result' = "unplannable views"
  /\ schema' = "chosen"
  /\ UNCHANGED <<providerVars, viewVars, loopVars, order, broken>>

\* Mutant: views that fail are left out.
ViewsCreatedPartly ==
  /\ phase = "creating" /\ todo = <<>>
  /\ created
  /\ phase' = "ready"
  /\ result' = "ok"
  /\ schema' = "chosen"
  /\ UNCHANGED <<providerVars, viewVars, loopVars, order, broken>>

ViewsCreated ==
  /\ phase = "creating" /\ todo = <<>>
  /\ created /\ failing = <<>>
  /\ phase' = "ready"
  /\ result' = "ok"
  /\ schema' = "chosen"
  /\ UNCHANGED <<providerVars, viewVars, loopVars, order, broken>>

-----------------------------------------------------------------------------
(* Registering a lazy catalog, while the context is built or afterwards. *)

MayRegister == phase \in {"new", "ready"} /\ generation < MaxRegistrations

Install(tables) ==
  /\ phase' = "installing"
  /\ swaps' = tables
  /\ generation' = generation + 1
  /\ failing' = <<>>
  /\ UNCHANGED <<provider, viewVars, order, todo, created, passes, broken, schema, result>>

Refuse ==
  /\ ReturnError("refused")
  /\ UNCHANGED <<providerVars, viewVars, loopVars, order, broken, schema>>

\* register_lazy_catalog: refused when the source cannot say which databases
\* it has, or does not report the one to serve.
RegisterLazyCatalog(tables) ==
  /\ MayRegister
  /\ Install(tables) \/ Refuse

\* register_database_independent_lazy_catalog, on a context that is up.
RegisterDatabaseIndependent(tables) ==
  /\ MayRegister /\ phase = "ready"
  /\ \/ tables \subseteq Independent /\ Install(tables)
     \/ ~(tables \subseteq Independent) /\ Refuse

\* One turn of install_lazy_providers' loop.
InstallProvider(t) ==
  /\ phase = "installing" /\ t \in swaps
  /\ provider' = [provider EXCEPT ![t] = generation]
  /\ swaps' = swaps \ {t}
  /\ UNCHANGED <<phase, generation, viewVars, loopVars, order, broken, schema, result>>

\* The table is missing, or the scan that captures its rows fails: the loop
\* is left, what it swapped stays swapped, and no view is re-planned.
InstallFails ==
  /\ phase = "installing" /\ swaps # {}
  /\ ReturnError("not installed")
  /\ swaps' = {}
  /\ UNCHANGED <<provider, generation, viewVars, loopVars, order, broken, schema>>

\* Mutant: the views are not re-planned.
InstalledOnly ==
  /\ phase = "installing" /\ swaps = {}
  /\ \/ /\ statements = <<>>
        /\ CreateViews
        /\ UNCHANGED result
     \/ /\ statements # <<>>
        /\ phase' = "ready"
        /\ result' = "ok"
        /\ UNCHANGED <<statements, loopVars, schema>>
  /\ UNCHANGED <<providerVars, views, reads, order, broken>>

\* replan_registered_views_against_current_providers: while the context is
\* being built there is nothing to replay, and its views come next.
Installed ==
  /\ phase = "installing" /\ swaps = {}
  /\ \/ /\ statements = <<>>
        /\ CreateViews
     \/ /\ statements # <<>>
        /\ phase' = "replanning"
        /\ todo' = statements
        /\ UNCHANGED <<statements, failing, created, passes, schema>>
  /\ UNCHANGED <<providerVars, views, reads, order, broken, result>>

\* One replayed statement; a body that fails leaves the view as it was.
Replan ==
  /\ phase = "replanning" /\ todo # <<>>
  /\ LET v == Head(todo)
     IN  \/ /\ Plannable(v)
            /\ reads' = [reads EXCEPT ![v] = PlannedReads(v)]
            /\ UNCHANGED failing
         \/ /\ ~Plannable(v)
            /\ failing' = Append(failing, v)
            /\ UNCHANGED reads
  /\ todo' = Tail(todo)
  /\ schema' = "pg_catalog"
  /\ UNCHANGED <<phase, providerVars, views, statements, order, created, passes, broken,
                 result>>

Replanned ==
  /\ phase = "replanning" /\ todo = <<>>
  /\ schema' = "chosen"
  /\ phase' = "ready"
  /\ result' = IF failing = <<>> THEN "ok" ELSE "not replanned"
  /\ UNCHANGED <<providerVars, viewVars, loopVars, order, broken>>

\* The host changes what bodies depend on (functions, other tables).
Change ==
  /\ phase = "ready"
  /\ broken' \in SUBSET Breakable
  /\ UNCHANGED <<phase, providerVars, viewVars, loopVars, order, schema, result>>

Work ==
  \/ TryCreateView \/ NextPass \/ ViewsUnplannable \/ ViewsCreated
  \/ (\E t \in Tables : InstallProvider(t)) \/ Installed \/ Replan \/ Replanned

Next ==
  \/ Build
  \/ Work
  \/ \E tables \in SUBSET Tables :
       RegisterLazyCatalog(tables) \/ RegisterDatabaseIndependent(tables)
  \/ InstallFails
  \/ Change

Spec == Init /\ [][Next]_vars

\* The call that builds or registers is awaited: it keeps running.
FairSpec == Spec /\ WF_vars(Work)

-----------------------------------------------------------------------------
RangeOf(s) == {s[i] : i \in DOMAIN s}

Fresh(v) == \A r \in reads[v] : r[2] = provider[r[1]]

(***************************************************************************)
(* Success means fresh: when building or registering returned Ok, no view  *)
(* reads a provider that has been replaced, not even through another view, *)
(* whatever failed before and in whatever order the views were created.    *)
(***************************************************************************)
OkMeansFresh ==
  phase = "ready" /\ result = "ok" => \A v \in views : Fresh(v)

DependenciesFirst(o) ==
  \A i \in DOMAIN o : InnerOf[o[i]] \subseteq {o[j] : j \in 1 .. i - 1}

(***************************************************************************)
(* A context that is up serves every declared view, and has recorded each  *)
(* of them once, after the views its body names: the order a later replay  *)
(* needs, also when the creation took several passes over a stale order.   *)
(* "The precomputed order puts every view after the views it depends on,   *)
(* so a single pass creates them all"; any order takes at most one pass a  *)
(* view.                                                                   *)
(***************************************************************************)
ReadyMeansComplete ==
  phase = "ready" =>
    /\ views = Views
    /\ Len(statements) = Cardinality(Views)
    /\ DependenciesFirst(statements)
    /\ passes <= IF DependenciesFirst(order) THEN 1 ELSE Cardinality(Views)

(***************************************************************************)
(* "An ordering problem would have let at least one through": startup      *)
(* fails for its views only when some body does not plan in any order, and *)
(* then every view that does not depend on such a body was created.        *)
(***************************************************************************)
FailureIsNotTheOrder ==
  phase = "failed" /\ result = "unplannable views" =>
    /\ (Views \ views) \cap broken # {}
    /\ \A v \in Views \ views : v \in broken \/ ~(InnerOf[v] \subseteq views)

(***************************************************************************)
(* Building and registering leave the default schema as the caller chose   *)
(* it, on every way out.                                                   *)
(***************************************************************************)
SchemaIsRestored == phase \in {"new", "ready", "failed"} => schema = "chosen"

(***************************************************************************)
(* The retry loop ends, also when some body never plans.                   *)
(***************************************************************************)
CreationEnds == phase = "creating" ~> phase \in {"ready", "failed"}

(***************************************************************************)
(* session.rs, where a body fails to re-plan: "the caller still has to be  *)
(* TOLD, because the view it leaves behind is still bound to the provider  *)
(* that was just replaced, and serving rows from a superseded source       *)
(* silently is the worst shape this failure can take".  Every view that    *)
(* still reads a replaced provider is among the ones the error names.      *)
(***************************************************************************)
StaleViewsAreNamed ==
  phase = "ready" /\ result = "not replanned" =>
    \A v \in views : Fresh(v) \/ v \in RangeOf(failing)
=============================================================================
