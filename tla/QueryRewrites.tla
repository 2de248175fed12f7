---------------------------- MODULE QueryRewrites ----------------------------
(***************************************************************************)
(* A client statement on its way to the planner: routed (router.rs), its   *)
(* parameters bound, rewritten by some fifty passes in a fixed order        *)
(* (session.rs, replace.rs, scalar_to_cte.rs and their helpers), planned    *)
(* and answered.                                                           *)
(*                                                                         *)
(* A statement has five parts that the passes look at separately: a        *)
(* comparison (cmp), a sub-query (sub), a SELECT list (sel), an array       *)
(* construct (arr), and the names in its FROM clause and identity calls    *)
(* (st); param is one bound parameter.  A pass may touch any of them.       *)
(***************************************************************************)
EXTENDS StatementRouting, SubqueryRewrites, SelectRewrites

CONSTANTS Oids,      \* of the catalog, whose tables and functions StatementRouting has
          RowArrays, \* the arrays an outer row may hold
          Default,   \* a statement
          Varied     \* per part, what clients put in its place (sets, in a sequence)

Casts == INSTANCE CastRewrites
Arrays == INSTANCE ArrayRewrites

(* What the client sends, before any pass.                                  *)
IsStatement(s) ==
    /\ s = [cmp |-> s.cmp, sub |-> s.sub, sel |-> s.sel, arr |-> s.arr, st |-> s.st,
            param |-> s.param]
    /\ IsNaming(s.st) /\ s.st.route = "" /\ Casts!IsComparison(s.cmp)
    /\ IsSubquery(s.sub) /\ IsSelect(s.sel) /\ Arrays!IsConstruct(s.arr)
    /\ {s.param.null, s.param.utf8} \subseteq BOOLEAN

ASSUME StatementAssumption ==
    \A part \in DOMAIN Varied : \A i \in DOMAIN Varied[part] :
      \A x \in Varied[part][i] : IsStatement([Default EXCEPT ![part] = x])

(* A row has one name and an OID of its own in its catalog, which is not 0.  *)
ASSUME OidAssumption ==
    \A table \in {"pg_class", "pg_type", "pg_proc"} :
      /\ table \in DOMAIN Oids
      /\ \A n \in DOMAIN Oids[table] :
           /\ Oids[table][n] \subseteq Nat \ {0}
           /\ \A m \in DOMAIN Oids[table] : Oids[table][m] \cap Oids[table][n] # {} => m = n

ASSUME ArrayAssumption == \A v \in RowArrays : Arrays!IsArray(v)

(* Every session identity is registered as a function of pg_catalog, and no *)
(* function has an empty name (register_current_user and its like).         *)
ASSUME IdentityAssumption ==
    /\ \A f \in {"current_user", "session_user", "current_role", "current_schema",
                 "current_database"} : <<"pg_catalog", f>> \in ScalarFunctions
    /\ \A s \in CatalogSchemas : <<s, "">> \notin ScalarFunctions

(* PostgreSQL's set-returning functions are registered by their bare names, *)
(* one of them under another.  None is a table of information_schema, and   *)
(* the names that lose their prefix everywhere are no tables of pg_catalog. *)
ASSUME TableFunctionAssumption ==
    /\ "available_extension_versions" \in TableFunctions
    /\ \A f \in PostgresFunctions :
         /\ f \in TableFunctions \/ f = "pg_available_extension_versions"
         /\ <<"information_schema", f>> \notin Tables
    /\ \A f \in UnprefixedNames : <<"pg_catalog", f>> \notin Tables

VARIABLES asked,     \* the statement as the client sent it
          stmt,      \* the statement as the passes have left it
          scalar,    \* the bound parameter
          pc,        \* the next thing done to the statement
          outcome    \* "", or host, failed, answered
vars == <<asked, stmt, scalar, pc, outcome>>

---------------------------------------------------------------------------
(* bind_parameter_as_scalar.  A parameter is a declared type and the bytes  *)
(* on the wire: their number, whether they are valid UTF-8, their format    *)
(* and the value they stand for.  The format code is not read: a fixed-width *)
(* value sent as text is misread when its length happens to fit.             *)

Width == [int2 |-> 2, int4 |-> 4, int8 |-> 8, oid |-> 4, float4 |-> 4,
          float8 |-> 8, bool |-> 1]
TextTypes == {"text", "varchar", "bpchar", "name", "unknown"}
PlannerType ==
    [int2 |-> "int16", int4 |-> "int32", int8 |-> "int64", oid |-> "int64",
     float4 |-> "float32", float8 |-> "float64", bool |-> "boolean"]
    @@ [t \in TextTypes |-> "utf8"]

Scalar(t, v) == [t |-> t, v |-> v]
NoScalar == Scalar("none", 0)

\* Mutants: the width of a parameter is not compared; its wire type is bound.
bindable_any_width(p) ==
    \/ p.type \in DOMAIN PlannerType /\ p.null
    \/ p.type \in DOMAIN Width /\ ~p.null
    \/ p.type \in TextTypes /\ ~p.null /\ p.utf8

bindable(p) ==
    \/ p.type \in DOMAIN PlannerType /\ p.null
    \/ p.type \in DOMAIN Width /\ ~p.null /\ p.bytes = Width[p.type]
    \/ p.type \in TextTypes /\ ~p.null /\ p.utf8

Misread == 99

bind_parameter_as_scalar(p) ==
    Scalar(PlannerType[p.type],
           IF p.null THEN 0
           ELSE IF p.type \in TextTypes \/ (p.fmt = "binary" /\ p.bytes = Width[p.type])
                THEN p.value ELSE Misread)

---------------------------------------------------------------------------
(* The passes, in three stages.  Each looks at one part, so a stage is      *)
(* given part by part, every part's passes in the order they run.          *)
(* replace_set_command_with_namespace, the second of rewrite_filters,       *)
(* rewrites SET only (see ClientSession).                                  *)

before_filters(s) ==
    [s EXCEPT !.sub = subquery_before_filters(@), !.sel = select_before_filters(@),
              !.st = names_before_filters(@)]

rewrite_filters(s) ==
    [s EXCEPT !.cmp = Casts!rewrite_filters(@), !.sub = subquery_in_filters(@),
              !.sel = select_in_filters(@), !.arr = Arrays!rewrite_filters(@),
              !.st = names_in_filters(@)]

after_filters(s) == [s EXCEPT !.sub = subquery_after_filters(@)]

---------------------------------------------------------------------------
(* The steps of one statement.                                             *)

Init ==
    /\ \E part \in DOMAIN Varied : \E i \in DOMAIN Varied[part] :
         \E x \in Varied[part][i] : asked = [Default EXCEPT ![part] = x]
    /\ stmt = asked
    /\ scalar = NoScalar
    /\ pc = "dispatch"
    /\ outcome = ""

(* The host is handed the client's own text.                               *)
Dispatch ==
    /\ pc = "dispatch"
    /\ stmt' = [stmt EXCEPT !.st = dispatch_query(@)]
    /\ \/ stmt'.st.route = "catalog" /\ pc' = "bind" /\ outcome' = ""
       \/ stmt'.st.route = "host" /\ pc' = "done" /\ outcome' = "host"
       \/ stmt'.st.route = "error" /\ pc' = "done" /\ outcome' = "failed"
    /\ UNCHANGED <<asked, scalar>>

Fails == pc' = "done" /\ outcome' = "failed"
Continues(next) == pc' = next /\ UNCHANGED outcome

(* Parameters are decoded before any pass sees the statement.              *)
Bind ==
    /\ pc = "bind"
    /\ \/ stmt.param.type = "none" /\ Continues("reshape") /\ UNCHANGED scalar
       \/ bindable(stmt.param) /\ Continues("reshape")
            /\ scalar' = bind_parameter_as_scalar(stmt.param)
       \/ stmt.param.type # "none" /\ ~bindable(stmt.param) /\ Fails /\ UNCHANGED scalar
    /\ UNCHANGED <<asked, stmt>>

ReshapeBeforeFilters ==
    /\ pc = "reshape"
    /\ stmt' = before_filters(stmt)
    /\ Continues("filters")
    /\ UNCHANGED <<asked, scalar>>

(* A pass that returns an error ends the statement.                        *)
RewriteFilters ==
    /\ pc = "filters"
    /\ stmt' = rewrite_filters(stmt)
    /\ \/ stmt'.arr.form = "error" /\ Fails
       \/ stmt'.arr.form # "error" /\ Continues("predicates")
    /\ UNCHANGED <<asked, scalar>>

ReshapeAfterFilters ==
    /\ pc = "predicates"
    /\ stmt' = after_filters(stmt)
    /\ Continues("execute")
    /\ UNCHANGED <<asked, scalar>>

Execute ==
    /\ pc = "execute"
    /\ pc' = "done"
    /\ outcome' = "answered"
    /\ UNCHANGED <<asked, stmt, scalar>>

Done == pc = "done" /\ UNCHANGED vars

Next == Dispatch \/ Bind \/ ReshapeBeforeFilters \/ RewriteFilters
          \/ ReshapeAfterFilters \/ Execute \/ Done

Spec == Init /\ [][Next]_vars
---------------------------------------------------------------------------
(* Properties.                                                             *)

(* A statement is answered here exactly when one of its names is the       *)
(* catalog's by PostgreSQL's rules: a table by the search path, a function, *)
(* an object-identifier cast, a session identity however it is spelled      *)
(* (dispatch_query).  The router does not look into sub-queries of          *)
(* expressions, at calls in FROM, at CTE names or at bare ::regclass, so    *)
(* those statements are not claimed.  The host gets the client's own text.  *)
RoutedByName(st) == st.place \in InFrom /\ ~st.call /\ ~st.cte /\ st.cast # "regclass"

CatalogsOwn(st) ==
    \/ PostgresObject(st).s \in CatalogSchemas
    \/ st.cast = "custom"
    \/ \E s \in CatalogSchemas : <<s, st.func>> \in ScalarFunctions
    \/ PostgresIdentity(st.spell) \in {"role", "database", "schema"}

RoutingFollowsTheNames ==
    /\ (/\ pc # "dispatch" /\ asked.st.valid /\ RoutedByName(asked.st)
        /\ PostgresIdentity(asked.st.spell) # "error")
         => (outcome = "host" <=> ~CatalogsOwn(asked.st))
    /\ outcome = "host" => [stmt EXCEPT !.st.route = ""] = asked

(* A parameter the planner sees has the value and the type the client sent; *)
(* anything else failed before a pass saw the statement                     *)
(* (bind_parameter_as_scalar).  Fixed-width values sent in text format are  *)
(* not claimed.                                                            *)
ParametersKeepTheirValues ==
    (outcome = "answered" /\ asked.param.type # "none"
       /\ (asked.param.fmt = "binary" \/ asked.param.type \in TextTypes))
      => /\ scalar = Scalar(PlannerType[asked.param.type],
                            IF asked.param.null THEN 0 ELSE asked.param.value)
         /\ asked.param.type \in TextTypes /\ ~asked.param.null => asked.param.utf8

(* Every cast the passes claim has a type the planner knows by the end of   *)
(* rewrite_filters, whatever the nesting.  Not claimed: a literal in         *)
(* parentheses under a cast, which is not looked up.                         *)
ClaimedOperand(e) ==
    /\ \A i \in DOMAIN e.steps : Casts!ClaimedStep(e.steps[i])
    /\ e.base.k \in {"lit", "boollit"}
         => \A i \in 1..Len(e.steps) - 1 : e.steps[i] # Casts!Paren

CastsArePlannable ==
    (outcome = "answered" /\ ClaimedOperand(asked.cmp.l) /\ ClaimedOperand(asked.cmp.r))
      => Casts!Plannable(stmt.cmp.l) /\ Casts!Plannable(stmt.cmp.r)

(* A comparison of object identifiers has the answer PostgreSQL gives it,   *)
(* for every documented way to write one: a name is looked up in the        *)
(* catalog its type names and in no other, exactly once, on both sides.     *)
ComparisonsKeepTheirMeaning ==
    (outcome = "answered" /\ Casts!DocumentedComparison(asked.cmp)
       /\ "error" \notin Casts!PostgresComparisons(asked.cmp))
      => Casts!Answered(stmt.cmp) \in Casts!PostgresComparisons(asked.cmp)

(* A FROM item means the object PostgreSQL finds under its name, and a      *)
(* single-column function's column carries the alias (qualify_catalog_tables,*)
(* rewrite_schema_qualified_udtfs, alias_subquery_tables).  A bare table is  *)
(* claimed where the catalog or the default schema owns it (the planner does *)
(* not search the path), in an expression's sub-query only where pg_catalog  *)
(* does; a call that has a prefix, or that the router gives one because a    *)
(* table has its name, only where the prefix is stripped.                   *)
ClaimedItem(st) ==
    /\ ~st.cte
    /\ PostgresObject(st) # Nothing
    /\ ~st.call /\ st.s = ""
         => PostgresObject(st).s \in CatalogSchemas \cup {default_schema}
    /\ st.place \in {"subquery", "exists", "in"} /\ ~st.call /\ st.s = ""
         => PostgresObject(st).s = "pg_catalog"
    /\ st.call /\ st.n \notin UnprefixedNames
         /\ (st.s = "pg_catalog" \/ object_is_catalog(st))
         => st.place \in {"from", "join", "derived", "subquery"}

FromItemsKeepTheirMeaning ==
    (outcome = "answered" /\ ClaimedItem(asked.st))
      => /\ PlannedObject(stmt.st) = PostgresObject(asked.st)
         /\ (/\ asked.st.call /\ asked.st.alias
             /\ asked.st.n \in SINGLE_COLUMN_SET_RETURNING_FUNCTIONS
             /\ asked.st.place \in {"from", "join", "subquery", "exists"}) => stmt.st.cols

(* Every spelling of a session identity PostgreSQL accepts is a call of the *)
(* function it means, and normalising it again changes nothing.             *)
IdentitySpellingsResolve ==
    (outcome = "answered" /\ asked.st.spell.n # ""
       /\ PostgresIdentity(asked.st.spell) # "error")
      => /\ AnsweredIdentity(stmt.st.spell) = PostgresIdentity(asked.st.spell)
         /\ normalize_session_identity_spellings(stmt.st) = stmt.st

(* A sub-query lifted out of the SELECT list yields for every outer row      *)
(* what it yielded in place (rewrite_correlated_limit_one_subquery_to_max,    *)
(* rewrite_scalar_subqueries_to_ctes).  Not claimed: a correlation that is    *)
(* not an equality, an expression around a count, an ordered LIMIT, a         *)
(* projection with an alias of its own, outer columns written without their   *)
(* table that the catalog does not know, a comparison that is not lifted, a   *)
(* correlated LIMIT beside DISTINCT or GROUP BY, which stays in the body.      *)
ClaimedScalar(q) ==
    /\ q.form = "scalar" /\ q.pos = "projection"
    /\ "k<k" \notin q.preds /\ q.proj # "count+1" /\ ~q.named
    /\ q.qualified \/ q.known
    /\ q.limit => q.qualified /\ ~q.ordered
    /\ q.limit /\ references_outer_column(q) => ~q.distinct /\ ~q.grouped

LiftedScalarsKeepRows ==
    (/\ outcome = "answered" /\ ClaimedScalar(asked.sub)
     /\ asked.sub.proj = "cmp" => stmt.sub.form = "cte")
      => Faithful(asked.sub, stmt.sub)

(* A predicate keeps exactly the outer rows it kept: EXISTS as a count, a     *)
(* boolean scalar as EXISTS, a tuple IN as EXISTS.  Not claimed: EXISTS over   *)
(* an aggregate, a boolean scalar under NOT, NOT IN where NULLs occur.         *)
ClaimedPredicate(q) ==
    /\ q.form \in {"scalar", "exists", "tuplein"} /\ q.pos # "projection"
    /\ q.form = "exists" => q.proj = "one"
    /\ q.form = "scalar" => q.pos = "filter"

PredicatesKeepTheirRows ==
    (outcome = "answered" /\ ClaimedPredicate(asked.sub))
      => IF asked.sub.form = "tuplein" /\ (asked.sub.neg <=> asked.sub.pos = "filter")
         THEN FaithfulWithoutNulls(asked.sub, stmt.sub)
         ELSE Faithful(asked.sub, stmt.sub)

(* A LATERAL aggregate is the same rows as the grouped join it becomes, for   *)
(* LEFT joins and aggregates that are NULL over no rows.                       *)
ClaimedLateral(q) == q.form = "lateral" /\ q.left /\ q.proj \notin {"count", "count+1"}

LateralJoinsKeepRows ==
    (outcome = "answered" /\ ClaimedLateral(asked.sub))
      => Faithful(asked.sub, stmt.sub)

(* The client's columns carry the names PostgreSQL gives them, however many  *)
(* passes renamed them on the way (alias_unnamed_columns, rename_columns),    *)
(* and no two named columns of a nested SELECT share a name, which the        *)
(* planner would panic on (disambiguate_duplicate_columns).                   *)
(* Not claimed: an alias that reads as a generated one (x_2, alias_1), two      *)
(* equal aliases, a set-returning call without one, duplicate names in         *)
(* parentheses, and system columns named beside a star.                       *)
WrittenAliases(s) == \A i \in DOMAIN s.items : s.items[i].a.i = 0

ClaimedList(s) ==
    /\ s.wrap \in {"plain", "paren"}
    /\ WrittenAliases(s)
    /\ \A i \in DOMAIN s.items :
         s.items[i].k \in {"srf", "srffield"} => s.items[i].a # NoName
    /\ \A i, j \in DOMAIN s.items :
         i # j /\ s.items[i].a # NoName => s.items[i].a # s.items[j].a
    /\ s.wrap = "paren" => \A i, j \in DOMAIN s.items :
         i # j => PostgresColumns(s)[i] \cap PostgresColumns(s)[j] = {}
    /\ HasStar(s) => \A c \in SystemColumns : ~Mentions(s, c)

ClientColumnsKeepTheirNames ==
    outcome = "answered" =>
      /\ ClaimedList(asked.sel)
           => plan_collect_and_rename(stmt.sel) = PostgresColumns(asked.sel)
      /\ asked.sel.wrap = "derived" /\ WrittenAliases(asked.sel)
           => \A i, j \in DOMAIN stmt.sel.items :
                LET name(n) == output_column_name(stmt.sel.items[n])
                IN  i # j /\ name(i) # NoName => name(i) # name(j)

(* ORDER BY a bare name sorts by the output column that has it               *)
(* (resolve_order_by_names_to_output_positions).  Not claimed: beside a star, *)
(* outside parentheses, and the name PostgreSQL derives from a call.          *)
SortKeysAreOutputColumns ==
    (outcome = "answered" /\ ~HasStar(asked.sel) /\ asked.sel.wrap # "paren")
      => \A i \in DOMAIN asked.sel.order :
           LET key == asked.sel.order[i]
               p == PostgresSort(asked.sel, key.c)
           IN  (/\ key.k = "name" /\ p > 0
                /\ output_column_name(asked.sel.items[p]) # NoName)
                 => SortsBy(stmt.sel, stmt.sel.order[i]) = OutputAt(stmt.sel, p)

(* A SELECT returns as many rows as PostgreSQL's: GROUP BY is added to no     *)
(* list without an aggregate ("when its projection mixes aggregates with      *)
(* ungrouped columns", inject_group_by).                                      *)
RowsAreNotCollapsed ==
    (outcome = "answered" /\ PostgresAccepts(asked.sel))
      => RowCount(stmt.sel) = RowCount(asked.sel)

(* The same where every item reads a column the grouping finds, is constant   *)
(* or an aggregate, through rewrite_srf_to_unnest, inject_group_by and        *)
(* rewrite_group_by_for_any.                                                  *)
GroupingKeepsRows ==
    (/\ outcome = "answered" /\ PostgresAccepts(asked.sel)
     /\ \A i \in DOMAIN asked.sel.items :
          asked.sel.items[i].k \notin {"like", "litcast", "now", "any"})
      => RowCount(stmt.sel) = RowCount(asked.sel)

(* An array construct has the elements PostgreSQL gives it, for every array   *)
(* of the outer row.  Not claimed: a NULL array read bare, '{}', a sub-query  *)
(* over a table that finds no rows, duplicates in an index walk, constant     *)
(* NULL elements, and ORDER BY or LIMIT around a plain unnest.  A shape no    *)
(* pass documents may be refused, never answered wrongly.                     *)
ClaimedArray(a, v) ==
    /\ a.form = "array_call" =>
         /\ a.from = "table" => Arrays!SubqueryRows(a, v) # <<>>
         /\ a.from = "unnest" => /\ a.proj # "null" /\ a.clause # "newer"
                                 /\ a.proj = "unnest" => a.clause \notin {"order", "limit"}
                                 /\ a.proj \in {"element", "unnest"} => ~v.null
    /\ a.form = "brace" => a.l # <<>>
    /\ a.form = "index_walk" => Cardinality(ToSet(v.e)) = Len(v.e)

DocumentedArray(a) ==
    \/ /\ a.form = "array_call" /\ a.args = 1 /\ a.from = "unnest" /\ a.clause = "none"
       /\ \/ a.alias /\ a.proj \in {"element", "lit||x", "x||lit"}
          \/ ~a.qualified /\ a.proj = "unnest"
    \/ a.form = "array_call" /\ a.args = 1 /\ a.from = "table"
    \/ /\ a.form = "index_walk" /\ a.bound # "other" /\ a.dim = 1 /\ a.others /\ a.cmp = "="
       /\ ~a.uses
    \/ a.form \in {"brace", "array_upper"}
    \/ a.form = "tuple" /\ a.l # <<>> /\ Len(a.l) = Len(a.r)

ArraysKeepTheirElements ==
    outcome = "answered"
      => \A v \in RowArrays : ClaimedArray(asked.arr, v) =>
           Arrays!Planned(stmt.arr, v) \in
             {Arrays!Reference(asked.arr, v)}
               \cup (IF DocumentedArray(asked.arr) THEN {} ELSE {Arrays!Failed})
=============================================================================
