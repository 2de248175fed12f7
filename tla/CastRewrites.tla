---------------------------- MODULE CastRewrites ----------------------------
(***************************************************************************)
(* The passes of replace.rs that make PostgreSQL's casts plannable.        *)
(*                                                                         *)
(* An expression is an operand and the casts, calls and parentheses around *)
(* it, innermost first:                                                    *)
(*    'now'::pg_catalog.regproc::oid                                       *)
(*       = [base |-> literal, steps |-> <<Cast(pg regproc), Cast(oid)>>]   *)
(* A pass is a rewrite of one node; visit_expressions_mut visits children  *)
(* first, so a pass over the expression is a fold from the innermost step. *)
(* A type is its schema, its name and whether it is an array of them; an   *)
(* object name is a number (0 stands for "-", no object) and a flag q that *)
(* says whether it is written with its schema.                             *)
(***************************************************************************)
EXTENDS Naturals, Sequences, SequencesExt

CONSTANT Oids   \* Oids[table][name]: the OIDs of the rows that carry the name

Type(s, n, a) == [s |-> s, n |-> n, a |-> a]
Unqualified == ""
Bare(n) == Type(Unqualified, n, FALSE)
Pg(n) == Type("pg_catalog", n, FALSE)

Cast(t) == [op |-> "cast", t |-> t]
Call(f) == [op |-> "call", t |-> Bare(f)]
Paren == [op |-> "paren", t |-> Bare("()")]
Collate(t) == [op |-> "collate", t |-> t]
Zone(n) == [op |-> "zone", t |-> Bare(n)]          \* AT TIME ZONE 'n'
RowCall(f) == [op |-> "rowcall", t |-> Bare(f)]    \* f(a.*, t.*)

\* A base is an operand with no inner expression.
Base(k, v, q) == [k |-> k, v |-> v, q |-> q]
Columns == {"oidcol", "namecol", "regproccol", "boolcol", "arraycol"}

---------------------------------------------------------------------------
(* The node a pass looks at is the outermost step.                         *)

Operand(e) == [e EXCEPT !.steps = Front(@)]
Outer(e) == Last(e.steps)
Alone(e) == e.steps = <<>>
IsCast(e) == ~Alone(e) /\ Outer(e).op = "cast"
CastType(e) == Outer(e).t
WithType(e, t) == [e EXCEPT !.steps = Append(Front(@), Cast(t))]
CallOf(f, e) == [e EXCEPT !.steps = Append(@, Call(f))]
IsLiteral(e) == Alone(e) /\ e.base.k \in {"lit", "boollit"}

(* object_name_matches: the bare name or the pg_catalog-qualified one; an  *)
(* array type is not a custom type and never matches.                      *)
object_name_matches(t, name) ==
    ~t.a /\ t.n = name /\ t.s \in {Unqualified, "pg_catalog"}

(* Bare regclass is a keyword of the parser and not a custom type.         *)
is_regclass_type(t) == object_name_matches(t, "regclass")
is_string_literal_operand(e) ==   \* in any number of parentheses
    e.base.k \in {"lit", "boollit"} /\ \A i \in DOMAIN e.steps : e.steps[i] = Paren
names_a_resolvable_identifier(t) ==
    object_name_matches(t, "regclass") \/ object_name_matches(t, "regtype")

CastMatches(e, name) == IsCast(e) /\ object_name_matches(CastType(e), name)

rewrite_custom_type_cast_target(e, name, target) ==
    IF CastMatches(e, name) THEN WithType(e, Bare(target)) ELSE e

---------------------------------------------------------------------------
(* One operator per pass: what it makes of a node.                         *)

strip_default_collate(e) ==
    IF ~Alone(e) /\ Outer(e) = Collate(Pg("default")) THEN Operand(e) ELSE e

rewrite_time_zone_utc(e) ==
    IF ~Alone(e) /\ Outer(e) = Zone("utc")
    THEN [e EXCEPT !.steps = Append(Front(@), Zone("UTC"))] ELSE e

(* The row arguments become the three columns the function reads.          *)
rewrite_pg_truetypid_composite_args(e) ==
    IF ~Alone(e) /\ Outer(e) \in {RowCall("_pg_truetypid"), RowCall("_pg_truetypmod")}
    THEN CallOf(Outer(e).t.n, Operand(e)) ELSE e

rewrite_regoper_cast(e) ==
    IF CastMatches(e, "regoper")
    THEN [base |-> Base("null", 0, FALSE), steps |-> <<>>] ELSE e

rewrite_regoperator_cast(e) ==
    rewrite_custom_type_cast_target(e, "regoperator", "text")
rewrite_regprocedure_cast(e) ==
    rewrite_custom_type_cast_target(e, "regprocedure", "text")
rewrite_regproc_cast(e) == rewrite_custom_type_cast_target(e, "regproc", "text")
rewrite_regtype_cast(e) == rewrite_custom_type_cast_target(e, "regtype", "text")
rewrite_char_cast(e) == rewrite_custom_type_cast_target(e, "char", "char")
rewrite_xid_cast(e) == rewrite_custom_type_cast_target(e, "xid", "bigint")
rewrite_name_cast(e) == rewrite_custom_type_cast_target(e, "name", "text")

(* 'f'::regproc::oid is a lookup in pg_proc, in this shape only.           *)
resolve_regproc_literals_to_function_oids(e) ==
    IF /\ CastMatches(e, "oid")
       /\ CastMatches(Operand(e), "regproc")
       /\ is_string_literal_operand(Operand(Operand(e)))
    THEN CallOf("pg_proc_oid", Operand(Operand(e))) ELSE e

rewrite_schema_qualified_text(e) ==
    IF IsCast(e) /\ CastType(e) = Pg("text") THEN WithType(e, Bare("text")) ELSE e

datafusion_type_for ==
    LET Text == {"text", "regnamespace", "regtype", "regclass", "regproc", "regoper"}
    IN  [n \in Text \cup {"int2", "int4", "int8", "float4", "float8", "bool"} |->
           CASE n \in Text -> "text"
             [] n = "int2" -> "smallint" [] n = "int4" -> "int" [] n = "int8" -> "bigint"
             [] n = "float4" -> "real" [] n = "float8" -> "double precision"
             [] n = "bool" -> "boolean"]

\* Mutant: every operand of a resolvable type is left, not only literals.
qualified_types_of_literals_only(e) ==
    IF /\ IsCast(e)
       /\ CastType(e).s = "pg_catalog"
       /\ CastType(e).n \in DOMAIN datafusion_type_for
       /\ ~names_a_resolvable_identifier(CastType(e))
    THEN WithType(e, Type(Unqualified, datafusion_type_for[CastType(e).n], CastType(e).a))
    ELSE e

(* A literal that names a relation or a type is left to the passes that    *)
(* look it up; every other qualified type becomes one the planner knows.   *)
rewrite_schema_qualified_custom_types(e) ==
    IF /\ IsCast(e)
       /\ CastType(e).s = "pg_catalog"
       /\ CastType(e).n \in DOMAIN datafusion_type_for
       /\ ~(/\ is_string_literal_operand(Operand(e))
            /\ names_a_resolvable_identifier(CastType(e)))
    THEN WithType(e, Type(Unqualified, datafusion_type_for[CastType(e).n], CastType(e).a))
    ELSE e

information_schema_base_type ==
    LET Text == {"sql_identifier", "character_data", "yes_or_no"}
    IN  [n \in Text \cup {"cardinal_number", "time_stamp"} |->
           CASE n \in Text -> "text"
             [] n = "cardinal_number" -> "integer"
             [] n = "time_stamp" -> "timestamp"]

rewrite_information_schema_casts(e) ==
    CASE /\ IsCast(e)
         /\ CastType(e).s = "information_schema"
         /\ ~CastType(e).a
         /\ CastType(e).n \in DOMAIN information_schema_base_type
           -> WithType(e, Bare(information_schema_base_type[CastType(e).n]))
      [] IsCast(e) /\ CastType(e) = Bare("varchar") -> WithType(e, Bare("text"))
      [] OTHER -> e

(* 'r'::regclass is a lookup in pg_class; a bare ::oid around the lookup    *)
(* collapses into it.  The inner cast has been rewritten by the time the   *)
(* outer one is visited.                                                   *)
replace_regclass(e) ==
    CASE /\ IsCast(e) /\ CastType(e) = Bare("oid")
         /\ Len(e.steps) = 2 /\ Outer(Operand(e)) = Call("oid")
         /\ IsLiteral(Operand(Operand(e)))
           -> Operand(e)
      [] /\ IsCast(e) /\ is_regclass_type(CastType(e)) /\ IsLiteral(Operand(e))
           -> CallOf("oid", Operand(e))
      [] OTHER -> e

resolve_regtype_literals_to_type_oids(e) ==
    IF CastMatches(e, "regtype") /\ IsLiteral(Operand(e))
    THEN CallOf("pg_type_oid", Operand(e)) ELSE e

rewrite_text_backed_type_casts(e) ==
    CASE CastMatches(e, "anyarray") -> WithType(e, Bare("text"))
      [] /\ IsCast(e) /\ CastType(e).a
         /\ object_name_matches([CastType(e) EXCEPT !.a = FALSE], "name")
           -> WithType(e, Type(Unqualified, "text", TRUE))
      [] OTHER -> e

is_regproc_column(e) == Alone(e) /\ e.base.k = "regproccol"

\* Mutant: a regproc column is looked up among the relations.
oid_cast_of_any_column(e) ==
    IF ~CastMatches(e, "oid") THEN e
    ELSE IF Alone(Operand(e)) /\ e.base.k \in {"number", "param"} THEN WithType(e, Bare("bigint"))
    ELSE CallOf("oid", Operand(e))

(* An integer operand becomes BIGINT; every other one is taken for a name  *)
(* and looked up, in pg_proc for a regproc column and in pg_class else.     *)
rewrite_oid_cast(e) ==
    IF ~CastMatches(e, "oid") THEN e
    ELSE CASE Alone(Operand(e)) /\ e.base.k \in {"number", "param"}
                -> WithType(e, Bare("bigint"))
           [] is_regproc_column(Operand(e)) -> CallOf("pg_proc_oid", Operand(e))
           [] OTHER -> CallOf("oid", Operand(e))

drop_redundant_oid_and_regclass_casts(e) ==
    IF \/ /\ IsCast(e) /\ CastType(e) = Bare("regclass")
          /\ ~IsLiteral(Operand(e))
       \/ /\ IsCast(e) /\ CastType(e) = Bare("oid")
          /\ ~IsLiteral(Operand(e))
          /\ ~(Alone(Operand(e)) /\ e.base.k = "number")
    THEN Operand(e) ELSE e

drop_oid_array_cast(e) ==
    IF IsCast(e) /\ CastType(e) = Type(Unqualified, "oid", TRUE) THEN Operand(e) ELSE e

rewrite_array_agg_varchar_cast(e) ==
    IF /\ IsCast(e) /\ CastType(e).n \in {"varchar", "varchar(n)"}
       /\ Alone(Operand(e)) /\ e.base.k = "array_agg"
    THEN CallOf("array_to_string", Operand(e)) ELSE e

---------------------------------------------------------------------------
(* The passes over a comparison [l, op, r].                                *)

rewrite_pg_custom_operator(c) ==
    IF c.op = "OPERATOR(pg_catalog.~)" THEN [c EXCEPT !.op = "~"] ELSE c

is_text_literal(e) ==
    /\ e.base.k \in {"lit", "boollit"}
    /\ \A i \in DOMAIN e.steps : e.steps[i].op = "cast"

resolve_regproc_columns_to_oids_in_comparisons(c) ==
    LET Resolved(own, other) ==   \* own reads a regproc column
          IF is_regproc_column(other) THEN <<own, other>>
          ELSE <<CallOf("pg_proc_oid", own),
                 IF is_text_literal(other)
                 THEN CallOf("pg_proc_oid", other) ELSE other>>
    IN CASE c.op = "=" /\ is_regproc_column(c.l)
              -> [c EXCEPT !.l = Resolved(c.l, c.r)[1], !.r = Resolved(c.l, c.r)[2]]
         [] c.op = "=" /\ ~is_regproc_column(c.l) /\ is_regproc_column(c.r)
              -> [c EXCEPT !.l = Resolved(c.r, c.l)[2], !.r = Resolved(c.r, c.l)[1]]
         [] OTHER -> c

is_boolean_column(e) == Alone(e) /\ e.base.k = "boolcol"

(* The literals 't', 'f', ... are the boollits; other text is left alone.  *)
char_boolean_literal(e) ==
    IF Alone(e) /\ e.base.k = "boollit"
    THEN [e EXCEPT !.base.k = "boolean"] ELSE e

rewrite_boolean_column_char_comparisons(c) ==
    CASE c.op = "=" /\ is_boolean_column(c.l) -> [c EXCEPT !.r = char_boolean_literal(@)]
      [] c.op = "=" /\ ~is_boolean_column(c.l) /\ is_boolean_column(c.r)
           -> [c EXCEPT !.l = char_boolean_literal(@)]
      [] OTHER -> c

---------------------------------------------------------------------------
(* What the rewritten expression evaluates to.  Values are tagged: an      *)
(* integer, a text that is an object's name, any other text, a boolean.    *)

Val(k, v, q) == [k |-> k, v |-> v, q |-> q]
Null == Val("null", 0, FALSE)
Failure == Val("error", 0, FALSE)

parse_catalog_object_reference(v) == [v EXCEPT !.q = FALSE]

(* The lowest OID when several rows carry the name, NULL when none does.   *)
fetch_oids_by_names(table, name) ==
    LET found == Oids[table][name]
    IN  IF found = {} THEN Null
        ELSE Val("int", CHOOSE o \in found : \A p \in found : o <= p, FALSE)

LookupTable == [oid |-> "pg_class", pg_proc_oid |-> "pg_proc",
                pg_type_oid |-> "pg_type"]

(* The UDFs of register_name_to_oid_udf.  A number handed to one is read    *)
(* as a text no object is named by.                                        *)
name_to_oid(f, v) ==
    LET name == parse_catalog_object_reference(v)
    IN  CASE v.k \in {"int", "digits", "null"} -> Null
          [] v.k = "text" /\ name.v = 0 -> Val("int", 0, FALSE)
          [] v.k = "text" /\ name.v # 0 -> fetch_oids_by_names(LookupTable[f], name.v)
          [] OTHER -> Failure

ColumnValue(b) ==
    CASE b.k \in {"lit", "namecol", "regproccol"} -> Val("text", b.v, b.q)
      [] b.k \in {"number", "param", "oidcol"} -> Val("int", b.v, FALSE)
      [] b.k \in {"boolean", "boolcol"} -> Val("bool", b.v, FALSE)
      [] b.k = "null" -> Null
      [] OTHER -> Failure

StepValue(v, s) ==
    CASE s.op = "call" /\ s.t.n \in DOMAIN LookupTable -> name_to_oid(s.t.n, v)
      [] s.op = "paren" -> v
      [] s = Cast(Bare("bigint")) /\ v.k = "int" -> v
      [] s = Cast(Bare("text")) /\ v.k = "text" -> v
      [] s = Cast(Bare("text")) /\ v.k = "int" -> Val("digits", v.v, FALSE)
      [] OTHER -> Failure

Value(e) ==
    LET value[n \in 0..Len(e.steps)] ==
          IF n = 0 THEN ColumnValue(e.base) ELSE StepValue(value[n - 1], e.steps[n])
    IN  value[Len(e.steps)]

Compare(x, y) ==
    IF Failure \in {x, y} THEN "error"
    ELSE IF Null \in {x, y} THEN "null"
    ELSE IF x.k # y.k THEN "error"
    ELSE IF x = y THEN "true" ELSE "false"

---------------------------------------------------------------------------
(* A pass over a whole comparison: each operand is visited from the inside  *)
(* out, every node once (rewrite_each_expression).                          *)

Node(p, e) ==
    CASE p = "strip_default_collate" -> strip_default_collate(e)
      [] p = "rewrite_time_zone_utc" -> rewrite_time_zone_utc(e)
      [] p = "rewrite_regoper_cast" -> rewrite_regoper_cast(e)
      [] p = "rewrite_regoperator_cast" -> rewrite_regoperator_cast(e)
      [] p = "rewrite_regprocedure_cast" -> rewrite_regprocedure_cast(e)
      [] p = "resolve_regproc_literals" -> resolve_regproc_literals_to_function_oids(e)
      [] p = "rewrite_regproc_cast" -> rewrite_regproc_cast(e)
      [] p = "rewrite_schema_qualified_text" -> rewrite_schema_qualified_text(e)
      [] p = "rewrite_schema_qualified_custom_types" -> rewrite_schema_qualified_custom_types(e)
      [] p = "rewrite_pg_truetypid" -> rewrite_pg_truetypid_composite_args(e)
      [] p = "rewrite_information_schema_casts" -> rewrite_information_schema_casts(e)
      [] p = "rewrite_char_cast" -> rewrite_char_cast(e)
      [] p = "replace_regclass" -> replace_regclass(e)
      [] p = "resolve_regtype_literals" -> resolve_regtype_literals_to_type_oids(e)
      [] p = "rewrite_regtype_cast" -> rewrite_regtype_cast(e)
      [] p = "rewrite_xid_cast" -> rewrite_xid_cast(e)
      [] p = "rewrite_name_cast" -> rewrite_name_cast(e)
      [] p = "rewrite_text_backed_type_casts" -> rewrite_text_backed_type_casts(e)
      [] p = "rewrite_oid_cast" -> rewrite_oid_cast(e)
      [] p = "drop_redundant_oid_and_regclass_casts" -> drop_redundant_oid_and_regclass_casts(e)
      [] p = "drop_oid_array_cast" -> drop_oid_array_cast(e)
      [] p = "rewrite_array_agg_varchar_cast" -> rewrite_array_agg_varchar_cast(e)
      [] OTHER -> e

rewrite_each_expression(p, e) ==
    LET visited[n \in 0..Len(e.steps)] ==
          IF n = 0 THEN Node(p, [e EXCEPT !.steps = <<>>])
          ELSE Node(p, [visited[n - 1] EXCEPT !.steps = Append(@, e.steps[n])])
    IN  visited[Len(e.steps)]

(* The passes that look at casts and operators, in the order rewrite_filters *)
(* runs them.                                                              *)
Each(p, c) == [c EXCEPT !.l = rewrite_each_expression(p, @), !.r = rewrite_each_expression(p, @)]

collations_and_procedures(c) ==
    Each("rewrite_regproc_cast", Each("resolve_regproc_literals",
      Each("rewrite_regprocedure_cast", Each("rewrite_regoperator_cast",
        Each("rewrite_regoper_cast", Each("rewrite_time_zone_utc",
          Each("strip_default_collate", c)))))))

qualified_types(c) ==
    Each("rewrite_char_cast", Each("rewrite_information_schema_casts",
      Each("rewrite_pg_truetypid", Each("rewrite_schema_qualified_custom_types",
        Each("rewrite_schema_qualified_text", c)))))

catalog_types(c) ==
    Each("rewrite_oid_cast", Each("rewrite_text_backed_type_casts",
      Each("rewrite_name_cast", Each("rewrite_xid_cast",
        Each("rewrite_regtype_cast", Each("resolve_regtype_literals",
          Each("replace_regclass", c)))))))

redundant_casts(c) ==
    Each("rewrite_array_agg_varchar_cast", Each("drop_oid_array_cast",
      Each("drop_redundant_oid_and_regclass_casts", c)))

rewrite_filters(c) ==
    redundant_casts(
      rewrite_boolean_column_char_comparisons(
        resolve_regproc_columns_to_oids_in_comparisons(
          catalog_types(qualified_types(
            rewrite_pg_custom_operator(collations_and_procedures(c)))))))

---------------------------------------------------------------------------
(* What PostgreSQL makes of the client's comparison.  A name several rows  *)
(* carry may mean any of them; a name none carries is an error, and a       *)
(* regproc column holds the function's OID, not its name.                   *)

CatalogOf == [regclass |-> "pg_class", regtype |-> "pg_type", regproc |-> "pg_proc"]

Meanings(t, v) ==
    CASE v = 0 -> {Val("int", 0, FALSE)}
      [] v # 0 /\ Oids[CatalogOf[t]][v] = {} -> {Failure}
      [] OTHER -> {Val("int", o, FALSE) : o \in Oids[CatalogOf[t]][v]}

PostgresBase(b) ==
    CASE b.k = "regproccol" -> Meanings("regproc", b.v)
      [] b.k = "boollit" -> {Val("bool", b.v, FALSE)}   \* opposite a boolean
      [] OTHER -> {ColumnValue(b)}

PostgresStep(vs, s) ==
    CASE s.op = "paren" -> vs
      [] s.op = "cast" /\ s.t.n \in DOMAIN CatalogOf
           -> UNION {IF v.k = "text" THEN Meanings(s.t.n, v.v) ELSE {v} : v \in vs}
      [] s.op = "cast" /\ s.t.n = "oid" -> vs
      [] OTHER -> {Failure}

PostgresValues(e) ==
    LET values[n \in 0..Len(e.steps)] ==
          IF n = 0 THEN PostgresBase(e.base) ELSE PostgresStep(values[n - 1], e.steps[n])
    IN  values[Len(e.steps)]

(* An untyped literal opposite a regproc column is read as a regproc.      *)
PostgresComparisons(c) ==
    LET Side(own, other) ==
          IF IsLiteral(own) /\ own.base.k = "lit" /\ is_regproc_column(other)
          THEN Meanings("regproc", own.base.v) ELSE PostgresValues(own)
    IN  {Compare(x, y) : x \in Side(c.l, c.r), y \in Side(c.r, c.l)}

Answered(c) == Compare(Value(c.l), Value(c.r))

---------------------------------------------------------------------------
(* The shapes the passes are documented to resolve.                        *)

Spelled(n) == {Cast(Bare(n)), Cast(Pg(n))}
Under(n, e) == \E t \in Spelled(n) : e.steps = <<t>>
ResolvedShape(e) ==
    \/ e.base.k = "lit" /\ (Under("regclass", e) \/ Under("regtype", e))
    \/ e.base.k = "lit" /\ \E t \in Spelled("regclass") : e.steps = <<t, Cast(Bare("oid"))>>
    \/ /\ e.base.k = "lit" /\ Len(e.steps) >= 2
       /\ Outer(e) \in Spelled("oid") /\ Outer(Operand(e)) \in Spelled("regproc")
       /\ is_string_literal_operand(Operand(Operand(e)))
    \/ e.base.k \in {"regproccol", "number", "param"} /\ (Alone(e) \/ Under("oid", e))
    \/ e.base.k = "oidcol" /\ (Alone(e) \/ e.steps = <<Cast(Bare("regclass"))>>)

(* A comparison of two documented operands, of a regproc column with text, *)
(* or of a boolean column with a boolean literal.                          *)
DocumentedComparison(c) ==
    /\ c.op = "="
    /\ \/ ResolvedShape(c.l) /\ ResolvedShape(c.r)
       \/ is_regproc_column(c.l) /\ IsLiteral(c.r) /\ c.r.base.k = "lit"
       \/ is_boolean_column(c.l) /\ Alone(c.r) /\ c.r.base.k = "boollit"

(* The types the planner knows.                                            *)
PlannableTypes == {"text", "char", "smallint", "int", "integer", "bigint", "real",
                   "double precision", "boolean", "timestamp", "varchar"}
PlannableStep(s) ==
    CASE s.op = "cast" -> s.t.s = Unqualified /\ s.t.n \in PlannableTypes
      [] s.op = "collate" -> s.t.s # "pg_catalog"
      [] s.op = "zone" -> s.t.n = "UTC"
      [] s.op = "rowcall" -> FALSE
      [] OTHER -> TRUE
Plannable(e) == \A i \in DOMAIN e.steps : PlannableStep(e.steps[i])

(* The types the passes replace, bare or of pg_catalog; arrays are claimed  *)
(* for name[], oid[] and pg_catalog.text[] only.                            *)
CatalogTypes == {"oid", "regclass", "regtype", "regproc", "regprocedure", "regoper",
                 "regoperator", "xid", "name", "char", "anyarray"}
ClaimedType(t) ==
    \/ ~t.a /\ t.s = Unqualified /\ t.n \in CatalogTypes \cup PlannableTypes
    \/ ~t.a /\ t.s = "pg_catalog" /\ t.n \in CatalogTypes \cup DOMAIN datafusion_type_for
    \/ ~t.a /\ t.s = "information_schema" /\ t.n \in DOMAIN information_schema_base_type
    \/ t \in {Type(Unqualified, "oid", TRUE), Type(Unqualified, "name", TRUE),
              Type("pg_catalog", "text", TRUE)}
ClaimedStep(s) ==
    CASE s.op = "cast" -> ClaimedType(s.t)
      [] s.op = "collate" -> s.t = Pg("default") \/ s.t.s # "pg_catalog"
      [] s.op = "zone" -> s \in {Zone("utc"), Zone("UTC")}
      [] s.op = "rowcall" -> s \in {RowCall("_pg_truetypid"), RowCall("_pg_truetypmod")}
      [] OTHER -> TRUE

---------------------------------------------------------------------------
(* What a client may write.                                                *)

IsStep(s) == s = [op |-> s.op, t |-> Type(s.t.s, s.t.n, s.t.a)] /\ s.t.a \in BOOLEAN
IsOperand(e) ==
    /\ e = [base |-> Base(e.base.k, e.base.v, e.base.q), steps |-> e.steps]
    /\ e.base.k \in {"lit", "regproccol"}
         => e.base.v = 0 \/ \A table \in DOMAIN Oids : e.base.v \in DOMAIN Oids[table]
    /\ e.base.k # "lit" => e.base.q = FALSE
    /\ e.steps \in Seq(ToSet(e.steps)) /\ \A i \in DOMAIN e.steps : IsStep(e.steps[i])
IsComparison(c) == c = [l |-> c.l, op |-> c.op, r |-> c.r] /\ IsOperand(c.l) /\ IsOperand(c.r)
=============================================================================
