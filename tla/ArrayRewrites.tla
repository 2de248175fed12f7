---------------------------- MODULE ArrayRewrites ----------------------------
(***************************************************************************)
(* The passes over array constructs and tuple comparisons.                 *)
(*                                                                         *)
(* A construct is a record; which fields count depends on its form:        *)
(*   array_call   ARRAY(SELECT proj FROM unnest(arr) [alias] clause), or    *)
(*                over a table (from = "table"), or array(x, ...) with args *)
(*   index_walk   FROM generate_series(0, array_upper(arr, dim)) s, others  *)
(*                WHERE x cmp arr[s]; uses: s is read elsewhere too         *)
(*   array_upper, brace ('{l}'), tuple ((l) = (r))                         *)
(* arr is a column of the enclosing query, read from the outer row; 0 is a  *)
(* NULL element and the array itself may be NULL.                          *)
(***************************************************************************)
EXTENDS Naturals, Sequences, FiniteSets, SequencesExt

Array(isnull, e) == [null |-> isnull, e |-> e]
NullArray == Array(TRUE, <<>>)
Failed == Array(TRUE, <<99>>)      \* no plan, or an error instead of a value
EmptyString == 9
Prefixed(x) == IF x = 0 THEN 0 ELSE 10 + x
Suffixed(x) == IF x = 0 THEN 0 ELSE 20 + x

---------------------------------------------------------------------------
(* The passes, in the order rewrite_filters runs them.                     *)

(* Only the bare keyword parses as UNNEST; pg_catalog.unnest is a call.    *)
IsUnnestFactor(a) == a.from = "unnest" /\ ~a.qualified

rewrite_available_updates(a) ==
    IF a.form = "array_call" /\ a.args = 1 /\ IsUnnestFactor(a)
       /\ a.proj = "unnest" /\ a.clause = "newer"
    THEN [a EXCEPT !.form = "null"] ELSE a

series_alias_and_indexed_array(a) ==
    a.form = "index_walk" /\ a.bound \in {"array_upper", "array_length"} /\ a.dim = 1

replace_index_comparisons_with_any(a) == a.cmp = "="
select_references_identifier(a) == a.uses

rewrite_array_index_iteration_to_any_comparison(a) ==
    IF /\ series_alias_and_indexed_array(a)
       /\ a.others
       /\ replace_index_comparisons_with_any(a)
       /\ ~select_references_identifier(a)
    THEN [a EXCEPT !.form = "any"] ELSE a

unnested_array_of_from_item(a) == a.from = "unnest" /\ a.alias

array_expression_for_array_over_unnest(a) ==
    CASE a.proj = "element" -> [a EXCEPT !.form = "array"]
      [] a.proj \in {"lit||x", "x||lit"} -> [a EXCEPT !.form = "wrap_array_elements_call"]
      [] OTHER -> a

rewrite_array_over_unnest_to_array_expression(a) ==
    IF a.form = "array_call" /\ a.args = 1 /\ a.clause = "none" /\ unnested_array_of_from_item(a)
    THEN array_expression_for_array_over_unnest(a) ELSE a

single_array_call_argument(a) == a.args = 1

\* Mutant: a WHERE is ignored too.
roundtrip_ignoring_where(a) ==
    CASE IsUnnestFactor(a) /\ a.proj = "unnest" -> [a EXCEPT !.form = "array"]
      [] IsUnnestFactor(a) /\ a.proj = "null" -> [a EXCEPT !.form = "null"]
      [] OTHER -> a

(* Of the clauses only a WHERE keeps the sub-query from being collapsed.   *)
unnest_roundtrip_replacement(a) ==
    LET collapses == IsUnnestFactor(a) /\ a.clause \notin {"where", "newer"}
    IN  CASE collapses /\ a.proj = "unnest" -> [a EXCEPT !.form = "array"]
          [] collapses /\ a.proj = "null" -> [a EXCEPT !.form = "null"]
          [] OTHER -> a

rewrite_array_subquery(a) ==
    CASE a.form # "array_call" -> a
      [] a.form = "array_call" /\ ~single_array_call_argument(a) -> [a EXCEPT !.form = "error"]
      [] OTHER -> IF unnest_roundtrip_replacement(a) # a
                  THEN unnest_roundtrip_replacement(a)
                  ELSE [a EXCEPT !.form = "pg_get_array"]

(* split(',') on the empty text yields one empty text.                     *)
rewrite_brace_array_literal(a) ==
    IF a.form # "brace" THEN a
    ELSE [a EXCEPT !.form = "array_literal",
                   !.l = IF @ = <<>> THEN <<EmptyString>> ELSE @]

rewrite_array_upper_to_array_length(a) ==
    CASE a.form = "array_upper" -> [a EXCEPT !.form = "array_length"]
      [] a.form = "index_walk" /\ a.bound = "array_upper" -> [a EXCEPT !.bound = "array_length"]
      [] OTHER -> a

rewrite_tuple_equality(a) ==
    IF a.form = "tuple" /\ Len(a.l) = Len(a.r) /\ a.l # <<>>
    THEN [a EXCEPT !.form = "conjunction"] ELSE a

---------------------------------------------------------------------------
(* What a construct evaluates to, given the outer row's array v.  For an   *)
(* index walk that is how often it selects 1 and 2; for a comparison, <<1>> *)
(* is true, <<2>> false, <<0>> NULL.                                       *)

Values == 1..2
Truth(b) == Array(FALSE, <<IF b THEN 1 ELSE 2>>)
Unknown == Array(FALSE, <<0>>)

Clause(c, e) ==
    CASE c = "none" -> e
      [] c \in {"where", "newer"} -> SelectSeq(e, LAMBDA x : x > 1)
      [] c = "order" -> SelectSeq(e, LAMBDA x : x = 1) \o SelectSeq(e, LAMBDA x : x = 2)
                          \o SelectSeq(e, LAMBDA x : x = 0)
      [] c = "limit" -> IF e = <<>> THEN e ELSE <<Head(e)>>

Mapped(proj, e) ==
    CASE proj \in {"element", "unnest"} -> e
      [] proj = "lit||x" -> [i \in DOMAIN e |-> Prefixed(e[i])]
      [] proj = "x||lit" -> [i \in DOMAIN e |-> Suffixed(e[i])]
      [] proj = "null" -> [i \in DOMAIN e |-> 0]
      [] proj = "f(x)" -> [i \in DOMAIN e |-> 30 + e[i]]

SubqueryRows(a, v) == Mapped(a.proj, Clause(a.clause, v.e))

IndexHits(a, v, x) ==
    {i \in DOMAIN v.e : v.e[i] # 0 /\ IF a.cmp = "=" THEN x = v.e[i] ELSE x < v.e[i]}

IndexWalk(a, v) == [x \in Values |-> Cardinality(IndexHits(a, v, x))]

RowEquality(l, r) ==
    LET pairs == {<<l[i], r[i]>> : i \in DOMAIN l}
    IN  CASE \E p \in pairs : 0 \notin {p[1], p[2]} /\ p[1] # p[2] -> Truth(FALSE)
          [] \A p \in pairs : 0 \notin {p[1], p[2]} /\ p[1] = p[2] -> Truth(TRUE)
          [] OTHER -> Unknown

(* pg_wrap_array_elements: a NULL array has no rows to unnest.              *)
pg_wrap_array_elements(a, v) == Array(FALSE, Mapped(a.proj, v.e))

(* ArrayCollector over the rows of the lifted sub-query: a LEFT JOIN that   *)
(* finds none still hands it one NULL.                                      *)
pg_get_array(rows) == Array(FALSE, IF rows = <<>> THEN <<0>> ELSE rows)

(* What PostgreSQL answers, by the client's construct.                     *)
Reference(a, v) ==
    CASE a.form = "array_call" -> Array(FALSE, SubqueryRows(a, v))
      [] a.form = "index_walk" -> Array(FALSE, IndexWalk(a, v))
      [] a.form = "brace" -> Array(FALSE, a.l)
      [] a.form = "tuple" -> IF Len(a.l) = Len(a.r) THEN RowEquality(a.l, a.r) ELSE Failed
      [] a.form = "array_upper" -> Array(FALSE, <<Len(v.e)>>)

(* What the planner makes of the rewritten construct.  A table function    *)
(* takes no argument from an outer row.                                    *)
Planned(a, v) ==
    CASE a.form = "array" -> v
      [] a.form = "wrap_array_elements_call" -> pg_wrap_array_elements(a, v)
      [] a.form = "pg_get_array" /\ a.from = "table" -> pg_get_array(SubqueryRows(a, v))
      [] a.form = "any" -> Array(FALSE, [x \in Values |-> IF x \in ToSet(v.e) THEN 1 ELSE 0])
      [] a.form = "null" -> NullArray
      [] a.form = "array_literal" -> Array(FALSE, a.l)
      [] a.form = "conjunction" -> RowEquality(a.l, a.r)
      [] a.form = "array_length" -> Array(FALSE, <<Len(v.e)>>)
      [] OTHER -> Failed

---------------------------------------------------------------------------
(* All of them run in rewrite_filters.                                     *)
rewrite_filters(a) ==
    rewrite_tuple_equality(
      rewrite_array_upper_to_array_length(
        rewrite_brace_array_literal(
          rewrite_array_subquery(
            rewrite_array_over_unnest_to_array_expression(
              rewrite_array_index_iteration_to_any_comparison(
                rewrite_available_updates(a)))))))

---------------------------------------------------------------------------
(* What a client may write, and what an outer row may hold.                *)

HasFields(a) ==
    a = [form |-> a.form, args |-> a.args, from |-> a.from, qualified |-> a.qualified,
         alias |-> a.alias, proj |-> a.proj, clause |-> a.clause, bound |-> a.bound,
         dim |-> a.dim, others |-> a.others, cmp |-> a.cmp, uses |-> a.uses,
         l |-> a.l, r |-> a.r]

IsConstruct(a) ==
    /\ HasFields(a)
    /\ a.form \in {"array_call", "index_walk", "brace", "tuple", "array_upper"}
    /\ a.from \in {"unnest", "table"}
    /\ a.proj \in {"element", "unnest", "lit||x", "x||lit", "null", "f(x)"}
    /\ a.clause \in {"none", "where", "newer", "order", "limit"}
    /\ a.bound \in {"array_upper", "array_length", "other"}
    /\ {a.qualified, a.alias, a.others, a.uses} \subseteq BOOLEAN

IsArray(v) ==
    v = Array(v.null, v.e) /\ v.null \in BOOLEAN /\ v.e \in Seq(Nat)
=============================================================================
