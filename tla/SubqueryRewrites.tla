-------------------------- MODULE SubqueryRewrites --------------------------
(***************************************************************************)
(* The passes that give a correlated sub-query a form the planner takes.   *)
(*                                                                         *)
(* A query reads an outer row o = [k, w] and one sub-query over an inner   *)
(* relation, a sequence of rows t = [k, v]; 0 is NULL.  The record of a    *)
(* sub-query:                                                              *)
(*   form       scalar, exists, count, tuplein, lateral, and what the      *)
(*              passes make: grouped (an equi-join), cte (a lifted scalar) *)
(*   pos        where its value goes: projection, filter, not (negated)    *)
(*   proj       col (t.v), cmp (t.v = 1), outer (o.k), max, count, count+1 *)
(*   preds      its conjuncts: k=k and v=w compare both rows for equality,  *)
(*              k<k any other way, v=1 the inner row, w=1 the outer row     *)
(*   neg, limit, ordered, distinct, grouped, left                          *)
(*   qualified  whether outer columns are written with their table,        *)
(*   known      whether the embedded catalog declares every relation,      *)
(*   named      whether the projection has an alias of its own,            *)
(*   inbody     whether the query is the body of a lifted sub-query        *)
(* Answers is the set of results the query may have for one outer row.     *)
(***************************************************************************)
EXTENDS Integers, Sequences, FiniteSets, SequencesExt

Null == 0
False == -1
True == -2
Error == -3

Correlations == {"k=k", "k<k", "v=w"}
Aggregates == {"max", "maxcmp", "maxouter", "maxkey", "count", "count+1"}
correlated(q) == q.qualified /\ q.preds \cap Correlations # {}

Eq(a, b) == IF Null \in {a, b} THEN Null ELSE IF a = b THEN True ELSE False
Negation(b) == CASE b = True -> False [] b = False -> True [] OTHER -> b

Holds(p, o, t) ==
    CASE p = "k=k" -> Eq(t.k, o.k) = True
      [] p = "k<k" -> Null \notin {t.k, o.k} /\ t.k < o.k
      [] p = "v=w" -> Eq(t.v, o.w) = True
      [] p = "v=1" -> t.v = 1
      [] p = "w=1" -> o.w = 1

(* The positions of the rows that satisfy the conjuncts.                   *)
Matching(preds, o, T) == {i \in DOMAIN T : \A p \in preds : Holds(p, o, T[i])}

MaxOf(vs) == IF vs \subseteq {Null} THEN Null ELSE Max(vs)
MinOf(vs) == IF vs \subseteq {Null} THEN Null ELSE Min(vs \ {Null})

(* The values a sub-query yields for its matching rows, by their positions. *)
Projected(proj, o, T, rows) ==
    CASE proj = "col" -> [i \in rows |-> T[i].v]
      [] proj = "cmp" -> [i \in rows |-> Eq(T[i].v, 1)]
      [] proj = "one" -> [i \in rows |-> 1]
      [] proj = "outer" -> [i \in rows |-> o.k]
      [] proj = "key" -> [i \in rows |-> T[i].k]
      [] proj = "max" -> <<MaxOf({T[i].v : i \in rows})>>
      [] proj = "maxcmp" ->
           LET bs == {Eq(T[i].v, 1) : i \in rows}
           IN  <<IF True \in bs THEN True ELSE IF False \in bs THEN False ELSE Null>>
      [] proj = "maxouter" -> <<IF rows = {} THEN Null ELSE o.k>>
      [] proj = "maxkey" -> <<MaxOf({T[i].k : i \in rows})>>
      [] proj = "count" -> <<Cardinality(rows)>>
      [] proj = "count+1" -> <<Cardinality(rows) + 1>>

IsEmpty(values) == DOMAIN values = {}
IsSingle(values) == ~IsEmpty(values) /\ \A i, j \in DOMAIN values : i = j

(* LIMIT 1 leaves the first row of its order, and any row without one.     *)
Single(q, values) ==
    CASE IsEmpty(values) -> {Null}
      [] ~IsEmpty(values) /\ q.limit /\ q.ordered -> {MinOf(Range(values))}
      [] ~IsEmpty(values) /\ q.limit /\ ~q.ordered -> Range(values)
      [] IsSingle(values) /\ ~q.limit -> Range(values)
      [] OTHER -> {Error}

(* What the outer row contributes when the sub-query's value is b.         *)
Placed(pos, b) ==
    LET value == IF pos = "not" THEN Negation(b) ELSE b
    IN  CASE pos = "projection" -> <<b>>
          [] pos # "projection" /\ b = Error -> <<Error>>
          [] OTHER -> IF value = True THEN <<True>> ELSE <<>>

TupleIn(o, T, rows) ==
    LET each == {IF False \in {Eq(T[i].k, o.k), Eq(T[i].v, o.w)} THEN False
                 ELSE IF Null \in {Eq(T[i].k, o.k), Eq(T[i].v, o.w)} THEN Null
                 ELSE True : i \in rows}
    IN  CASE True \in each -> True
          [] True \notin each /\ Null \in each -> Null
          [] OTHER -> False

Truth(b) == IF b THEN True ELSE False
Signed(q, b) == IF q.neg THEN Negation(b) ELSE b

(* The rows of the lifted body that join the outer row: one per group of    *)
(* the join keys when it aggregates, one per row when it does not.         *)
CteRows(q, o, T) ==
    LET body == Matching(q.preds, o, T)
        joined == body \cap Matching(q.on, o, T)
        key(i) == <<IF q.on \cap {"k=k", "k<k"} # {} THEN T[i].k ELSE 0,
                    IF "v=w" \in q.on THEN T[i].v ELSE 0>>
        own(g) == {i \in body : key(i) = g}
    IN  CASE q.proj \notin Aggregates -> Projected(q.proj, o, T, joined)
          [] q.proj \in Aggregates /\ q.on \cap Correlations # {}
               -> [g \in {key(i) : i \in joined} |-> Projected(q.proj, o, T, own(g))[1]]
          [] OTHER -> IF q.on # {} /\ o.w # 1 THEN <<>> ELSE Projected(q.proj, o, T, body)

(* A join partner's value is the row's; several are several rows.           *)
CteAnswers(q, o, T) ==
    LET rows == CteRows(q, o, T)
        out_of_scope == \/ q.preds \cap (Correlations \cup {"w=1"}) # {}
                        \/ q.named
                        \/ q.proj \in {"outer", "maxouter"}
    IN  CASE out_of_scope -> {<<Error>>}
          [] ~out_of_scope /\ IsEmpty(rows) -> {<<IF q.proj = "count" THEN 0 ELSE Null>>}
          [] ~out_of_scope /\ IsSingle(rows) -> {<<v>> : v \in Range(rows)}
          [] OTHER -> {rows}

(* A LIMIT stays in the body, where it bounds the whole body.               *)
CteInputs(q, o, T) ==
    LET body == Matching(q.preds, o, T)
        first == MinOf({T[i].v : i \in body})
    IN  IF ~q.limit \/ q.proj \in Aggregates \/ body = {} THEN {T}
        ELSE {<<T[i]>> : i \in {j \in body : q.ordered => T[j].v = first}}

GroupedAnswer(q, o, T) ==
    LET own == Matching(q.on, o, T)   \* the group whose key joins the row
    IN  CASE own # {} -> Projected(q.proj, o, T, own)
          [] own = {} /\ q.left -> <<Null>>
          [] OTHER -> <<>>

Answers(q, o, T) ==
    LET rows == Matching(q.preds, o, T)
        values == Projected(q.proj, o, T, rows)
    IN  CASE q.form = "scalar" -> {Placed(q.pos, b) : b \in Single(q, values)}
          [] q.form = "exists" -> {Placed(q.pos, Signed(q, Truth(~IsEmpty(values))))}
          [] q.form = "count" -> {Placed(q.pos, Signed(q, Truth(rows # {})))}
          [] q.form = "tuplein" -> {Placed(q.pos, Signed(q, TupleIn(o, T, rows)))}
          [] q.form = "lateral" -> {IF IsEmpty(values) /\ q.left THEN <<Null>> ELSE values}
          [] q.form = "grouped" -> {GroupedAnswer(q, o, T)}
          [] q.form = "cte" -> UNION {CteAnswers(q, o, body) : body \in CteInputs(q, o, T)}

(* What a client can write.                                                *)
HasFields(q) ==
    q = [form |-> q.form, pos |-> q.pos, proj |-> q.proj, preds |-> q.preds, on |-> q.on,
         neg |-> q.neg, limit |-> q.limit, ordered |-> q.ordered, distinct |-> q.distinct,
         grouped |-> q.grouped, left |-> q.left, qualified |-> q.qualified,
         known |-> q.known, named |-> q.named, inbody |-> q.inbody]

IsSubquery(q) ==
    /\ HasFields(q)
    /\ {q.neg, q.limit, q.ordered, q.distinct, q.grouped, q.left, q.qualified, q.known,
        q.named, q.inbody} \subseteq BOOLEAN
    /\ q.form \in {"scalar", "exists", "tuplein", "lateral"} /\ q.on = {}
    /\ q.pos \in {"projection", "filter", "not"}
    /\ q.proj \in {"col", "cmp", "outer", "max", "count", "count+1"}
                    \cup (IF q.form = "scalar" THEN {} ELSE {"one"})
    /\ q.preds \subseteq Correlations \cup {"v=1", "w=1"}
    /\ q.neg => q.form \in {"exists", "tuplein"}

---------------------------------------------------------------------------
(* The passes, in the order rewrite_and_execute_sql runs them.             *)

limits_to_one_row_unordered(q) == q.limit /\ ~q.ordered
contains_aggregate_call(q) == q.proj \in Aggregates
references_outer_column(q) == correlated(q) \/ (q.qualified /\ "w=1" \in q.preds)

correlated_limit_one_projection(q) ==
    /\ limits_to_one_row_unordered(q)
    /\ ~q.distinct
    /\ ~q.grouped
    /\ ~contains_aggregate_call(q)
    /\ references_outer_column(q)

wrap_in_max(proj) == CASE proj = "col" -> "max" [] proj = "cmp" -> "maxcmp"
                       [] proj = "outer" -> "maxouter"

rewrite_correlated_limit_one_subquery_to_max(q) ==
    IF q.form = "scalar" /\ correlated_limit_one_projection(q)
    THEN [q EXCEPT !.proj = wrap_in_max(@), !.limit = FALSE, !.named = FALSE] ELSE q

is_joined_on_literal_true(q) == q.form = "lateral"   \* left or inner alike
expression_computes_aggregate(q) == q.proj \in Aggregates

\* Mutant: conjuncts that are no correlation are lost.
decorrelate_dropping_filters(q) ==
    IF /\ is_joined_on_literal_true(q) /\ ~q.grouped
       /\ q.preds \cap {"k=k", "v=w"} # {}
       /\ expression_computes_aggregate(q)
    THEN [q EXCEPT !.form = "grouped", !.on = q.preds \cap {"k=k", "v=w"}, !.preds = {}] ELSE q

decorrelate_lateral_aggregate_join(q) ==
    IF /\ is_joined_on_literal_true(q)
       /\ ~q.grouped
       /\ q.preds \in {{"k=k"}, {"v=w"}, {"v=1"}}
       /\ expression_computes_aggregate(q)
    THEN [q EXCEPT !.form = "grouped", !.on = q.preds, !.preds = {}] ELSE q

(* Outer columns written without their table are given it when the catalog *)
(* declares every relation on both sides.                                  *)
qualify_outer_columns_in_projection_subqueries(q) ==
    IF q.form = "scalar" /\ q.pos = "projection" /\ q.known
    THEN [q EXCEPT !.qualified = TRUE] ELSE q

collect_corr_preds(q) == IF q.qualified THEN q.preds \cap Correlations ELSE {}
outer_only(q) == IF q.qualified THEN q.preds \cap {"w=1"} ELSE {}
\* Mutant: predicates of the outer row alone stay in the lifted body.
strip_correlations_only(q) == q.preds \ collect_corr_preds(q)

strip_corr_filters(q) == q.preds \ (collect_corr_preds(q) \cup outer_only(q))

(* A reference to the outer k moves to the inner column it is paired with. *)
replace_outer_refs(q) ==
    IF collect_corr_preds(q) \cap {"k=k", "k<k"} = {} \/ q.named THEN q.proj
    ELSE CASE q.proj = "outer" -> "key" [] q.proj = "maxouter" -> "maxkey"
           [] OTHER -> q.proj

cleaned_subquery(q) ==
    [q EXCEPT !.form = "cte", !.on = collect_corr_preds(q) \cup outer_only(q),
              !.preds = strip_corr_filters(q), !.proj = replace_outer_refs(q)]

(* What still names an outer table once the sub-query is on its own.       *)
unresolved_outer_aliases(q) == q.qualified /\ cleaned_subquery(q).proj \in {"outer", "maxouter"}

analyse_scalar(q) ==
    /\ q.form = "scalar" /\ q.pos = "projection"
    /\ ~(q.inbody /\ collect_corr_preds(q) = {})
    /\ ~unresolved_outer_aliases(q)

rewrite_scalar_subqueries_to_ctes(q) ==
    LET r == qualify_outer_columns_in_projection_subqueries(q)
    IN  IF analyse_scalar(r) THEN cleaned_subquery(r) ELSE r

is_boolean_comparison(q) == q.proj = "cmp"

\* Mutant: the comparison is not moved into the filter.
boolean_scalar_without_filter(q) ==
    IF q.form = "scalar" /\ is_boolean_comparison(q) /\ ~q.grouped /\ ~q.distinct
    THEN [q EXCEPT !.form = "exists", !.proj = "one"] ELSE q

(* Any scalar sub-query that projects a comparison, wherever it stands.    *)
rewrite_boolean_scalar_subquery_to_exists(q) ==
    IF q.form = "scalar" /\ is_boolean_comparison(q) /\ ~q.grouped /\ ~q.distinct
    THEN [q EXCEPT !.form = "exists", !.proj = "one", !.preds = @ \cup {"v=1"}]
    ELSE q

rewrite_exists_to_count(q) ==
    IF q.form = "exists" /\ ~q.grouped
    THEN [q EXCEPT !.form = "count", !.proj = "count", !.distinct = FALSE] ELSE q

rewrite_tuple_in_subquery_to_exists(q) ==
    IF q.form = "tuplein"
    THEN [q EXCEPT !.form = "exists", !.proj = "one", !.preds = @ \cup {"k=k", "v=w"}]
    ELSE q

(* Their order: before rewrite_filters, in it, and after it.               *)
subquery_before_filters(q) == rewrite_correlated_limit_one_subquery_to_max(q)

subquery_in_filters(q) ==
    rewrite_scalar_subqueries_to_ctes(decorrelate_lateral_aggregate_join(q))

subquery_after_filters(q) ==
    rewrite_tuple_in_subquery_to_exists(
      rewrite_exists_to_count(rewrite_boolean_scalar_subquery_to_exists(q)))

---------------------------------------------------------------------------
(* Whether a rewritten sub-query answers as the client's does, for every    *)
(* outer row and every inner relation of at most two rows; where            *)
(* PostgreSQL raises (two rows for a scalar) any answer will do.            *)

OuterRows == [k : 1..2, w : 0..2]
Relations == SeqOf([k : 1..2, v : 0..2], 2)

Agrees(asked, q, o, T) ==
    <<Error>> \in Answers(asked, o, T) \/ Answers(q, o, T) \subseteq Answers(asked, o, T)

Faithful(asked, q) == \A o \in OuterRows, T \in Relations : Agrees(asked, q, o, T)

NullFree(o, T) == o.w # Null /\ \A i \in DOMAIN T : T[i].v # Null
FaithfulWithoutNulls(asked, q) ==
    \A o \in OuterRows, T \in Relations : NullFree(o, T) => Agrees(asked, q, o, T)
=============================================================================
