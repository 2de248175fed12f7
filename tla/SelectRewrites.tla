--------------------------- MODULE SelectRewrites ---------------------------
(***************************************************************************)
(* The passes over a SELECT list: which columns it has, what the client    *)
(* sees them called, what ORDER BY and GROUP BY make of them.              *)
(*                                                                         *)
(* A SELECT reads the relation t(oid, kind, arr, xmin), is the statement's *)
(* own body, that body in parentheses, or a derived table (wrap), and has: *)
(*   items   [k, c, a, s]: the kind of expression, the column it reads,    *)
(*           its alias (NoName when it has none), the SRF call it is about  *)
(*   order   its sort keys, by name, by qualified name or by position      *)
(*   group   the columns it groups by, {} when it has no GROUP BY          *)
(*   source  whether FROM is still t or the derived table __srf_src        *)
(*   joined  whether FROM carries the name oid twice                       *)
(*   where   whether WHERE mentions xmin                                   *)
(* Kinds: col, qcol (t.c), fn(c), pair (an operator over two columns),     *)
(* like (a predicate over c), litcast, const, now (a call that reads no    *)
(* column), agg, any ('r' = ANY(c)), star, srf, srffield; the passes make  *)
(* unnest, unnested, field and subscript of the last two.                  *)
(***************************************************************************)
EXTENDS Integers, Sequences, FiniteSets, SequencesExt

Name(n, i) == [n |-> n, i |-> i]     \* "n", or "n_i"
NoName == Name("", 0)
NoColumn == ""
Unnamed == Name("?column?", 0)
Item(k, c, a, s) == [k |-> k, c |-> c, a |-> a, s |-> s]
Key(k, c, p) == [k |-> k, c |-> c, p |-> p]

SystemColumns == {"xmin"}
StarColumns == {"oid", "kind", "xmin"}   \* no pass reorders them

---------------------------------------------------------------------------
(* rewrite_srf_to_unnest: (srf(x)).f reads one unnested column of a        *)
(* derived table; a SELECT about two different calls keeps its FROM.       *)

projection_srf_usage(s) ==
    {s.items[i].s : i \in {j \in DOMAIN s.items : s.items[j].k = "srffield"}}

read_srf_projections_from_unnested_column(item, call) ==
    CASE item.s = call /\ item.k = "srf" -> [item EXCEPT !.k = "unnested"]
      [] item.s = call /\ item.k = "srffield" -> [item EXCEPT !.k = "field"]
      [] OTHER -> item

wrap_in_unnest(item) == IF item.k = "srf" THEN [item EXCEPT !.k = "unnest"] ELSE item

(* A field access the rewrite has left alone becomes a subscript.          *)
convert_dot_field_to_subscript(item) ==
    IF item.k = "srffield" THEN [item EXCEPT !.k = "subscript"] ELSE item

EachItem(s, F(_)) == [s EXCEPT !.items = [i \in DOMAIN @ |-> F(@[i])]]

move_source_into_unnesting_derived_table(s) ==
    [s EXCEPT !.source = "__srf_src"]

rewrite_srf_to_unnest(s) ==
    LET calls == projection_srf_usage(s)
        call == CHOOSE c \in calls : TRUE
    IN  CASE calls = {} -> EachItem(s, wrap_in_unnest)
          [] Cardinality(calls) > 1 -> EachItem(s, convert_dot_field_to_subscript)
          [] OTHER -> move_source_into_unnesting_derived_table(
                        EachItem(s, LAMBDA item :
                          read_srf_projections_from_unnested_column(item, call)))

---------------------------------------------------------------------------
(* resolve_order_by_names_to_output_positions                              *)

\* Mutant: an alias does not hide the column's own name.
own_column_name(item) == IF item.k \in {"col", "qcol"} THEN Name(item.c, 0) ELSE item.a

output_column_name(item) ==
    CASE item.a # NoName -> item.a
      [] item.a = NoName /\ item.k \in {"col", "qcol"} -> Name(item.c, 0)
      [] OTHER -> NoName

HasStar(s) == \E i \in DOMAIN s.items : s.items[i].k = "star"
Named(s, n) == {i \in DOMAIN s.items : output_column_name(s.items[i]) = Name(n, 0)}

resolve_order_by_names_to_output_positions(s) ==
    IF HasStar(s) \/ s.wrap = "paren" THEN s   \* the key is outside the parentheses
    ELSE [s EXCEPT !.order = [i \in DOMAIN @ |->
            IF @[i].k = "name" /\ Named(s, @[i].c) # {}
            THEN Key("pos", NoColumn, Min(Named(s, @[i].c))) ELSE @[i]]]

---------------------------------------------------------------------------
(* disambiguate_duplicate_columns: below the top level the second and      *)
(* later x become x_2, x_3, ...; a parenthesised body counts as below it.  *)

dedup_projection(s) ==
    LET seen(i) == Cardinality({j \in 1..i : output_column_name(s.items[j])
                                               = output_column_name(s.items[i])})
        renamed(i) == LET name == output_column_name(s.items[i])
                      IN  IF name = NoName \/ seen(i) = 1 THEN s.items[i]
                          ELSE [s.items[i] EXCEPT !.a = Name(name.n, seen(i))]
    IN  [s EXCEPT !.items = [i \in DOMAIN @ |-> renamed(i)]]

disambiguate_duplicate_columns(s) ==
    IF s.wrap = "plain" THEN s ELSE dedup_projection(s)

---------------------------------------------------------------------------
(* alias_unnamed_columns: every unnamed column of the client's own list is *)
(* named alias_N, and alias_map says what to call it in the result.        *)

alias_name(item) ==
    CASE item.k \in {"col", "qcol"} -> Name(item.c, 0)
      [] item.k \in {"fn", "agg", "now", "unnest", "srf"} -> Name(item.k, 0)
      [] item.k = "unnested" -> Name("__srf_unnest", 0)
      [] item.k = "litcast" -> Name("text", 0)
      [] OTHER -> Unnamed

ToAlias(s) == {i \in DOMAIN s.items : s.items[i].a = NoName /\ s.items[i].k # "star"}
\* Mutant: the counter is not advanced.
NumberedOne(s, i) == Name("alias", 1)

Numbered(s, i) == Name("alias", Cardinality({j \in ToAlias(s) : j <= i}))

alias_projection(s) ==
    [s EXCEPT !.items = [i \in DOMAIN @ |->
                IF i \in ToAlias(s) THEN [@[i] EXCEPT !.a = Numbered(s, i)] ELSE @[i]],
              !.aliases = {[from |-> Numbered(s, i), to |-> alias_name(s.items[i])]
                             : i \in ToAlias(s)}]

alias_unnamed_columns(s) ==
    IF s.wrap \in {"plain", "paren"} THEN alias_projection(s) ELSE s

---------------------------------------------------------------------------
(* inject_group_by, the last step of rewrite_scalar_subqueries_to_ctes, and *)
(* rewrite_group_by_for_any after it.                                       *)

has_user_group_by(s) == s.group # {}
\* Mutant: only the in-place unnest is recognised.
has_call_marker(item) == item.k = "unnest"

has_srf_unnest_marker(item) == item.k \in {"unnest", "field", "subscript"}

(* The columns found outside aggregates; a predicate such as LIKE is not    *)
(* descended into.                                                         *)
collect_group_by_columns(item) ==
    CASE item.k \in {"col", "qcol", "fn"} -> <<item.c>>
      [] item.k = "pair" -> <<item.c, item.c>>
      [] OTHER -> <<>>

inject_group_by(s) ==
    LET found(i) == collect_group_by_columns(s.items[i])
        counted == {i \in DOMAIN s.items : s.items[i].k # "const"}
        cols == UNION {{<<i, j>> : j \in DOMAIN found(i)} : i \in counted}   \* each occurrence
        has_aggr == \E i \in DOMAIN s.items : s.items[i].k = "agg"
        mixes_plain_columns_with_aggregates == cols # {} /\ Cardinality(cols) < Cardinality(counted)
    IN  IF \/ has_user_group_by(s)
           \/ \E i \in DOMAIN s.items : has_srf_unnest_marker(s.items[i])
           \/ HasStar(s)
           \/ ~(has_aggr \/ mixes_plain_columns_with_aggregates)
        THEN s ELSE [s EXCEPT !.group = {found(o[1])[o[2]] : o \in cols}]

extract_any_column_name(s) == {s.items[i].c : i \in {j \in DOMAIN s.items : s.items[j].k = "any"}}

rewrite_group_by_for_any(s) ==
    IF s.wrap # "plain" \/ s.group = {} THEN s
    ELSE [s EXCEPT !.group = @ \cup extract_any_column_name(s)]

---------------------------------------------------------------------------
(* What the client receives.                                               *)

(* The planner's names of the output columns of each item; a derived       *)
(* table's columns are those of the SELECT in it.                          *)
PlannedColumns(s) ==
    [i \in DOMAIN s.items |->
        CASE s.items[i].k = "star" -> {Name(c, 0) : c \in StarColumns}
          [] s.items[i].k # "star" /\ s.items[i].a # NoName -> {s.items[i].a}
          [] OTHER -> {alias_name(s.items[i])}]

rename_columns(names, aliases) ==
    {IF \E m \in aliases : m.from = n
     THEN (CHOOSE m \in aliases : m.from = n).to ELSE n : n \in names}

(* The text of the statement contains the column's name.                   *)
Mentions(s, c) == s.where \/ \E i \in DOMAIN s.items :
                               s.items[i].k # "star" /\ c \in {s.items[i].c, s.items[i].a.n}

remove_virtual_system_columns(s, names) ==
    {n \in names : \A c \in SystemColumns : n = Name(c, 0) => Mentions(s, c)}

(* The columns are renamed first, so the test is on the client's names.    *)
plan_collect_and_rename(s) ==
    [i \in DOMAIN s.items |->
        remove_virtual_system_columns(s, rename_columns(PlannedColumns(s)[i], s.aliases))]

(* The source relation: two rows of one kind, and SRFs that yield two rows. *)
Rows == <<[oid |-> 1, kind |-> 1, arr |-> 1], [oid |-> 2, kind |-> 1, arr |-> 2]>>
Unnests(s) == \E i \in DOMAIN s.items :
                s.items[i].k \in {"srf", "srffield", "unnest", "unnested", "field", "subscript"}

RowCount(s) ==
    CASE s.group # {} -> Cardinality({[c \in s.group |-> Rows[i][c]] : i \in DOMAIN Rows})
      [] s.group = {} /\ (\E i \in DOMAIN s.items : s.items[i].k = "agg") -> 1
      [] OTHER -> Len(Rows) * (IF Unnests(s) THEN 2 ELSE 1)

(* What a sort key sorts by: an output expression or a column of FROM.     *)
OutputAt(s, i) == [k |-> s.items[i].k, c |-> s.items[i].c]
InputColumn(c) == [k |-> "input", c |-> c]
SortFailure == [k |-> "failure", c |-> ""]

SortsBy(s, key) ==
    CASE key.k = "pos" -> OutputAt(s, key.p)
      [] key.k = "name" /\ key.c = "oid" /\ s.joined -> SortFailure
      [] key.k = "qual" /\ s.source # "t" -> SortFailure
      [] OTHER -> InputColumn(key.c)

---------------------------------------------------------------------------
(* The order of the passes: before rewrite_filters, and in it.             *)
select_before_filters(s) == rewrite_srf_to_unnest(s)

select_in_filters(s) ==
    rewrite_group_by_for_any(
      inject_group_by(
        alias_unnamed_columns(
          disambiguate_duplicate_columns(
            resolve_order_by_names_to_output_positions(s)))))

---------------------------------------------------------------------------
(* What a client may write.                                                *)

ClientKinds == {"col", "qcol", "fn", "pair", "like", "litcast", "const", "now", "agg", "any",
                "star", "srf", "srffield"}

IsItem(item) ==
    /\ item = Item(item.k, item.c, item.a, item.s)
    /\ item.k \in ClientKinds
    /\ item.a = Name(item.a.n, item.a.i)
    /\ item.k = "star" => item.a = NoName

HasParts(s) ==
    s = [items |-> s.items, order |-> s.order, group |-> s.group, source |-> s.source,
         joined |-> s.joined, where |-> s.where, wrap |-> s.wrap, aliases |-> s.aliases]

IsSelect(s) ==
    /\ HasParts(s)
    /\ s.items \in Seq(ToSet(s.items)) /\ \A i \in DOMAIN s.items : IsItem(s.items[i])
    /\ s.order \in Seq(ToSet(s.order))
    /\ \A i \in DOMAIN s.order : s.order[i].k = "name" => s.order[i].c # NoColumn

---------------------------------------------------------------------------
(* PostgreSQL's reading of the client's list.                              *)

PostgresName(item) ==
    CASE item.a # NoName -> item.a
      [] item.a = NoName /\ item.k \in {"col", "qcol", "srffield"} -> Name(item.c, 0)
      [] item.a = NoName /\ item.k \in {"fn", "agg", "now", "srf"} -> Name(item.k, 0)
      [] item.a = NoName /\ item.k = "litcast" -> Name("text", 0)
      [] OTHER -> Unnamed

PostgresColumns(s) ==
    [i \in DOMAIN s.items |->
        IF s.items[i].k = "star" THEN {Name(c, 0) : c \in StarColumns \ SystemColumns}
        ELSE {PostgresName(s.items[i])}]

(* A grouped or aggregated list reads plain columns only if it groups by    *)
(* them; anything else PostgreSQL refuses.                                  *)
PlainColumns(item) ==
    IF item.k \in {"col", "qcol", "fn", "pair", "like", "any"} THEN {item.c} ELSE {}
IsAggregated(s) == s.group # {} \/ \E i \in DOMAIN s.items : s.items[i].k = "agg"
PostgresAccepts(s) ==
    IsAggregated(s) => /\ ~HasStar(s)
                     /\ \A i \in DOMAIN s.items : PlainColumns(s.items[i]) \subseteq s.group

(* What a bare name in ORDER BY sorts by: the output column of that name    *)
(* (0 when several differ), and failing that a column of FROM (-1).         *)
PostgresSort(s, c) ==
    LET hits == {i \in DOMAIN s.items : s.items[i].k # "star" /\ PostgresName(s.items[i]) = Name(c, 0)}
    IN  CASE hits = {} -> -1
          [] hits # {} /\ Cardinality({OutputAt(s, i) : i \in hits}) > 1 -> 0
          [] OTHER -> Min(hits)
=============================================================================
