--------------------------- MODULE MCQueryRewrites ---------------------------
(* Small inputs for QueryRewrites: each statement varies one of its parts.   *)
EXTENDS QueryRewrites

\* Name 1 is carried in every catalog by another OID, 2 twice, 3 by nothing.
MCOids == [pg_class |-> <<{5}, {7, 8}, {}>>, pg_type |-> <<{6}, {5}, {}>>,
           pg_proc |-> <<{7}, {6, 9}, {}>>]
MCTables == {<<"pg_catalog", "pg_class">>, <<"pg_catalog", "pg_available_extensions">>,
             <<"information_schema", "tables">>, <<"public", "users">>, <<"public", "pg_class">>,
             <<"crm", "users">>}
MCTableFunctions == {"unnest", "generate_series", "pg_get_keywords",
                     "available_extension_versions", "pg_available_extensions"}
MCScalarFunctions == {<<"pg_catalog", f>> : f \in
    {"version", "current_user", "session_user", "current_role", "current_schema",
     "current_database"}}

\* Parts -------------------------------------------------------------------
Expr(b, steps) == [base |-> b, steps |-> steps]
Plain(k, v) == Expr(Casts!Base(k, v, FALSE), <<>>)
Cmp(l, op, r) == [l |-> l, op |-> op, r |-> r]
DefaultCmp == Cmp(Plain("number", 1), "=", Plain("number", 1))

TypeNames == {"oid", "regclass", "regtype", "regproc", "regprocedure", "regoper",
              "regoperator", "xid", "name", "char", "text", "anyarray"}
PgOnly == {"int2", "int4", "int8", "float4", "float8", "bool", "regnamespace"}
Domains == {"sql_identifier", "character_data", "yes_or_no", "cardinal_number", "time_stamp"}
ManySteps ==
    {Casts!Cast(Casts!Bare(n)) : n \in TypeNames \cup {"varchar"}}
    \cup {Casts!Cast(Casts!Pg(n)) : n \in TypeNames \cup PgOnly}
    \cup {Casts!Cast(Casts!Type("information_schema", n, FALSE)) : n \in Domains}
    \cup {Casts!Cast(Casts!Type("", n, TRUE)) : n \in {"oid", "name"}}
    \cup {Casts!Cast(Casts!Type("pg_catalog", "text", TRUE)), Casts!Collate(Casts!Pg("default")),
          Casts!Zone("utc"), Casts!RowCall("_pg_truetypid"), Casts!Paren}
FewSteps == {Casts!Cast(Casts!Bare(n)) : n \in {"oid", "regclass", "text", "varchar"}}
    \cup {Casts!Cast(Casts!Pg(n)) : n \in {"oid", "regclass", "regproc", "name", "xid"}}
Bases == {Casts!Base(k, 1, FALSE) : k \in {"lit", "number", "oidcol", "namecol", "regproccol",
                                           "arraycol", "array_agg"}}

Nested == {<<s>> : s \in ManySteps} \cup {<<s, t>> : s \in ManySteps, t \in FewSteps}
Operands == {Expr(b, steps) : b \in Bases, steps \in Nested}

LiteralSteps ==
    LET T(n) == {Casts!Cast(Casts!Bare(n)), Casts!Cast(Casts!Pg(n))}
    IN  {<<t>> : t \in T("regclass") \cup T("regtype")}
        \cup {<<t, Casts!Cast(Casts!Bare("oid"))>> : t \in T("regclass")}
        \cup {p \o <<t, o>> : p \in {<<>>, <<Casts!Paren>>}, t \in T("regproc"), o \in T("oid")}
Literals == {Expr(Casts!Base("lit", v, q), steps) :
               v \in 0..3, q \in BOOLEAN, steps \in {<<>>} \cup LiteralSteps}
Identifiers ==
    {Expr(Casts!Base(k, v, FALSE), steps) :
        k \in {"number", "param"}, v \in {0, 5, 6, 7}, steps \in {<<>>, <<Casts!Cast(Casts!Pg("oid"))>>}}
    \cup {Expr(Casts!Base("oidcol", v, FALSE), steps) :
            v \in {0, 5, 7}, steps \in {<<>>, <<Casts!Cast(Casts!Bare("regclass"))>>}}
    \cup {Expr(Casts!Base("regproccol", v, FALSE), steps) :
            v \in 0..2, steps \in {<<>>, <<Casts!Cast(Casts!Bare("oid"))>>}}
Comparisons ==
    <<{Cmp(l, op, Plain("number", 1)) : l \in Operands, op \in {"="}},
    {Cmp(l, "=", r) : l \in Identifiers, r \in Literals \cup Identifiers},
    {Cmp(Plain("boolcol", b), "=", Plain("boollit", c)) : b, c \in BOOLEAN},
    {Cmp(Plain("namecol", 1), "OPERATOR(pg_catalog.~)", Plain("lit", 1))}>>

\* Names
DefaultSt == [s |-> "", n |-> "pg_class", call |-> FALSE, place |-> "from",
              alias |-> FALSE, cols |-> FALSE, cte |-> FALSE, func |-> "", cast |-> "",
              spell |-> NoSpelling, path |-> <<"public">>, valid |-> TRUE, route |-> ""]
Places == {"from", "join", "derived", "union", "cte", "subquery", "exists", "in"}
Paths == {<<>>, <<"public">>, <<"$user", "pg_catalog">>, <<"public", "information_schema">>,
          <<"crm", "public", "pg_catalog">>}
TableNames == {[DefaultSt EXCEPT !.s = s, !.n = n, !.place = p, !.path = path, !.func = f, !.cte = c] :
                 s \in {"", "pg_catalog", "information_schema", "public"},
                 n \in {"pg_class", "tables", "users"}, p \in Places, path \in Paths,
                 f \in {"", "version", "host_function"}, c \in BOOLEAN}
CalledNames == {[DefaultSt EXCEPT !.s = s, !.n = n, !.call = TRUE, !.place = p, !.alias = a,
                                  !.cols = c, !.func = "version"] :
                 s \in {"", "pg_catalog"}, n \in PostgresFunctions, p \in Places,
                 a \in BOOLEAN, c \in BOOLEAN}
Spelled == {[DefaultSt EXCEPT !.n = n, !.cast = c,
                              !.spell = Spelling(w, q, p, d)] :
              n \in {"users", "pg_class"}, c \in {"", "custom", "regclass"},
              w \in DOMAIN IdentityValue, q \in BOOLEAN, p \in BOOLEAN, d \in BOOLEAN}
NamedStatements == <<TableNames, CalledNames, Spelled, {[DefaultSt EXCEPT !.valid = FALSE]}>>

\* Parameters
NoParam == [type |-> "none", null |-> FALSE, bytes |-> 0, utf8 |-> TRUE, value |-> 0, fmt |-> "binary"]
Params == {[type |-> t, null |-> n, bytes |-> b, utf8 |-> u, value |-> 1, fmt |-> f] :
             t \in DOMAIN PlannerType \cup {"bytea"}, n \in BOOLEAN, b \in {1, 2, 4, 8}, u \in BOOLEAN, f \in {"binary", "text"}}
\* Sub-queries: every form, with at most one of its flags unusual.
DefaultSub == [form |-> "scalar", pos |-> "projection", proj |-> "col", preds |-> {"k=k"},
               neg |-> FALSE, limit |-> FALSE, ordered |-> FALSE, distinct |-> FALSE,
               grouped |-> FALSE, left |-> TRUE, qualified |-> TRUE, known |-> TRUE,
               named |-> FALSE, inbody |-> FALSE, on |-> {}]
Conjuncts == {P \in SUBSET {"k=k", "k<k", "v=w", "v=1", "w=1"} : Cardinality(P) <= 2}
Shapes ==
    {[DefaultSub EXCEPT !.pos = pos, !.proj = proj, !.preds = P] :
       pos \in {"projection"}, proj \in {"col", "outer", "max", "count", "count+1"}, P \in Conjuncts}
    \cup {[DefaultSub EXCEPT !.pos = pos, !.proj = "cmp", !.preds = P] :
       pos \in {"projection", "filter", "not"}, P \in Conjuncts}
    \cup {[DefaultSub EXCEPT !.form = f, !.pos = pos, !.proj = proj, !.preds = P, !.neg = n] :
       f \in {"exists", "tuplein"}, pos \in {"filter", "not"}, proj \in {"one", "max"},
       P \in Conjuncts, n \in BOOLEAN}
    \cup {[DefaultSub EXCEPT !.form = "lateral", !.proj = proj, !.preds = P, !.left = l] :
       proj \in {"col", "max", "count", "count+1"}, P \in Conjuncts, l \in BOOLEAN}
Unusual(q) == {q, [q EXCEPT !.limit = TRUE, !.grouped = TRUE], [q EXCEPT !.limit = TRUE], [q EXCEPT !.limit = TRUE, !.ordered = TRUE],
               [q EXCEPT !.distinct = TRUE], [q EXCEPT !.qualified = FALSE],
               [q EXCEPT !.qualified = FALSE, !.known = FALSE], [q EXCEPT !.named = TRUE],
               [q EXCEPT !.inbody = TRUE]}
SubqueryInputs == UNION {Unusual(q) : q \in Shapes}

\* SELECT lists of one or two items, or three where two are set-returning.
I(k, c) == Item(k, c, NoName, "")
DefaultSel == [items |-> <<I("col", "oid")>>, order |-> <<>>, group |-> {}, source |-> "t",
               joined |-> FALSE, where |-> FALSE, wrap |-> "plain", aliases |-> {}]
Plainly == {I(k, c) : k \in {"col", "qcol"}, c \in {"oid", "kind"}}
    \cup {I("fn", "kind"), I("pair", "kind"), I("like", "kind"), I("litcast", ""), I("const", ""),
          I("now", ""), I("agg", ""), I("any", "arr"), I("star", ""), I("col", "xmin")}
Srfs == {Item("srf", "", NoName, "f")}
    \cup {Item("srffield", "n", NoName, call) : call \in {"f", "g"}}
Aliased == {[i EXCEPT !.a = Name(n, 0)] : i \in (Plainly \cup Srfs) \ {I("star", "")},
                                                 n \in {"oid", "x"}}
Items == Plainly \cup Srfs \cup Aliased
Orders == {<<>>, <<Key("name", "oid", 0)>>, <<Key("name", "x", 0)>>,
           <<Key("qual", "kind", 0)>>, <<Key("pos", "", 1)>>}
SelectInputs ==
    <<{[DefaultSel EXCEPT !.items = items, !.order = order, !.joined = j, !.wrap = w] :
       items \in {<<i>> : i \in Items} \cup (Items \X Items),
       order \in {<<>>, <<Key("name", "oid", 0)>>, <<Key("name", "x", 0)>>},
       j \in {FALSE}, w \in {"plain", "derived"}},
    {[DefaultSel EXCEPT !.items = <<p, i, j>>] : p \in Plainly, i, j \in Srfs},
    {[DefaultSel EXCEPT !.items = <<i>>, !.order = order, !.joined = j, !.wrap = w,
                             !.group = g, !.where = x] :
       i \in Items, order \in Orders, j \in BOOLEAN, w \in {"plain", "paren", "derived"},
       g \in {{}, {"kind"}}, x \in BOOLEAN}>>

\* Array constructs.
DefaultArr == [form |-> "brace", args |-> 1, from |-> "unnest", qualified |-> FALSE, alias |-> TRUE,
               proj |-> "element", clause |-> "none", bound |-> "array_upper", dim |-> 1,
               others |-> TRUE, cmp |-> "=", uses |-> FALSE, l |-> <<1>>, r |-> <<1>>]
ArrayInputs ==
    <<{[DefaultArr EXCEPT !.form = "array_call", !.args = n, !.from = f, !.qualified = q, !.alias = a,
                        !.proj = p, !.clause = c] :
       n \in 1..2, f \in {"unnest", "table"}, q \in BOOLEAN, a \in BOOLEAN,
       p \in {"element", "unnest", "lit||x", "x||lit", "null", "f(x)"},
       c \in {"none", "where", "newer", "order", "limit"}},
    {[DefaultArr EXCEPT !.form = "index_walk", !.bound = b, !.dim = d, !.others = o,
                             !.cmp = c, !.uses = u] :
       b \in {"array_upper", "array_length", "other"}, d \in 1..2, o \in BOOLEAN,
       c \in {"=", "<"}, u \in BOOLEAN},
    {[DefaultArr EXCEPT !.l = l] : l \in SeqOf(1..2, 2)},
    {[DefaultArr EXCEPT !.form = "array_upper"]},
    {[DefaultArr EXCEPT !.form = "tuple", !.l = l, !.r = r] : l, r \in SeqOf(0..2, 2) \ {<<>>}}>>

MCRowArrays == {Arrays!NullArray} \cup {Arrays!Array(FALSE, e) : e \in SeqOf(0..2, 2)}
MCDefault == [cmp |-> DefaultCmp, sub |-> DefaultSub, sel |-> DefaultSel, arr |-> DefaultArr,
              st |-> DefaultSt, param |-> NoParam]
MCVaried == [cmp |-> Comparisons, sub |-> <<SubqueryInputs>>, sel |-> SelectInputs,
             arr |-> ArrayInputs, st |-> NamedStatements, param |-> <<Params>>]
=============================================================================
