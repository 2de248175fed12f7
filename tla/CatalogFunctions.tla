-------------------------- MODULE CatalogFunctions --------------------------
(***************************************************************************)
(* The catalog functions of user_functions.rs and of                       *)
(* runtime_function_resolvers.rs while client queries call them.  A call   *)
(* gets one argument per row.  The functions over catalog rows collect the *)
(* distinct arguments and run ONE catalog query on a task of its own,      *)
(* blocking the thread they were called on (run_catalog_query); the        *)
(* resolver-backed ones ask a callback the host installed in a             *)
(* process-wide slot; format_type answers from rows captured when it was   *)
(* registered.  Meanwhile the host installs and clears resolvers, changes  *)
(* the objects its catalog source reports, and swaps the catalog tables    *)
(* for lazy ones (register_lazy_catalog: deregister, then register).       *)
(*                                                                         *)
(* A catalog query joins up to four lazy tables.  Each is looked up when   *)
(* the query is planned, and each of its scans asks the source anew, one   *)
(* schema or relation after another: the rows that are joined need not     *)
(* come from one moment, and any of those calls may fail.                  *)
(*                                                                         *)
(* SQL NULL, and Rust's None, are the empty set; a value x is {x}.         *)
(***************************************************************************)
EXTENDS Integers, FiniteSets, Sequences, SequencesExt

CONSTANTS
    Calls,      \* the calls of catalog functions that client queries make
    Requests,   \* Requests[c]: sequence of the [fn, args] it can have
    Loaded,     \* Loaded[t]: the built-in rows of catalog table t
    Catalogs,   \* Catalogs[v][t]: what the source answers about table t, call
                \* by call in the order a scan makes them; v counts its states
    LazyAtStart,\* the tables registered lazily before clients connect
    Installed,  \* those the host registers meanwhile, in its order
    Resolvers,  \* the callbacks the host installs: names, each with the
    Declined,   \* Declined[r] objects it answers None for
    AtStartup,  \* those it may have installed before the first query
    Flavors,    \* the kinds of runtime the client queries may be on
    Workers,    \* worker threads of a multi-threaded one
    Depth,      \* catalog queries, one in the other, a host's callback runs
    MaxInstalls \* how often the host sets or clears a slot

ASSUME WorkersAssumption ==
    Workers \in Nat \ {0} /\ Flavors \subseteq {"multi_thread", "current_thread"}
ASSUME ResolversAssumption == AtStartup \subseteq Resolvers

\* The tables read that can be served lazily; pg_authid cannot, and of pg_type
\* only the rows captured at registration are looked at.
LazyTables == {"pg_namespace", "pg_class", "pg_attribute", "pg_index", "pg_constraint"}
Tables == LazyTables \cup {"pg_type", "pg_authid"}

Oids(rows) == {r.oid : r \in rows}
RowsIn(v, t, n) == Catalogs[v][t][n].rows

\* An answer of the source is its rows, or an error: of its own, a schema
\* named twice, or more columns than can be numbered.
ASSUME CatalogsAssumption ==
    /\ Len(Catalogs) \in Nat \ {0} /\ DOMAIN Catalogs = 1 .. Len(Catalogs)
    /\ LazyAtStart \subseteq LazyTables
    /\ Installed \in Seq(LazyTables \ LazyAtStart)
    /\ DOMAIN Loaded = Tables /\ Oids(Loaded["pg_class"]) \subseteq Nat
    /\ \A v \in DOMAIN Catalogs : \A t \in LazyTables :
         /\ Len(Catalogs[1][t]) \in Nat
         /\ DOMAIN Catalogs[v][t] = 1 .. Len(Catalogs[1][t])
         /\ \A n \in DOMAIN Catalogs[v][t] :
              /\ Catalogs[v][t][n].ok \in BOOLEAN
              /\ t = "pg_class" => Oids(RowsIn(v, t, n)) \subseteq Nat

\* "keeping those OIDs stable and consistent across calls (so cross-table
\* joins resolve) is that source's job": an OID is one object's for good, and
\* always comes with the same call.
ASSUME HostsKeepOids ==
    \A t \in LazyTables \ {"pg_attribute"} : \A v, w \in DOMAIN Catalogs :
      \A m, n \in DOMAIN Catalogs[1][t] :
        \A x \in RowsIn(v, t, m), y \in RowsIn(w, t, n) : x.oid = y.oid =>
          m = n /\ (v = w => x = y) /\ x.oid \notin Oids(Loaded[t])

VARIABLES
    flavor,     \* of the runtime the client queries are on; a thread of no
                \* runtime takes the path of a single-threaded one
    provider,   \* each catalog table: "builtin", "missing" or "lazy"
    version,    \* the state of the host's source: an index of Catalogs
    slot,       \* slot[fn]: the installed resolver, or None
    installs,   \* how many times a slot was written
    stack,      \* stack[c]: the tasks of a call, each blocked on the next
    call,       \* call[c]: the local variables of the function
    seen        \* seen[c]: what the host showed while the call ran

vars == <<flavor, provider, version, slot, installs, stack, call, seen>>

None == {}

(***************************************************************************)
(* The functions, by where their answer comes from.                        *)
(***************************************************************************)
DefinitionFns == {"pg_get_viewdef", "pg_get_constraintdef"}
\* One of each shape: a scalar with a default, a flag, a row set.  The
\* argument of a function that has none is 0; the row set is one text.
RuntimeFns == {"pg_type_is_visible", "row_security_active", "pg_lock_status"}
LookupFns == {"pg_get_userbyid", "oid"}
SlotFns == DefinitionFns \cup RuntimeFns \cup {"pg_get_indexdef"}
Fns == SlotFns \cup LookupFns \cup {"format_type"}

\* A row has one argument, or NULL.
ASSUME RequestsAssumption ==
    \A c \in Calls : \A i \in DOMAIN Requests[c] :
       /\ Requests[c][i].fn \in Fns
       /\ \A j \in DOMAIN Requests[c][i].args :
            \A x, y \in Requests[c][i].args[j] : x = y

Text(by, of, name, columns) ==
    [by |-> by, of |-> of, name |-> name, columns |-> columns]

\* The tables of each query, by the alias they have in it; pg_class is joined
\* twice for an index.  pg_am, which no host can change, is left out.
Aliases == {"c", "i", "n", "x", "k", "a", "r"}
TableOf(a) ==
    CASE a \in {"c", "i"} -> "pg_class"
      [] a = "n" -> "pg_namespace"
      [] a = "x" -> "pg_index"
      [] a = "k" -> "pg_constraint"
      [] a = "a" -> "pg_attribute"
      [] a = "r" -> "pg_authid"

FirstQuery(fn) ==
    CASE fn = "pg_get_viewdef" -> {"c", "n"}
      [] fn = "pg_get_constraintdef" -> {"k", "c", "n"}
      [] fn = "pg_get_indexdef" -> {"x", "i", "c", "n"}
      [] fn = "pg_get_userbyid" -> {"r"}
      [] fn = "oid" -> {"c"}
      [] OTHER -> {}

\* The tables a function reads while it runs; pg_get_indexdef has a second
\* query.
TablesOf(fn) ==
    {TableOf(a) : a \in FirstQuery(fn)}
    \cup (IF fn = "pg_get_indexdef" THEN {"pg_attribute"} ELSE {})

\* What a row with a NULL argument, or with no resolver, answers.
Default(fn, null) ==
    CASE fn = "row_security_active" -> {Text("false", 0, "", <<>>)}
      [] fn = "pg_type_is_visible" /\ ~null -> {Text("true", 0, "", <<>>)}
      [] OTHER -> None

\* External: a resolver is a function of the identity it is given.
resolve(r, of, name) ==
    IF of \in Declined[r] THEN None ELSE {Text(r, of, name, <<>>)}

Distinct(c) == UNION Range(call[c].args)

(***************************************************************************)
(* What a scan serves when the source was in state vs[n] at its n-th call; *)
(* vs is empty for a table that is not a lazy one.  Two user rows of one   *)
(* key are an error, and a user row replaces the built-in one of its key   *)
(* (a namespace the one of its name).                                      *)
(***************************************************************************)
KeyOf(t, row) ==
    CASE t = "pg_class" -> <<row.ns, row.name>>
      [] t = "pg_attribute" -> <<row.relid, row.name>>
      [] OTHER -> <<row.oid>>
ShadowKeyOf(t, row) == IF t = "pg_namespace" THEN <<row.name>> ELSE KeyOf(t, row)

UserRows(t, vs) == UNION {RowsIn(vs[n], t, n) : n \in DOMAIN vs}
Served(t, vs) ==
    {b \in Loaded[t] : \A u \in UserRows(t, vs) :
                          ShadowKeyOf(t, u) # ShadowKeyOf(t, b)}
    \cup UserRows(t, vs)

Whole(t, vs) == Len(vs) = Len(Catalogs[1][t])
RepeatsKey(t, vs) ==
    \E m, n \in DOMAIN vs : \E x \in RowsIn(vs[m], t, m), y \in RowsIn(vs[n], t, n) :
      (m # n \/ x # y) /\ KeyOf(t, x) = KeyOf(t, y)
Refused(t, vs) ==
    \/ \E n \in DOMAIN vs : ~Catalogs[vs[n]][t][n].ok
    \/ Whole(t, vs) /\ RepeatsKey(t, vs)

(***************************************************************************)
(* The joins.  tabs[a] are the rows served for alias a; an object is in    *)
(* the result if the rows it refers to are there, and its identity is what *)
(* they name it.                                                           *)
(***************************************************************************)
RowAt(rows, o) == CHOOSE r \in rows : r.oid = o
InSchema(tabs, o) ==
    o \in Oids(tabs["c"]) /\ RowAt(tabs["c"], o).ns \in Oids(tabs["n"])
Qualified(tabs, o) ==
    LET rel == RowAt(tabs["c"], o) IN <<RowAt(tabs["n"], rel.ns).name, rel.name>>

On(tabs, fn) ==
    CASE fn = "pg_get_viewdef" ->
           {o \in Oids(tabs["c"]) :
              InSchema(tabs, o) /\ RowAt(tabs["c"], o).kind \in {"view", "matview"}}
      [] fn = "pg_get_constraintdef" ->
           {o \in Oids(tabs["k"]) : InSchema(tabs, RowAt(tabs["k"], o).relid)}
      [] fn = "pg_get_indexdef" ->
           {o \in Oids(tabs["x"]) \cap Oids(tabs["i"]) :
              InSchema(tabs, RowAt(tabs["x"], o).relid)}
      [] fn = "pg_get_userbyid" -> Oids(tabs["r"])
      [] fn = "oid" -> Oids(tabs["c"])

Identity(tabs, fn, o) ==
    CASE fn = "pg_get_viewdef" -> Qualified(tabs, o)
      [] fn = "pg_get_constraintdef" ->
           LET k == RowAt(tabs["k"], o) IN <<Qualified(tabs, k.relid), k.name>>
      [] fn = "pg_get_indexdef" ->
           <<Qualified(tabs, RowAt(tabs["x"], o).relid), RowAt(tabs["i"], o).name>>
      [] fn = "pg_get_userbyid" -> RowAt(tabs["r"], o).name
      [] fn = "oid" -> RowAt(tabs["c"], o).name

\* An index has a tree of expressions or predicates, or only key columns,
\* of which 0 stands for an expression.
IndexParts(tabs, o) ==
    LET x == RowAt(tabs["x"], o) IN [relid |-> x.relid, keys |-> x.keys]
IsPlain(tabs, o) == RowAt(tabs["x"], o).plain
ColumnNames(tabs, parts) ==
    [k \in Range(parts.keys) |->
       {r.name : r \in {col \in tabs["a"] : col.relid = parts.relid /\ col.num = k}}]

(***************************************************************************)
(* The runtimes.  block_in_place gives the worker back while its thread    *)
(* waits, and the thread goes on without one; a thread of any other        *)
(* runtime keeps what it has.                                              *)
(***************************************************************************)
on_multi_thread(rt) == rt = "fallback" \/ flavor = "multi_thread"

WorkersOf(rt) ==
    IF on_multi_thread(rt) THEN Workers ELSE 1

Busy(rt) == {p \in UNION {{c} \X DOMAIN stack[c] : c \in Calls} :
                LET f == stack[p[1]][p[2]] IN f.rt = rt /\ f.core}

Task(rt, pc) == [rt |-> rt, polled |-> FALSE, core |-> FALSE, pc |-> pc]
Top(c) == Last(stack[c])
At(c, pc) == stack[c] # <<>> /\ Top(c).polled /\ Top(c).pc = pc
Goto(c, pc) == [stack EXCEPT ![c][Len(stack[c])].pc = pc]

\* Block on the channel until the spawned task has answered, then go on at
\* `back`.
\* Mutant: block without block_in_place.
QueryKeepingWorker(c, pc, back) ==
    LET rt == IF on_multi_thread(Top(c).rt) THEN Top(c).rt ELSE "fallback"
        blocked == [Top(c) EXCEPT !.pc = back]
    IN stack' = [stack EXCEPT
                    ![c] = Front(stack[c]) \o <<blocked, Task(rt, pc)>>]
run_catalog_query(c, pc, back) ==
    LET own == Top(c).rt
        rt  == IF on_multi_thread(own) THEN own ELSE "fallback"
        blocked == [Top(c) EXCEPT
                      !.pc = back,
                      !.core = Top(c).core /\ ~on_multi_thread(own)]
    IN stack' = [stack EXCEPT
                    ![c] = Front(stack[c]) \o <<blocked, Task(rt, pc)>>]
-----------------------------------------------------------------------------
Init ==
    /\ flavor \in Flavors
    /\ provider = [t \in Tables |-> IF t \in LazyAtStart THEN "lazy" ELSE "builtin"]
    /\ version = 1
    /\ installs = 0
    /\ stack = [c \in Calls |-> <<>>]
    /\ \E i \in [Calls -> UNION {DOMAIN Requests[c] : c \in Calls}] :
         /\ \A c \in Calls : i[c] \in DOMAIN Requests[c]
         /\ call = [c \in Calls |->
              [fn |-> Requests[c][i[c]].fn, args |-> Requests[c][i[c]].args,
               scans |-> FirstQuery(Requests[c][i[c]].fn), bound |-> [t \in Tables |-> "no"],
               reads |-> [a \in Aliases |-> <<>>],
               resolver |-> None, found |-> <<>>, parsed |-> <<>>,
               todo |-> {}, text |-> <<>>,
               failed |-> FALSE, nested |-> 0]]
    /\ \E r \in {None} \cup {{x} : x \in AtStartup} :
         slot = [fn \in SlotFns |->
                   IF \E c \in Calls : call[c].fn = fn THEN r ELSE None]
    /\ seen = [c \in Calls |-> [slots |-> {}, shown |-> {}, missing |-> FALSE]]

Running(c) == stack[c] # <<>>
Invoked(c) == seen[c].slots # {}
Returned(c) == Invoked(c) /\ ~Running(c)

\* What the host has in place for a function: its resolver, and for each of
\* its tables the state of the source, or 0 for the built-in rows alone.
SlotShown(fn) == IF fn \in SlotFns THEN slot[fn] ELSE None
TablesShown(fn) ==
    {<<t, IF provider[t] = "lazy" THEN version ELSE 0>> :
        t \in {u \in TablesOf(fn) : provider[u] # "missing"}}
SomeMissing(fn) == \E t \in TablesOf(fn) : provider[t] = "missing"

\* A client's query is spawned and will call the function.
Invoke(c) ==
    /\ ~Invoked(c)
    /\ stack' = [stack EXCEPT ![c] = <<Task("host", "start")>>]
    /\ seen' = [seen EXCEPT ![c] =
         [slots |-> {SlotShown(call[c].fn)}, shown |-> TablesShown(call[c].fn),
          missing |-> SomeMissing(call[c].fn)]]
    /\ UNCHANGED <<flavor, provider, version, slot, installs, call>>

\* A worker of the task's runtime takes it up.
Poll(c) ==
    /\ Running(c) /\ ~Top(c).polled
    /\ Cardinality(Busy(Top(c).rt)) < WorkersOf(Top(c).rt)
    /\ stack' = [stack EXCEPT ![c][Len(stack[c])].polled = TRUE,
                              ![c][Len(stack[c])].core = TRUE]
    /\ UNCHANGED <<flavor, provider, version, slot, installs, call, seen>>

Unchanged == UNCHANGED <<flavor, provider, version, slot, installs, seen>>

(***************************************************************************)
(* pg_get_viewdef and pg_get_constraintdef read their slot first, query    *)
(* the identities only when a resolver is there and a row has an OID, and  *)
(* then ask that resolver row by row.                                      *)
(***************************************************************************)
GetResolver(c) ==
    /\ At(c, "start") /\ call[c].fn \in DefinitionFns
    /\ call' = [call EXCEPT ![c].resolver = slot[call[c].fn]]
    /\ IF slot[call[c].fn] = None \/ Distinct(c) = {}
       THEN stack' = Goto(c, "rows")
       ELSE run_catalog_query(c, "plan", "ask")
    /\ Unchanged

\* The resolver-backed functions that need no catalog query: the slot is read
\* once for all the rows, and the resolver asked for those with an argument.
AskEach(c) ==
    /\ LET fn == call[c].fn
           r  == slot[fn]
       IN call' = [call EXCEPT
            ![c].resolver = r,
            ![c].found = [o \in Distinct(c) |-> ""],
            ![c].text = [o \in Distinct(c) |-> Default(fn, FALSE)],
            ![c].todo = IF r = None THEN {} ELSE Distinct(c)]
    /\ stack' = Goto(c, "ask")
    /\ Unchanged

ScalarValues(c) ==
    At(c, "start") /\ call[c].fn = "pg_type_is_visible" /\ AskEach(c)

RowSecurityActive(c) ==
    At(c, "start") /\ call[c].fn = "row_security_active" /\ AskEach(c)

\* The rows are built while the client's query is planned.
TableRows(c) ==
    At(c, "start") /\ call[c].fn = "pg_lock_status" /\ AskEach(c)

\* format_type renders the rows captured at registration, before the lazy
\* tables were installed; an OID they do not have is rendered as a number.
FormatType(c) ==
    /\ At(c, "start") /\ call[c].fn = "format_type"
    /\ call' = [call EXCEPT ![c].text =
         [o \in Distinct(c) |->
            IF o \in Oids(Loaded["pg_type"])
            THEN {Text("catalog", o, RowAt(Loaded["pg_type"], o).name, <<>>)}
            ELSE {Text("unknown", o, "", <<>>)}]]
    /\ stack' = Goto(c, "rows")
    /\ Unchanged

\* The name of a reg* reference without its qualifier; "-" is no object.
parse_catalog_object_reference(a) == a.name
NamesAsked(c) ==
    {parse_catalog_object_reference(a) : a \in Distinct(c)} \ {"-"}

Keys(c) == IF call[c].fn = "oid" THEN NamesAsked(c) ELSE Distinct(c)

\* pg_get_userbyid, the name lookups and pg_get_indexdef: nothing to look up
\* means no query, an IN list would be empty.
\* Mutant: without the short-circuit.
QueryAlways(c) ==
    /\ At(c, "start") /\ call[c].fn \in LookupFns \cup {"pg_get_indexdef"}
    /\ run_catalog_query(c, "plan", "rows")
    /\ UNCHANGED call /\ Unchanged
Lookup(c) ==
    /\ At(c, "start") /\ call[c].fn \in LookupFns \cup {"pg_get_indexdef"}
    /\ IF Keys(c) = {} THEN stack' = Goto(c, "rows")
                       ELSE run_catalog_query(c, "plan", "rows")
    /\ UNCHANGED call /\ Unchanged

Fail(c) ==
    /\ call' = [call EXCEPT ![c].failed = TRUE]
    /\ stack' = Goto(c, "reply")

(***************************************************************************)
(* A catalog query: its tables are looked up one by one, and a scan of     *)
(* those that were lazy then asks the source call by call.  Scans run one  *)
(* after another, in an order that is DataFusion's.                        *)
(***************************************************************************)
Unbound(c) ==
    {t \in {TableOf(a) : a \in call[c].scans} : call[c].bound[t] = "no"}

\* A query over a table that is not registered does not plan, and neither
\* does one whose IN list is empty.
Plan(c) ==
    /\ At(c, "plan")
    /\ \/ Keys(c) = {} /\ Fail(c)
       \/ /\ Keys(c) # {}
          /\ \E t \in Unbound(c) :
               \/ provider[t] = "missing" /\ Fail(c)
               \/ /\ provider[t] # "missing"
                  /\ call' = [call EXCEPT ![c].bound[t] = provider[t]]
                  /\ stack' = IF Unbound(c) = {t} THEN Goto(c, "scan") ELSE stack
    /\ Unchanged

Unscanned(c) ==
    {a \in call[c].scans :
       call[c].bound[TableOf(a)] = "lazy" /\ ~Whole(TableOf(a), call[c].reads[a])}

\* The next call of the scan under way, or the first of another; an error,
\* or a key that is repeated when the scan has all its rows, ends the query.
AskSource(c) ==
    /\ At(c, "scan")
    /\ \E a \in Unscanned(c) :
         /\ \A b \in Unscanned(c) \ {a} : call[c].reads[b] = <<>>
         /\ LET read == Append(call[c].reads[a], version)
                refused == Refused(TableOf(a), read)
            IN /\ call' = [call EXCEPT ![c].reads[a] = read, ![c].failed = refused]
               /\ stack' = IF refused THEN Goto(c, "reply") ELSE stack
    /\ Unchanged

Scanned(c) == At(c, "scan") /\ Unscanned(c) = {}
Got(c) == [a \in Aliases |-> Served(TableOf(a), call[c].reads[a])]

fetch_view_identities(tabs, keys) ==
    [o \in On(tabs, "pg_get_viewdef") \cap keys |-> Identity(tabs, "pg_get_viewdef", o)]
fetch_constraint_identities(tabs, keys) ==
    [o \in On(tabs, "pg_get_constraintdef") \cap keys |->
       Identity(tabs, "pg_get_constraintdef", o)]
fetch_users_by_oids(tabs, keys) ==
    [o \in On(tabs, "pg_get_userbyid") \cap keys |-> Identity(tabs, "pg_get_userbyid", o)]

\* The lowest OID wins when several objects have the name.
fetch_oids_by_names(tabs, names) ==
    LET of(n) == {o \in On(tabs, "oid") : Identity(tabs, "oid", o) = n}
    IN [n \in {m \in names : of(m) # {}} |-> Min(of(n))]

\* All but pg_get_indexdef: the query's rows, keyed by what was asked for.
Join(c) ==
    /\ Scanned(c) /\ call[c].fn # "pg_get_indexdef"
    /\ stack' = Goto(c, "reply")
    /\ LET fn == call[c].fn
           found == CASE fn = "pg_get_viewdef" -> fetch_view_identities(Got(c), Keys(c))
                      [] fn = "pg_get_constraintdef" ->
                           fetch_constraint_identities(Got(c), Keys(c))
                      [] fn = "pg_get_userbyid" -> fetch_users_by_oids(Got(c), Keys(c))
                      [] fn = "oid" -> fetch_oids_by_names(Got(c), Keys(c))
           text(k) ==
             CASE fn \in DefinitionFns -> None
               [] fn = "pg_get_userbyid" ->
                    {IF k \in DOMAIN found THEN Text("catalog", k, found[k], <<>>)
                     ELSE Text("unknown", k, "", <<>>)}
               [] fn = "oid" -> IF k \in DOMAIN found
                                THEN {Text("catalog", found[k], "", <<>>)} ELSE None
       IN call' = [call EXCEPT
            ![c].found = found,
            ![c].todo = IF fn \in DefinitionFns THEN DOMAIN found ELSE {},
            ![c].text = [k \in Keys(c) |-> text(k)]]
    /\ Unchanged

\* pg_get_indexdef, first query: the identity of every index asked for, and
\* the parts of those with neither an expression nor a predicate tree; the
\* second query is left out when there are none.
JoinIndexParts(c) ==
    /\ Scanned(c) /\ call[c].fn = "pg_get_indexdef" /\ "a" \notin call[c].scans
    /\ LET found == On(Got(c), "pg_get_indexdef") \cap Keys(c)
           parsed == {o \in found : IsPlain(Got(c), o)}
       IN /\ call' = [call EXCEPT
               ![c].found = [o \in found |-> Identity(Got(c), "pg_get_indexdef", o)],
               ![c].parsed = [o \in parsed |-> IndexParts(Got(c), o)],
               ![c].text = [k \in Keys(c) |-> None],
               ![c].scans = IF parsed = {} THEN @ ELSE @ \cup {"a"}]
          /\ stack' = Goto(c, IF parsed = {} THEN "slot" ELSE "plan")
    /\ Unchanged

\* The CREATE INDEX text of a plain index: it has no expression among its
\* keys, and every key column has a name.
render_create_index_statement(o, name, keys, columns) ==
    IF \E i \in DOMAIN keys : keys[i] = 0 \/ columns[keys[i]] = None
    THEN None
    ELSE {Text("catalog", o, name,
               [i \in DOMAIN keys |-> CHOOSE n \in columns[keys[i]] : TRUE])}

\* Second query: the column names of those indexes' tables.
JoinAttributes(c) ==
    /\ Scanned(c) /\ call[c].fn = "pg_get_indexdef" /\ "a" \in call[c].scans
    /\ call' = [call EXCEPT ![c].text =
         [k \in Keys(c) |->
            IF k \in DOMAIN call[c].parsed
            THEN render_create_index_statement(
                   k, call[c].found[k], call[c].parsed[k].keys,
                   ColumnNames(Got(c), call[c].parsed[k]))
            ELSE None]]
    /\ stack' = Goto(c, "slot")
    /\ Unchanged

\* Still on the query's task, the resolver is asked about the indexes that
\* have no text yet.
GetIndexResolver(c) ==
    /\ At(c, "slot")
    /\ LET r == slot["pg_get_indexdef"]
       IN call' = [call EXCEPT
            ![c].resolver = r,
            ![c].todo = IF r = None THEN {}
                        ELSE {k \in DOMAIN call[c].found :
                                call[c].text[k] = None}]
    /\ stack' = Goto(c, "ask")
    /\ Unchanged

\* One call of the resolver that was cloned out of the slot; no lock is held.
\* Rows come in the query's order, indexes in that of a hash map: any order.
\* Mutant: the slot is read again for every row.
AskInstalled(c) ==
    /\ At(c, "ask") /\ call[c].todo # {}
    /\ \E k \in call[c].todo :
         call' = [call EXCEPT
            ![c].text[k] = UNION {resolve(r, k, call[c].found[k]) : r \in slot[call[c].fn]},
            ![c].todo = @ \ {k}]
    /\ UNCHANGED stack /\ Unchanged
Ask(c) ==
    /\ At(c, "ask") /\ call[c].todo # {}
    /\ \E k \in call[c].todo, r \in call[c].resolver :
         call' = [call EXCEPT
            ![c].text[k] = resolve(r, k, call[c].found[k]),
            ![c].todo = @ \ {k}]
    /\ UNCHANGED stack /\ Unchanged

Asked(c) ==
    /\ At(c, "ask") /\ call[c].todo = {}
    /\ stack' = Goto(c, IF Len(stack[c]) = 1 THEN "rows" ELSE "reply")
    /\ UNCHANGED call /\ Unchanged

\* External: a resolver may query the catalog itself, and such a query may
\* call a catalog function in turn.
NestedQuery(c) ==
    /\ \/ At(c, "nested")
       \/ At(c, "ask") /\ call[c].todo # {} /\ call[c].nested = 0
    /\ call[c].nested < Depth
    /\ call' = [call EXCEPT ![c].nested = @ + 1]
    /\ run_catalog_query(c, "nested", Top(c).pc)
    /\ Unchanged

EndNested(c) ==
    /\ At(c, "nested")
    /\ stack' = [stack EXCEPT ![c] = Front(@)]
    /\ UNCHANGED call /\ Unchanged

\* The task sends its result and ends; the caller's recv returns.
Reply(c) ==
    /\ At(c, "reply")
    /\ stack' = [stack EXCEPT ![c] = Front(@)]
    /\ UNCHANGED call /\ Unchanged

\* The function has built its rows and the client's query ends.
Return(c) ==
    /\ At(c, "rows")
    /\ stack' = [stack EXCEPT ![c] = <<>>]
    /\ UNCHANGED call /\ Unchanged

\* The rows built from the texts that were found.
Answer(c) ==
    LET fn == call[c].fn
        of(k) == IF k \in DOMAIN call[c].text THEN call[c].text[k] ELSE None
        row(a) ==
          IF fn # "oid" THEN of(a)
          ELSE IF parse_catalog_object_reference(a) = "-"
               THEN {Text("catalog", 0, "", <<>>)}
               ELSE of(parse_catalog_object_reference(a))
    IN [i \in DOMAIN call[c].args |->
          IF call[c].args[i] = None THEN Default(fn, TRUE)
          ELSE row(CHOOSE a \in call[c].args[i] : TRUE)]
-----------------------------------------------------------------------------
(***************************************************************************)
(* The host.                                                               *)
(***************************************************************************)
Witness ==
    seen' = [c \in Calls |->
       IF ~Running(c) THEN seen[c]
       ELSE [slots |-> seen[c].slots \cup {SlotShown(call[c].fn)'},
             shown |-> seen[c].shown \cup TablesShown(call[c].fn)',
             missing |-> seen[c].missing \/ SomeMissing(call[c].fn)']]

SetResolver(fn, r) ==
    /\ installs < MaxInstalls
    /\ slot' = [slot EXCEPT ![fn] = {r}]
    /\ installs' = installs + 1
    /\ UNCHANGED <<flavor, provider, version, stack, call>>
    /\ Witness

ClearResolver(fn) ==
    /\ installs < MaxInstalls /\ slot[fn] # None
    /\ slot' = [slot EXCEPT ![fn] = None]
    /\ installs' = installs + 1
    /\ UNCHANGED <<flavor, provider, version, stack, call>>
    /\ Witness

\* External: the source's objects change.
ChangeCatalog ==
    /\ version < Len(Catalogs)
    /\ version' = version + 1
    /\ UNCHANGED <<flavor, provider, slot, installs, stack, call>>
    /\ Witness

\* register_lazy_catalog takes its tables in turn; there is no such table
\* between the two calls.
DeregisterTable ==
    /\ \A t \in Tables : provider[t] # "missing"
    /\ \E k \in DOMAIN Installed :
         /\ \A j \in DOMAIN Installed : j < k <=> provider[Installed[j]] = "lazy"
         /\ provider' = [provider EXCEPT ![Installed[k]] = "missing"]
    /\ UNCHANGED <<flavor, version, slot, installs, stack, call>>
    /\ Witness

RegisterTable ==
    /\ \E t \in Tables : provider[t] = "missing"
                        /\ provider' = [provider EXCEPT ![t] = "lazy"]
    /\ UNCHANGED <<flavor, version, slot, installs, stack, call>>
    /\ Witness

Step(c) ==
    \/ Poll(c) \/ GetResolver(c)
    \/ ScalarValues(c) \/ RowSecurityActive(c) \/ TableRows(c)
    \/ FormatType(c) \/ Lookup(c) \/ Plan(c) \/ AskSource(c)
    \/ Join(c) \/ JoinIndexParts(c) \/ JoinAttributes(c)
    \/ GetIndexResolver(c) \/ Ask(c) \/ Asked(c)
    \/ EndNested(c) \/ Reply(c) \/ Return(c)

Host ==
    \/ \E c \in Calls :
         /\ call[c].fn \in SlotFns   \* no call reads the other slots
         /\ \/ ClearResolver(call[c].fn)
            \/ \E r \in Resolvers : SetResolver(call[c].fn, r)
    \/ ChangeCatalog \/ DeregisterTable \/ RegisterTable

Next ==
    \/ \E c \in Calls : Invoke(c) \/ Step(c) \/ NestedQuery(c)
    \/ Host

Spec ==
    /\ Init /\ [][Next]_vars
    /\ \A c \in Calls : WF_vars(Step(c))
-----------------------------------------------------------------------------
\* What PostgreSQL would answer for one argument, given one installed
\* resolver s and the rows tabs of the catalog tables.
Reference(fn, s, tabs, a) ==
    LET is == a \in On(tabs, fn)
        told == UNION {resolve(r, a, Identity(tabs, fn, a)) : r \in s}
    IN CASE fn \in DefinitionFns -> IF is THEN told ELSE None
         [] fn \in RuntimeFns ->
              IF s = None THEN Default(fn, FALSE)
              ELSE UNION {resolve(r, a, "") : r \in s}
         [] fn = "pg_get_indexdef" ->
              IF ~is THEN None
              ELSE LET parts == IndexParts(tabs, a)
                       columns == ColumnNames(tabs, parts)
                       named == \A i \in DOMAIN parts.keys :
                                  parts.keys[i] # 0 /\ columns[parts.keys[i]] # None
                   IN IF IsPlain(tabs, a) /\ named
                      THEN {Text("catalog", a, Identity(tabs, fn, a),
                                 [i \in DOMAIN parts.keys |->
                                    CHOOSE n \in columns[parts.keys[i]] : TRUE])}
                      ELSE told
         [] fn = "pg_get_userbyid" ->
              {IF is THEN Text("catalog", a, Identity(tabs, fn, a), <<>>)
               ELSE Text("unknown", a, "", <<>>)}
         [] fn = "oid" ->
              IF a.name = "-" THEN {Text("catalog", 0, "", <<>>)}
              ELSE {Text("catalog", o, "", <<>>) :
                      o \in {x \in On(tabs, fn) : Identity(tabs, fn, x) = a.name
                              /\ \A y \in On(tabs, fn) :
                                   Identity(tabs, fn, y) = a.name => x <= y}}

\* A call that made a query read every table of it, whole, and each part of
\* one from a state in which the host showed the table while the call ran.
ReadsWereShown(c) ==
    \/ \A a \in call[c].scans : call[c].bound[TableOf(a)] = "no"
    \/ \A a \in call[c].scans : LET t == TableOf(a) IN
         \/ /\ call[c].bound[t] = "builtin" /\ call[c].reads[a] = <<>>
            /\ <<t, 0>> \in seen[c].shown
         \/ /\ call[c].bound[t] = "lazy" /\ Whole(t, call[c].reads[a])
            /\ \A n \in DOMAIN call[c].reads[a] :
                 <<t, call[c].reads[a][n]>> \in seen[c].shown

\* All rows of an answer come from ONE resolver, that was installed at some
\* time during the call, and are what PostgreSQL answers over the catalog rows
\* the call read; and each answer of the source among these, and each table
\* that was not lazy, is of a moment during the call.  So over a source that
\* stands still, with no table swapped, all rows are of one state of the
\* catalog; and if it does not, a resolver replaced, or a catalog changed,
\* between the reading of the slot, the scans and the rows still never shows
\* the text of another object or half a column list, nor an identity but the
\* one the joined rows give (invoke_with_args of the functions).  format_type
\* is not among them: it does not know the host's types.
AnswersAreExplained ==
    \A c \in Calls : Returned(c) /\ ~call[c].failed /\ call[c].fn # "format_type" =>
       /\ ReadsWereShown(c)
       /\ \E s \in seen[c].slots : \A i \in DOMAIN call[c].args :
            Answer(c)[i] =
              (UNION {Reference(call[c].fn, s, Got(c), a) : a \in call[c].args[i]})
              \cup (IF call[c].args[i] = None
                    THEN Default(call[c].fn, TRUE) ELSE {})

\* A call fails only for a cause on the host's side: one of its tables was
\* unregistered while the call ran, or the source answered one of its scans
\* with an error or with two rows of one key.  No argument column, all NULL
\* and empty ones included, makes a query that cannot be planned (the
\* short-circuits of the fetch_* functions).
FailuresAreTheHosts ==
    \A c \in Calls : Returned(c) /\ call[c].failed =>
       \/ seen[c].missing
       \/ \E a \in call[c].scans :
            /\ Refused(TableOf(a), call[c].reads[a])
            /\ \A n \in DOMAIN call[c].reads[a] :
                 <<TableOf(a), call[c].reads[a][n]>> \in seen[c].shown

\* Every call returns (each is made once): however many calls block on
\* catalog queries, and however deep the host's callbacks nest them, on a
\* multi-threaded and on a single-threaded runtime, some worker is left for
\* the innermost query (run_catalog_query).
EveryCallReturns ==
    (\E c \in Calls : Running(c)) ~> (\A c \in Calls : ~Running(c))
=============================================================================
