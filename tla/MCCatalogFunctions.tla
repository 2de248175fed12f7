------------------------- MODULE MCCatalogFunctions -------------------------
(***************************************************************************)
(* Two calls over a catalog whose built-in part is a table, a role and a   *)
(* type.  The host's source adds a schema with relations, indexes and a    *)
(* constraint.  Then it renames the schema, a view, a table, its column    *)
(* and an index, which takes the name of a view that is gone: read half in *)
(* one state, half in the other, pg_class repeats a key.  It drops the     *)
(* other column, and no longer answers about constraints.                  *)
(***************************************************************************)
EXTENDS CatalogFunctions

Rel(oid, ns, name, kind) == [oid |-> oid, ns |-> ns, name |-> name, kind |-> kind]
Idx(oid, keys, plain) == [oid |-> oid, relid |-> 2, keys |-> keys, plain |-> plain]
Col(num, name) == [relid |-> 2, num |-> num, name |-> name]
Named(oid, name) == [oid |-> oid, name |-> name]

\* 1, 10 views; 2 table; 4 functional index, 5 over two columns; 6 role;
\* 7 built-in type; 11 constraint; 12 built-in table; 20 built-in schema, 30
\* the host's
MCLoaded == [
    pg_namespace |-> {Named(20, "pg_catalog")},
    pg_class |-> {Rel(12, 20, "t", "table")},
    pg_type |-> {Named(7, "int4")},
    pg_attribute |-> {}, pg_index |-> {}, pg_constraint |-> {},
    pg_authid |-> {Named(6, "r")}]

Answered(rows) == [ok |-> TRUE, rows |-> rows]
Err == [ok |-> FALSE, rows |-> {}]

\* The calls of a scan: the relations and then the indexes of the schema.
MCCatalogs == <<
    [pg_namespace |-> <<Answered({Named(30, "s")})>>,
     pg_class |-> <<Answered({Rel(1, 30, "v", "view"), Rel(2, 30, "t", "table"),
                        Rel(10, 30, "m", "matview")}),
                    Answered({Rel(4, 30, "f", "index"), Rel(5, 30, "k", "index")})>>,
     pg_attribute |-> <<Answered({Col(1, "a"), Col(2, "b")})>>,
     pg_index |-> <<Answered({Idx(4, <<1>>, FALSE), Idx(5, <<2, 1>>, TRUE)})>>,
     pg_constraint |-> <<Answered({[oid |-> 11, relid |-> 2, name |-> "q"]})>>],
    [pg_namespace |-> <<Answered({Named(30, "u")})>>,
     pg_class |-> <<Answered({Rel(1, 30, "w", "view"), Rel(2, 30, "g", "table")}),
                    Answered({Rel(4, 30, "f", "index"), Rel(5, 30, "m", "index")})>>,
     pg_attribute |-> <<Answered({Col(1, "d")})>>,
     pg_index |-> <<Answered({Idx(4, <<1>>, FALSE), Idx(5, <<2, 1>>, TRUE)})>>,
     pg_constraint |-> <<Err>>]>>

MCInstalled == <<"pg_class">>

Call(fn, args) == [fn |-> fn, args |-> args]
Name(s, n) == {[schema |-> s, name |-> n]}

\* The second call contends for the workers.
MCRequests == [c1 |-> <<
    Call("pg_get_viewdef", <<{1}, {2}, {10}>>),
    Call("pg_get_constraintdef", <<{11}, None>>),
    Call("pg_get_indexdef", <<{4}, {5}>>),
    Call("pg_get_indexdef", <<None>>),
    Call("pg_get_userbyid", <<{6}, {1}, None>>),
    Call("oid", <<Name("", "t"), Name("s", "t"), Name("", "-"), None>>),
    Call("pg_type_is_visible", <<{7}, None>>),
    Call("row_security_active", <<{2}, None>>),
    Call("pg_lock_status", <<{0}>>),
    Call("format_type", <<{7}, {2}, None>>)>>,
    c2 |-> <<Call("pg_get_userbyid", <<{6}>>)>>]

MCDeclined == [r1 |-> {4}]
=============================================================================
