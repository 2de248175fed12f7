----------------------------- MODULE LazyCatalog -----------------------------
(***************************************************************************)
(* Queries over the catalog tables that LazyCatalogTableProvider serves.   *)
(* Every scan asks the live source again and merges the user rows into the *)
(* built-in ones captured when the provider was registered; nothing is     *)
(* cached, so the source may change between two scans of one query, and    *)
(* between two calls of one scan.                                          *)
(***************************************************************************)
EXTENDS CatalogSource, FiniteSets, Sequences

CONSTANTS
  Deployments, \* the ways hosts set their sources up (see Contents)
  Plans,       \* the sets of tables queries read
  Database,    \* the one database the context serves
  Builtin      \* Builtin[t]: the built-in rows of catalog table t

(***************************************************************************)
(* CatalogTable: the tables that are walked schema by schema, and those    *)
(* that are database-independent and are asked for in one call.            *)
(***************************************************************************)
WalkedTables == {"pg_namespace", "pg_class", "pg_type", "pg_attribute", "pg_attrdef",
                 "pg_index", "pg_constraint", "tables", "columns", "schemata"}
FlatTables == {"pg_database", "pg_config", "pg_settings"}
Tables == WalkedTables \cup FlatTables

ASSUME ServedTables ==
  /\ DOMAIN Builtin = Tables
  /\ \A d \in DOMAIN Deployments :
       /\ DOMAIN Deployments[d].contents \subseteq Nat
       /\ Deployments[d].combined \/ DOMAIN Deployments[d].contents = {1}
  /\ Plans \subseteq SUBSET Tables

(***************************************************************************)
(* The built-in rows as they are loaded refer to each other; those that    *)
(* refer to nothing (typrelid or conrelid 0) are left out.                 *)
(***************************************************************************)
ASSUME BuiltinIsConsistent ==
  LET oids(t) == {b.oid : b \in Builtin[t]}
  IN  /\ \A x, y \in Builtin["pg_namespace"] : (x.name = y.name \/ x.oid = y.oid) => x = y
      /\ \A b \in Builtin["pg_class"] \cup Builtin["pg_type"] : b.ns \in oids("pg_namespace")
      /\ \A t \in {"pg_type", "pg_attribute", "pg_index", "pg_constraint"} :
           \A b \in Builtin[t] : b.relid \in oids("pg_class")
      /\ oids("pg_index") \subseteq oids("pg_class")
      /\ \A b \in Builtin["pg_attrdef"] : \E a \in Builtin["pg_attribute"] :
           a.relid = b.relid /\ a.num = b.num
      /\ \A b \in Builtin["columns"] : \E r \in Builtin["tables"] :
           r.schema = b.schema /\ r.name = b.relation
      /\ \A b \in Builtin["tables"] : \E x \in Builtin["schemata"] : x.name = b.schema

\* The namespaces of built-in objects; `public` has none.
SystemNamespaces ==
  {n \in Builtin["pg_namespace"] :
     \E b \in Builtin["pg_class"] \cup Builtin["pg_type"] : b.ns = n.oid}

(***************************************************************************)
(* What the sources owe the layer, over what they hold at one time: "OIDs  *)
(* are still the sources' own [...]. Keeping them from colliding ACROSS    *)
(* sources is the host's responsibility, exactly as keeping one source's   *)
(* OIDs consistent always was"; only "the source that reported the         *)
(* relation" knows its columns; and "implementors return ONLY their own    *)
(* objects".  Names may collide freely.                                    *)
(***************************************************************************)
HostContract(l) ==
  /\ \A i, j \in DOMAIN l : \A kind \in {"relations", "indexes"} :
       \A x \in l[i][kind], y \in l[j][kind] : x.oid = y.oid => i = j /\ x = y
  /\ \A i \in DOMAIN l :
       /\ \A kind \in {"relations", "indexes"} : \A x \in l[i][kind] :
            \E j \in DOMAIN l : \E s \in l[j].schemas : s.db = x.db /\ s.name = x.schema
       /\ \A c \in l[i].columns : \E r \in l[i].relations :
            r.db = c.db /\ r.schema = c.schema /\ r.name = c.relation
       /\ \A kind \in {"indexes", "constraints"} : \A x \in l[i][kind] :
            \E r \in l[i].relations : r.db = x.db /\ r.oid = x.relid
       /\ \A r \in l[i].relations, b \in Builtin["pg_attribute"] : r.oid # b.relid
       /\ \A s \in l[i].schemas : s.db = Database =>
            /\ \A n \in Builtin["pg_namespace"] : s.oid = n.oid => s.name = n.name
            /\ \A n \in SystemNamespaces : s.oid # n.oid /\ s.name # n.name

\* What the sources of deployment d may hold at one time.
Holdings(d) ==
  LET contents == Deployments[d].contents
  IN  {l \in [DOMAIN contents -> UNION {contents[i] : i \in DOMAIN contents}] :
         \A i \in DOMAIN contents : l[i] \in contents[i]}

ASSUME HostsKeepTheirContract ==
  \A d \in DOMAIN Deployments : \A l \in Holdings(d) : HostContract(l)

VARIABLES
  deployed, \* the deployment of this process
  live,     \* the contents of each source now
  query,    \* "none", "running", "done" or "failed"
  pending,  \* the tables the query has still to scan
  scan,     \* the scan under way: its table, the schemas to visit, the rows
  served,   \* served[t]: the rows the query got from t
  stable    \* has no source changed since the query started?

vars == <<deployed, live, query, pending, scan, served, stable>>

\* What source i may hold, and whether a CombinedCatalogSource stands before
\* the sources or the only source is asked directly.
Contents == Deployments[deployed].contents
IsCombined == Deployments[deployed].combined

NoRows == [t \in Tables |-> {}]

\* No scan under way.
NoScan == [table |-> "none", todo |-> {}, rows |-> {}]

Init ==
  /\ deployed \in DOMAIN Deployments
  /\ live \in Holdings(deployed)
  /\ query = "none"
  /\ pending = {}
  /\ scan = NoScan
  /\ served = NoRows
  /\ stable = TRUE

-----------------------------------------------------------------------------
(* Rows, kept to the columns that are keys or references. *)

NamespaceRow(s) == [oid |-> s.oid, name |-> s.name]
ClassRow(r, s) == [oid |-> r.oid, ns |-> s.oid, name |-> r.name]
TypeRow(r, s) == [ns |-> s.oid, name |-> r.name, relid |-> r.oid]
AttributeRow(c, r) == [relid |-> r.oid, name |-> c.name, num |-> c.num]
AttrdefRow(c, r) == [relid |-> r.oid, num |-> c.num]
IndexRow(x) == [oid |-> x.oid, relid |-> x.relid]
ConstraintRow(c) == [oid |-> c.oid, ns |-> c.ns, relid |-> c.relid]
InfoTableRow(r, s) == [schema |-> s.name, name |-> r.name]
InfoColumnRow(c, r, s) == [schema |-> s.name, relation |-> r.name, name |-> c.name]

(***************************************************************************)
(* key_columns: what makes two user rows the same object.  The catalog     *)
(* name that is part of the information_schema keys is always Database.    *)
(* builtin_shadow_key_columns: which built-in row a user row replaces; a   *)
(* namespace is identified by OID and replaces by name.                    *)
(***************************************************************************)
KeyOf(t, row) ==
  CASE t \in {"pg_namespace", "pg_constraint", "pg_index"} -> <<row.oid>>
    [] t \in {"pg_class", "pg_type"}                       -> <<row.ns, row.name>>
    [] t = "pg_attribute"                                  -> <<row.relid, row.name>>
    [] t = "pg_attrdef"                                    -> <<row.relid, row.num>>
    [] t = "tables"                                        -> <<row.schema, row.name>>
    [] t = "columns"                                       -> <<row.schema, row.relation, row.name>>
    [] t \in FlatTables \cup {"schemata"}                  -> <<row.name>>

\* Mutant: a relation replaces a built-in one of its name in any schema.
ShadowByName(t, row) ==
  IF t \in {"pg_namespace", "pg_class"} THEN <<row.name>> ELSE KeyOf(t, row)

ShadowKeyOf(t, row) == IF t = "pg_namespace" THEN <<row.name>> ELSE KeyOf(t, row)

(***************************************************************************)
(* What collect_*_rows adds for one schema s of the database.  An index is *)
(* a relation too and gets its own pg_class row; the only answer that can  *)
(* be an error is the one about relations.                                 *)
(***************************************************************************)
RowsOfSchema(t, s) ==
  LET rels == Relations(live, IsCombined, Database, s.name)
      indexes == Indexes(live, IsCombined, Database, s.name).defs
      constraints == Constraints(live, IsCombined, Database, s.name).defs
      columns(r) == Columns(live, Database, s.name, r.name).defs
      eachRelation(rows(_)) == [rels EXCEPT !.defs = UNION {rows(r) : r \in @}]
      classRow(r) == {ClassRow(r, s)}
      typeRow(r) == {TypeRow(r, s)}
      attributeRows(r) == {AttributeRow(c, r) : c \in columns(r)}
      attrdefRows(r) == {AttrdefRow(c, r) : c \in {d \in columns(r) : d.default}}
      infoTableRow(r) == {InfoTableRow(r, s)}
      infoColumnRows(r) == {InfoColumnRow(c, r, s) : c \in columns(r)}
  IN  CASE t = "pg_namespace"  -> Ok({NamespaceRow(s)})
        [] t = "pg_class"      -> [eachRelation(classRow) EXCEPT
                                     !.defs = @ \cup {ClassRow(x, s) : x \in indexes}]
        [] t = "pg_type"       -> eachRelation(typeRow)
        [] t = "pg_attribute"  -> eachRelation(attributeRows)
        [] t = "pg_attrdef"    -> eachRelation(attrdefRows)
        [] t = "pg_index"      -> Ok({IndexRow(x) : x \in indexes})
        [] t = "pg_constraint" -> Ok({ConstraintRow(c) : c \in constraints})
        [] t = "tables"        -> eachRelation(infoTableRow)
        [] t = "columns"       -> eachRelation(infoColumnRows)
        [] t = "schemata"      -> Ok({[name |-> s.name]})

\* What collect_*_rows gives for a database-independent table.
RowsOfServer(t) ==
  CASE t = "pg_database" -> Databases(live, IsCombined)
    [] t = "pg_config"   -> Config(live, IsCombined)
    [] t = "pg_settings" -> Settings(live, IsCombined)

\* One row of user rows repeats another's key.
DuplicateKeys(t, rows) == \E x, y \in rows : x # y /\ KeyOf(t, x) = KeyOf(t, y)

\* The user rows win over the built-in rows they shadow.
Merged(t, rows) ==
  {b \in Builtin[t] : \A u \in rows : ShadowKeyOf(t, u) # ShadowKeyOf(t, b)} \cup rows

-----------------------------------------------------------------------------
\* A client sends a query that reads the given catalog tables.
StartQuery(tables) ==
  /\ query # "running"
  /\ query' = "running"
  /\ pending' = tables
  /\ served' = NoRows
  /\ stable' = TRUE
  /\ UNCHANGED <<deployed, live, scan>>

\* A scan returns an error, and with it the query.
Fail ==
  /\ query' = "failed"
  /\ pending' = {}
  /\ scan' = NoScan
  /\ UNCHANGED <<deployed, live, served, stable>>

\* build_rows_for, walked tables: fetch_schemas comes first ...
BeginScan(t) ==
  LET schemas == FetchSchemas(live, IsCombined, Database)
  IN  /\ query = "running" /\ scan = NoScan
      /\ t \in pending \cap WalkedTables
      /\ \/ ~schemas.ok /\ Fail
         \/ /\ schemas.ok
            /\ scan' = [table |-> t, todo |-> schemas.defs, rows |-> {}]
            /\ UNCHANGED <<deployed, live, query, pending, served, stable>>

\* ... and each schema's relations, columns, indexes or constraints after it.
VisitSchema(s) ==
  LET answer == RowsOfSchema(scan.table, s)
  IN  /\ scan # NoScan /\ s \in scan.todo
      /\ \/ ~answer.ok /\ Fail
         \/ /\ answer.ok
            /\ scan' = [scan EXCEPT !.todo = @ \ {s}, !.rows = @ \cup answer.defs]
            /\ UNCHANGED <<deployed, live, query, pending, served, stable>>

\* The rows of table t are all there: refuse repeated keys, merge, serve.
Serve(t, rows) ==
  \/ DuplicateKeys(t, rows) /\ Fail
  \/ /\ ~DuplicateKeys(t, rows)
     /\ served' = [served EXCEPT ![t] = Merged(t, rows)]
     /\ pending' = pending \ {t}
     /\ query' = IF pending = {t} THEN "done" ELSE query
     /\ scan' = NoScan
     /\ UNCHANGED <<deployed, live, stable>>

EndScan ==
  /\ scan # NoScan /\ scan.todo = {}
  /\ Serve(scan.table, scan.rows)

FlatScan(t) ==
  LET answer == RowsOfServer(t)
  IN  /\ query = "running" /\ scan = NoScan
      /\ t \in pending \cap FlatTables
      /\ \/ ~answer.ok /\ Fail
         \/ answer.ok /\ Serve(t, answer.defs)

\* A callback of a source returns an error: nothing of the scan is served.
SourceError ==
  /\ query = "running"
  /\ Fail

\* The host's objects change behind source i.
Change(i) ==
  /\ \E c \in Contents[i] : live' = [live EXCEPT ![i] = c]
  /\ stable' = FALSE
  /\ UNCHANGED <<deployed, query, pending, scan, served>>

Next ==
  \/ \E tables \in Plans : StartQuery(tables)
  \/ \E t \in Tables : BeginScan(t) \/ FlatScan(t)
  \/ scan # NoScan /\ \E s \in scan.todo : VisitSchema(s)
  \/ EndScan
  \/ SourceError
  \/ \E i \in DOMAIN Contents : Change(i)

Spec == Init /\ [][Next]_vars

-----------------------------------------------------------------------------
\* The query ran to its end over sources that stood still.
Undisturbed == query = "done" /\ stable

Oids(t) == {row.oid : row \in served[t]}
Read(tables) == \A t \in tables : served[t] # {}

(***************************************************************************)
(* The references between the tables of one query resolve, built-in rows   *)
(* included: pg_class and pg_type to pg_namespace; pg_type, pg_attribute,  *)
(* pg_index and pg_constraint to pg_class; pg_attrdef to pg_attribute; and *)
(* information_schema's columns to its tables to its schemata.  It is what *)
(* joins over the catalog need, and it takes the schema rows that survive  *)
(* the merge of several sources, the relations fetched by schema name, and *)
(* the shadowing of built-in rows to agree although each scan asks the     *)
(* sources anew.  And a reference resolves to one namespace: pg_namespace  *)
(* is keyed by OID but shadowed by name, and no mix of built-in, declared  *)
(* and live schemas may leave two rows for one schema.                     *)
(***************************************************************************)
ReferencesResolve ==
  /\ \A x, y \in served["pg_namespace"] :
       (x.name = y.name \/ x.oid = y.oid) => x = y
  /\ Undisturbed =>
      /\ Read({"pg_namespace"}) =>
           \A t \in {"pg_class", "pg_type"} : \A row \in served[t] :
             row.ns \in Oids("pg_namespace")
      /\ Read({"pg_class"}) =>
           /\ \A t \in {"pg_type", "pg_attribute", "pg_index", "pg_constraint"} :
                \A row \in served[t] : row.relid \in Oids("pg_class")
           /\ Oids("pg_index") \subseteq Oids("pg_class")
      /\ Read({"pg_attribute"}) =>
           \A row \in served["pg_attrdef"] : \E a \in served["pg_attribute"] :
             a.relid = row.relid /\ a.num = row.num
      /\ Read({"tables"}) =>
           \A row \in served["columns"] : \E r \in served["tables"] :
             r.schema = row.schema /\ r.name = row.relation
      /\ Read({"schemata"}) =>
           \A row \in served["tables"] : \E x \in served["schemata"] : x.name = row.schema

(***************************************************************************)
(* Collisions are loud: a query that got its answer over standing sources  *)
(* never chose between two relations, or two indexes, of one name in one   *)
(* schema, or two databases of one name.  Relations are refused when the   *)
(* sources are combined, indexes (which are told apart by OID there) when  *)
(* pg_class is merged.                                                     *)
(***************************************************************************)
CollisionsAreRefused ==
  Undisturbed =>
    /\ Read({"pg_class"}) =>
         \A i, j \in DOMAIN live : \A r \in live[i].relations, q \in live[j].relations :
           /\ r.db = Database
           /\ <<r.db, r.schema, r.name>> = <<q.db, q.schema, q.name>>
           => i = j /\ r = q
    /\ Read({"pg_class"}) =>
         \A i, j \in DOMAIN live : \A r \in live[i].indexes, q \in live[j].indexes :
           /\ r.db = Database
           /\ <<r.db, r.schema, r.name>> = <<q.db, q.schema, q.name>>
           => i = j /\ r = q
    /\ Read({"pg_database"}) =>
         \A i, j \in DOMAIN live : \A d \in live[i].databases, e \in live[j].databases :
           d.name = e.name => i = j /\ d = e

(***************************************************************************)
(* The columns served for a relation are the ones its own source gives,    *)
(* all of them: no list is interleaved with, or taken from, a source that  *)
(* did not report the relation; and only relations of the context's        *)
(* database are served.                                                    *)
(***************************************************************************)
ColumnsOf(i, r) ==
  {c.name : c \in {d \in live[i].columns :
                     <<d.db, d.schema, d.relation>> = <<r.db, r.schema, r.name>>}}

ColumnsFollowTheirRelation ==
  Undisturbed /\ Read({"pg_class", "pg_attribute"}) =>
    \A i \in DOMAIN live : \A r \in live[i].relations :
      {row.name : row \in {a \in served["pg_attribute"] : a.relid = r.oid}} =
        IF r.db = Database THEN ColumnsOf(i, r) ELSE {}
=============================================================================
