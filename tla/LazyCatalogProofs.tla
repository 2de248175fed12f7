-------------------------- MODULE LazyCatalogProofs --------------------------
(***************************************************************************)
(* Proofs about LazyCatalog for any deployments whose sources keep the     *)
(* host's contract, any built-in rows that are consistent and any queries. *)
(***************************************************************************)
EXTENDS LazyCatalog, TLAPS, WellFoundedInduction

(* The schemas a scan would fetch now, and the rows table t would get.     *)
Fetched == FetchSchemas(live, IsCombined, Database)

UserRows(t) ==
  IF t \in WalkedTables THEN UNION {RowsOfSchema(t, s).defs : s \in Fetched.defs}
                        ELSE RowsOfServer(t).defs

(* Nothing the sources would answer now is an error, and no key repeats.   *)
Answerable(t) ==
  /\ t \in WalkedTables => Fetched.ok /\ \A s \in Fetched.defs : RowsOfSchema(t, s).ok
  /\ t \in FlatTables => RowsOfServer(t).ok
  /\ ~DuplicateKeys(t, UserRows(t))

(* Table t was served exactly as the sources define it now.                *)
Faithful(t) == Answerable(t) /\ served[t] = Merged(t, UserRows(t))

TypeInv ==
  /\ deployed \in DOMAIN Deployments /\ live \in Holdings(deployed)
  /\ pending \subseteq Tables /\ DOMAIN served = Tables

(* The scan under way has what the schemas already visited give.           *)
Visited == Fetched.defs \ scan.todo

ScanInv ==
  scan # NoScan =>
    /\ query = "running" /\ scan.table \in WalkedTables
    /\ scan = [table |-> scan.table, todo |-> scan.todo, rows |-> scan.rows]
    /\ stable =>
         /\ Fetched.ok /\ scan.todo \subseteq Fetched.defs
         /\ \A s \in Visited : RowsOfSchema(scan.table, s).ok
         /\ scan.rows = UNION {RowsOfSchema(scan.table, s).defs : s \in Visited}

ServedInv ==
  query \in {"running", "done"} /\ stable =>
    \A t \in Tables : served[t] # {} => Faithful(t)

(* A namespace of a source is none of the system's, and takes the OID of a *)
(* built-in one only with its name.                                        *)
NoSystemNamespace(x) ==
  \A n \in Builtin["pg_namespace"] : x.oid = n.oid => x.name = n.name

(* A scan of pg_namespace has one name once, whatever the sources do       *)
(* while it goes on.                                                       *)
NamespaceScanInv ==
  scan.table = "pg_namespace" =>
    /\ \A s \in scan.todo : NoSystemNamespace(s)
    /\ \A x \in scan.rows : NoSystemNamespace(x)
    /\ \A s, t \in scan.todo : s.name = t.name => s = t
    /\ \A x, y \in scan.rows : x.name = y.name => x = y
    /\ \A x \in scan.rows, s \in scan.todo : x.name # s.name

NamespacesAreOne ==
  \A x, y \in served["pg_namespace"] : (x.name = y.name \/ x.oid = y.oid) => x = y

IInv == TypeInv /\ ScanInv /\ ServedInv /\ NamespaceScanInv /\ NamespacesAreOne

-----------------------------------------------------------------------------
(* While the sources stand still, so does what they would answer. *)
LEMMA StandingSources ==
  ASSUME UNCHANGED <<deployed, live>>
  PROVE  /\ Fetched' = Fetched
         /\ \A t, s : RowsOfSchema(t, s)' = RowsOfSchema(t, s)
         /\ \A t : RowsOfServer(t)' = RowsOfServer(t)
<1>1. IsCombined' = IsCombined
  BY DEF IsCombined
<1>2. Fetched' = Fetched
  BY <1>1 DEF Fetched
<1>3. ASSUME NEW t, NEW s PROVE RowsOfSchema(t, s)' = RowsOfSchema(t, s)
  BY <1>1 DEF RowsOfSchema
<1>4. ASSUME NEW t PROVE RowsOfServer(t)' = RowsOfServer(t)
  BY <1>1 DEF RowsOfServer
<1> QED BY <1>2, <1>3, <1>4

(* ... and so does what a table would be. *)
LEMMA StandingRows ==
  ASSUME UNCHANGED <<deployed, live>>
  PROVE  \A t : UserRows(t)' = UserRows(t) /\ (Answerable(t)' <=> Answerable(t))
<1> SUFFICES ASSUME NEW t
             PROVE  UserRows(t)' = UserRows(t) /\ (Answerable(t)' <=> Answerable(t))
  OBVIOUS
<1>1. /\ Fetched' = Fetched /\ RowsOfServer(t)' = RowsOfServer(t)
      /\ \A s : RowsOfSchema(t, s)' = RowsOfSchema(t, s)
  BY StandingSources
<1>2. UserRows(t)' = UserRows(t)
  BY <1>1 DEF UserRows
<1> QED BY <1>1, <1>2 DEF Answerable

(* The contract holds of what the sources hold now. *)
LEMMA ContractHolds == TypeInv => HostContract(live) /\ DOMAIN live \subseteq Nat
<1> SUFFICES ASSUME TypeInv PROVE HostContract(live) /\ DOMAIN live \subseteq Nat
  OBVIOUS
<1>1. deployed \in DOMAIN Deployments /\ live \in Holdings(deployed)
  BY DEF TypeInv
<1>2. DOMAIN live = DOMAIN Deployments[deployed].contents
  BY <1>1 DEF Holdings
<1> QED BY <1>1, <1>2, HostsKeepTheirContract, ServedTables

(* An object of a source, as the merge of all sources sees it. *)
LEMMA ReportedBy ==
  ASSUME NEW l, NEW kind
  PROVE  /\ \A i \in DOMAIN l : \A x \in l[i][kind] : <<i, x>> \in Reported(l, kind)
         /\ \A y \in Reported(l, kind) :
              y = <<y[1], y[2]>> /\ y[1] \in DOMAIN l /\ y[2] \in l[y[1]][kind]
BY DEF Reported

(* What remains after the merge is what some source reported. *)
LEMMA EarliestIsReported ==
  ASSUME NEW tagged, NEW key
  PROVE  \A x \in Earliest(tagged, key) : \E y \in tagged : x = y[2]
BY DEF Earliest, Untagged

(* fetch_schemas gives schemas of the database, and each name once. *)
LEMMA FetchedSchemas ==
  /\ Fetched.ok => \A s, t \in Fetched.defs : s.name = t.name => s = t
  /\ \A s \in Fetched.defs : s.db = Database /\ \E i \in DOMAIN live : s \in live[i].schemas
<1> DEFINE all == {x \in Reported(live, "schemas") : x[2].db = Database}
           answer == Schemas(live, IsCombined, Database)
<1>1. \A x \in all : x[2].db = Database /\ \E i \in DOMAIN live : x[2] \in live[i].schemas
  BY ReportedBy
<1>2. answer.defs = IF IsCombined THEN Earliest(all, "name") ELSE Untagged(all)
  BY DEF Schemas, Ok
<1>3. \A s \in answer.defs : \E x \in all : s = x[2]
  BY <1>2, EarliestIsReported DEF Untagged
<1>4. Fetched = IF \E s, t \in answer.defs : s # t /\ s.name = t.name THEN Err ELSE answer
  BY DEF Fetched, FetchSchemas
<1> HIDE DEF answer, all
<1> QED BY <1>1, <1>3, <1>4 DEF Err

(* Such a schema is none of the system's. *)
LEMMA FetchedAreTheirOwn ==
  TypeInv => \A s \in Fetched.defs : /\ NoSystemNamespace(s)
                                     /\ \A n \in SystemNamespaces : s.oid # n.oid /\ s.name # n.name
BY FetchedSchemas, ContractHolds DEF HostContract, NoSystemNamespace

(* Nothing is running. *)
LEMMA InitIInv == Init => IInv
<1> SUFFICES ASSUME Init PROVE IInv
  OBVIOUS
<1>1. TypeInv
  BY DEF Init, TypeInv, NoRows
<1>2. \A t \in Tables : served[t] = {}
  BY DEF Init, NoRows
<1>3. served["pg_namespace"] = {} /\ scan.table # "pg_namespace"
  BY <1>2 DEF Init, Tables, WalkedTables, NoScan
<1> QED BY <1>1, <1>2, <1>3 DEF Init, IInv, ScanInv, ServedInv, NamespaceScanInv, NamespacesAreOne

(* A query starts with nothing served. *)
LEMMA StartQueryKeepsIInv ==
  ASSUME IInv, NEW tables \in Plans, StartQuery(tables)
  PROVE  IInv'
<1>1. \A t \in Tables : served'[t] = {}
  BY DEF StartQuery, NoRows
<1>2. TypeInv'
  BY ServedTables DEF StartQuery, IInv, TypeInv, NoRows
<1>3. scan = NoScan /\ scan' = NoScan
  BY DEF StartQuery, IInv, ScanInv
<1>4. served'["pg_namespace"] = {} /\ scan'.table # "pg_namespace"
  BY <1>1, <1>3 DEF Tables, WalkedTables, NoScan
<1> QED BY <1>1, <1>2, <1>3, <1>4
        DEF IInv, ScanInv, ServedInv, NamespaceScanInv, NamespacesAreOne

(* A query ends with an error. *)
LEMMA FailKeepsIInv ==
  ASSUME IInv, Fail
  PROVE  IInv'
<1>1. /\ query' = "failed" /\ pending' = {} /\ scan' = NoScan
      /\ UNCHANGED <<deployed, live, served, stable>>
  BY DEF Fail
<1>2. scan'.table # "pg_namespace"
  BY <1>1 DEF NoScan
<1> QED BY <1>1, <1>2
        DEF IInv, TypeInv, ScanInv, ServedInv, NamespaceScanInv, NamespacesAreOne

(* What was served stays faithful while the sources stand still. *)
LEMMA ServedStays ==
  ASSUME ServedInv, UNCHANGED <<deployed, live, query, served, stable>>
  PROVE  ServedInv'
BY StandingRows DEF ServedInv, Faithful, Merged

(* fetch_schemas: the scan has every schema before it. *)
LEMMA BeginScanKeepsIInv ==
  ASSUME IInv, NEW t \in Tables, BeginScan(t)
  PROVE  IInv'
<1>1. CASE Fail
  BY <1>1, FailKeepsIInv
<1>2. CASE /\ query = "running" /\ t \in WalkedTables /\ Fetched.ok
           /\ scan' = [table |-> t, todo |-> Fetched.defs, rows |-> {}]
           /\ UNCHANGED <<deployed, live, query, pending, served, stable>>
  <2>1. Fetched' = Fetched
    BY <1>2, StandingSources
  <2>2. /\ scan'.table = t /\ scan'.todo = Fetched.defs /\ scan'.rows = {}
        /\ Visited' = {}
    BY <1>2, <2>1 DEF Visited
  <2>3. ScanInv'
    BY <1>2, <2>1, <2>2 DEF ScanInv
  <2>4. NamespaceScanInv'
    BY <1>2, <2>2, FetchedSchemas, FetchedAreTheirOwn DEF IInv, NamespaceScanInv
  <2> QED BY <1>2, <2>3, <2>4, ServedStays DEF IInv, TypeInv, NamespacesAreOne
<1> QED BY <1>1, <1>2 DEF BeginScan, Fetched

(* One schema more. *)
LEMMA VisitSchemaKeepsIInv ==
  ASSUME IInv, NEW s, VisitSchema(s)
  PROVE  IInv'
<1> DEFINE answer == RowsOfSchema(scan.table, s)
<1>1. CASE Fail
  BY <1>1, FailKeepsIInv
<1>2. CASE /\ answer.ok
           /\ scan' = [scan EXCEPT !.todo = @ \ {s}, !.rows = @ \cup answer.defs]
           /\ UNCHANGED <<deployed, live, query, pending, served, stable>>
  <2>1. scan # NoScan /\ s \in scan.todo
    BY DEF VisitSchema
  <2>2. /\ query = "running" /\ scan.table \in WalkedTables
        /\ scan = [table |-> scan.table, todo |-> scan.todo, rows |-> scan.rows]
    BY <2>1 DEF IInv, ScanInv
  <2>3. scan' = [table |-> scan.table, todo |-> scan.todo \ {s}, rows |-> scan.rows \cup answer.defs]
    BY <1>2, <2>2
  <2>4. /\ scan'.table = scan.table /\ scan'.todo = scan.todo \ {s}
        /\ scan'.rows = scan.rows \cup answer.defs
    BY <2>3
  <2>5. Fetched' = Fetched /\ \A t, x : RowsOfSchema(t, x)' = RowsOfSchema(t, x)
    BY <1>2, StandingSources
  <2>6. ScanInv'
    <3>1. query' = "running" /\ scan'.table \in WalkedTables
      BY <1>2, <2>2, <2>4
    <3>2. scan' = [table |-> scan'.table, todo |-> scan'.todo, rows |-> scan'.rows]
      BY <2>3, <2>4
    <3>3. ASSUME stable'
          PROVE  (/\ Fetched.ok /\ scan.todo \subseteq Fetched.defs
                  /\ \A x \in Visited : RowsOfSchema(scan.table, x).ok
                  /\ scan.rows = UNION {RowsOfSchema(scan.table, x).defs : x \in Visited})'
      <4>1. /\ Fetched.ok /\ scan.todo \subseteq Fetched.defs
            /\ \A x \in Visited : RowsOfSchema(scan.table, x).ok
            /\ scan.rows = UNION {RowsOfSchema(scan.table, x).defs : x \in Visited}
        BY <1>2, <2>1, <3>3 DEF IInv, ScanInv
      <4>2. Visited' = Visited \cup {s}
        BY <2>1, <2>4, <2>5, <4>1 DEF Visited
      <4>3. UNION {RowsOfSchema(scan.table, x).defs : x \in Visited \cup {s}} =
              (UNION {RowsOfSchema(scan.table, x).defs : x \in Visited}) \cup answer.defs
        OBVIOUS
      <4>4. \A x : RowsOfSchema(scan.table, x)' = RowsOfSchema(scan.table, x)
        BY <2>4, <2>5
      <4> QED BY <1>2, <2>1, <2>4, <2>5, <4>1, <4>2, <4>3, <4>4
    <3> QED BY <3>1, <3>2, <3>3 DEF ScanInv
  <2>7. NamespaceScanInv'
    <3> SUFFICES ASSUME scan.table = "pg_namespace" PROVE NamespaceScanInv'
      BY <2>4 DEF NamespaceScanInv
    <3>1. answer.defs = {NamespaceRow(s)}
      BY DEF RowsOfSchema, Ok
    <3>2. NamespaceRow(s).name = s.name /\ NamespaceRow(s).oid = s.oid
      BY DEF NamespaceRow
    <3> QED BY <2>1, <2>4, <3>1, <3>2 DEF IInv, NamespaceScanInv, NoSystemNamespace
  <2> QED BY <1>2, <2>6, <2>7, ServedStays DEF IInv, TypeInv, NamespacesAreOne
<1> QED BY <1>1, <1>2 DEF VisitSchema

(* Two rows of a table have one key when these columns agree. *)
LEMMA KeysOfRows ==
  ASSUME NEW x, NEW y
  PROVE  /\ KeyOf("pg_namespace", x) = KeyOf("pg_namespace", y) <=> x.oid = y.oid
         /\ KeyOf("pg_class", x) = KeyOf("pg_class", y) <=> x.ns = y.ns /\ x.name = y.name
         /\ KeyOf("pg_attribute", x) = KeyOf("pg_attribute", y) <=>
              x.relid = y.relid /\ x.name = y.name
         /\ KeyOf("tables", x) = KeyOf("tables", y) <=> x.schema = y.schema /\ x.name = y.name
         /\ \A t \in FlatTables \cup {"schemata"} : KeyOf(t, x) = KeyOf(t, y) <=> x.name = y.name
<1>1. KeyOf("pg_namespace", x) = KeyOf("pg_namespace", y) <=> x.oid = y.oid
  BY DEF KeyOf, FlatTables
<1>2. KeyOf("pg_class", x) = KeyOf("pg_class", y) <=> x.ns = y.ns /\ x.name = y.name
  BY DEF KeyOf, FlatTables
<1>3. KeyOf("pg_attribute", x) = KeyOf("pg_attribute", y) <=> x.relid = y.relid /\ x.name = y.name
  BY DEF KeyOf, FlatTables
<1>4. KeyOf("tables", x) = KeyOf("tables", y) <=> x.schema = y.schema /\ x.name = y.name
  BY DEF KeyOf, FlatTables
<1>5. ASSUME NEW t \in FlatTables \cup {"schemata"}
      PROVE  KeyOf(t, x) = KeyOf(t, y) <=> x.name = y.name
  BY DEF KeyOf, FlatTables
<1> QED BY <1>1, <1>2, <1>3, <1>4, <1>5

(* User namespaces of one name each, merged with the built-in ones. *)
LEMMA MergedNamespaces ==
  ASSUME NEW rows, \A x \in rows : NoSystemNamespace(x),
         \A x, y \in rows : x.name = y.name => x = y,
         ~DuplicateKeys("pg_namespace", rows)
  PROVE  \A x, y \in Merged("pg_namespace", rows) : (x.name = y.name \/ x.oid = y.oid) => x = y
<1>1. \A x, y \in rows : x.oid = y.oid => x = y
  BY KeysOfRows DEF DuplicateKeys
<1>2. \A x \in rows : \A b \in Merged("pg_namespace", rows) \ rows :
        b \in Builtin["pg_namespace"] /\ x.name # b.name
  BY DEF Merged, ShadowKeyOf
<1> QED BY <1>1, <1>2, BuiltinIsConsistent DEF NoSystemNamespace, Merged

(* A table whose rows are all there is served or refused. *)
LEMMA ServeKeepsIInv ==
  ASSUME IInv, NEW t \in Tables, NEW rows, Serve(t, rows), query = "running",
         stable /\ ~DuplicateKeys(t, rows) => Answerable(t) /\ rows = UserRows(t),
         t = "pg_namespace" => /\ \A x \in rows : NoSystemNamespace(x)
                               /\ \A x, y \in rows : x.name = y.name => x = y
  PROVE  IInv'
<1>1. CASE Fail
  BY <1>1, FailKeepsIInv
<1>2. CASE /\ ~DuplicateKeys(t, rows)
           /\ served' = [served EXCEPT ![t] = Merged(t, rows)]
           /\ pending' = pending \ {t}
           /\ query' = IF pending = {t} THEN "done" ELSE query
           /\ scan' = NoScan
           /\ UNCHANGED <<deployed, live, stable>>
  <2>1. /\ DOMAIN served' = Tables /\ served'[t] = Merged(t, rows)
        /\ \A u \in Tables : u # t => served'[u] = served[u]
    BY <1>2 DEF IInv, TypeInv
  <2>2. TypeInv'
    BY <1>2, <2>1 DEF IInv, TypeInv
  <2>3. ScanInv' /\ NamespaceScanInv'
    BY <1>2 DEF ScanInv, NamespaceScanInv, NoScan
  <2>4. ServedInv'
    <3> SUFFICES ASSUME stable, NEW u \in Tables, served'[u] # {}
                 PROVE  Faithful(u)'
      BY <1>2 DEF ServedInv
    <3>1. UserRows(u)' = UserRows(u) /\ (Answerable(u)' <=> Answerable(u))
      BY <1>2, StandingRows
    <3>2. CASE u = t
      BY <1>2, <2>1, <3>1, <3>2 DEF Faithful, Merged
    <3>3. CASE u # t
      BY <2>1, <3>1, <3>3 DEF IInv, ServedInv, Faithful, Merged
    <3> QED BY <3>2, <3>3
  <2>5. NamespacesAreOne'
    <3>1. CASE t = "pg_namespace"
      BY <1>2, <2>1, <3>1, MergedNamespaces DEF NamespacesAreOne
    <3>2. CASE t # "pg_namespace"
      BY <2>1, <3>2 DEF IInv, NamespacesAreOne, Tables, WalkedTables
    <3> QED BY <3>1, <3>2
  <2> QED BY <2>2, <2>3, <2>4, <2>5 DEF IInv
<1> QED BY <1>1, <1>2 DEF Serve

(* All schemas are visited. *)
LEMMA EndScanKeepsIInv ==
  ASSUME IInv, EndScan
  PROVE  IInv'
<1> DEFINE t == scan.table
           rows == scan.rows
<1>1. scan # NoScan /\ scan.todo = {} /\ Serve(t, rows)
  BY DEF EndScan
<1>2. query = "running" /\ t \in WalkedTables /\ t \in Tables /\ t \notin FlatTables
  BY <1>1 DEF IInv, ScanInv, Tables, WalkedTables, FlatTables
<1>3. ASSUME stable, ~DuplicateKeys(t, rows) PROVE Answerable(t) /\ rows = UserRows(t)
  <2>1. Visited = Fetched.defs
    BY <1>1 DEF Visited
  <2>2. /\ Fetched.ok /\ \A s \in Fetched.defs : RowsOfSchema(t, s).ok
        /\ rows = UNION {RowsOfSchema(t, s).defs : s \in Fetched.defs}
    BY <1>1, <1>3, <2>1 DEF IInv, ScanInv
  <2> QED BY <1>2, <1>3, <2>2 DEF Answerable, UserRows
<1>4. t = "pg_namespace" => /\ \A x \in rows : NoSystemNamespace(x)
                            /\ \A x, y \in rows : x.name = y.name => x = y
  BY DEF IInv, NamespaceScanInv
<1> HIDE DEF t, rows
<1> QED BY <1>1, <1>2, <1>3, <1>4, ServeKeepsIInv

(* A database-independent table, in one call. *)
LEMMA FlatScanKeepsIInv ==
  ASSUME IInv, NEW t \in Tables, FlatScan(t)
  PROVE  IInv'
<1> DEFINE rows == RowsOfServer(t).defs
<1>1. query = "running" /\ t \in FlatTables /\ (Fail \/ (RowsOfServer(t).ok /\ Serve(t, rows)))
  BY DEF FlatScan
<1>2. CASE Fail
  BY <1>2, FailKeepsIInv
<1>3. CASE RowsOfServer(t).ok /\ Serve(t, rows)
  <2>1. t \notin WalkedTables
    BY <1>1 DEF FlatTables, WalkedTables
  <2>2. ~DuplicateKeys(t, rows) => Answerable(t) /\ rows = UserRows(t)
    BY <1>1, <1>3, <2>1 DEF Answerable, UserRows
  <2>3. t # "pg_namespace"
    BY <1>1 DEF FlatTables
  <2> HIDE DEF rows
  <2> QED BY <1>1, <1>3, <2>2, <2>3, ServeKeepsIInv
<1> QED BY <1>1, <1>2, <1>3

(* The sources change: the query is no longer undisturbed. *)
LEMMA ChangeKeepsIInv ==
  ASSUME IInv, NEW i \in DOMAIN Contents, Change(i)
  PROVE  IInv'
<1>1. PICK c \in Contents[i] : live' = [live EXCEPT ![i] = c]
  BY DEF Change
<1>2. ~stable' /\ UNCHANGED <<deployed, query, pending, scan, served>>
  BY DEF Change
<1>3. live' \in Holdings(deployed')
  BY <1>1, <1>2 DEF IInv, TypeInv, Holdings, Contents
<1> QED BY <1>2, <1>3 DEF IInv, TypeInv, ScanInv, ServedInv, NamespaceScanInv, NamespacesAreOne

(* Every step keeps the invariant. *)
LEMMA NextIInv == IInv /\ [Next]_vars => IInv'
<1> SUFFICES ASSUME IInv, [Next]_vars PROVE IInv'
  OBVIOUS
<1>1. CASE UNCHANGED vars
  <2>1. UNCHANGED <<deployed, live, query, pending, scan, served, stable>>
    BY <1>1 DEF vars
  <2>2. ScanInv'
    BY <2>1, StandingSources DEF IInv, ScanInv, Visited
  <2> QED BY <2>1, <2>2, ServedStays DEF IInv, TypeInv, NamespaceScanInv, NamespacesAreOne
<1>2. ASSUME NEW tables \in Plans, StartQuery(tables) PROVE IInv'
  BY <1>2, StartQueryKeepsIInv
<1>3. ASSUME NEW t \in Tables, BeginScan(t) \/ FlatScan(t) PROVE IInv'
  BY <1>3, BeginScanKeepsIInv, FlatScanKeepsIInv
<1>4. ASSUME NEW s, VisitSchema(s) PROVE IInv'
  BY <1>4, VisitSchemaKeepsIInv
<1>5. CASE EndScan
  BY <1>5, EndScanKeepsIInv
<1>6. CASE SourceError
  BY <1>6, FailKeepsIInv DEF SourceError
<1>7. ASSUME NEW i \in DOMAIN Contents, Change(i) PROVE IInv'
  BY <1>7, ChangeKeepsIInv
<1> QED BY <1>1, <1>2, <1>3, <1>4, <1>5, <1>6, <1>7 DEF Next

(* The invariant holds of every reachable state. *)
LEMMA IInvIsInvariant == Spec => []IInv
BY InitIInv, NextIInv, PTL DEF Spec

-----------------------------------------------------------------------------
(* What the sources' answers amount to under the contract. *)

(* A set of positions has a first one. *)
LEMMA LeastNumber ==
  ASSUME NEW T, T \subseteq Nat, T # {}
  PROVE  \E x \in T : \A y \in T : x <= y
<1> DEFINE R == {p \in Nat \X Nat : p[1] < p[2]}
<1>1. IsWellFoundedOn(R, Nat)
  BY NatLessThanWellFounded DEF OpToRel
<1>2. PICK x \in T : \A y \in T : <<y, x>> \notin R
  BY <1>1, WFMin
<1>3. ASSUME NEW y \in T PROVE x <= y
  <2>1. x \in Nat /\ y \in Nat /\ <<y, x>> \notin R
    BY <1>2
  <2>2. ~(y < x)
    BY <2>1
  <2> QED BY <2>1, <2>2
<1> QED BY <1>3

(* The merge loses no key. *)
LEMMA EarliestCovers ==
  ASSUME NEW tagged, NEW key, \A x \in tagged : x[1] \in Nat, NEW x \in tagged
  PROVE  \E y \in tagged : y[2] \in Earliest(tagged, key) /\ y[2][key] = x[2][key]
<1> DEFINE v == x[2][key]
           T == {y[1] : y \in {z \in tagged : z[2][key] = v}}
           y == First(tagged, key, v)
<1>1. PICK n \in T : \A m \in T : n <= m
  <2>1. T \subseteq Nat /\ x[1] \in T
    OBVIOUS
  <2> HIDE DEF T
  <2> QED BY <2>1, LeastNumber
<1>2. \E w \in tagged : w[2][key] = v /\ \A z \in tagged : z[2][key] = v => w[1] <= z[1]
  BY <1>1
<1>3. y \in tagged /\ y[2][key] = v
  BY <1>2 DEF First
<1>4. y = First(tagged, key, y[2][key])
  BY <1>3
<1> HIDE DEF y, v
<1> QED BY <1>3, <1>4 DEF Earliest, Untagged, v

Rels(s) == Relations(live, IsCombined, Database, s.name)
Inds(s) == Indexes(live, IsCombined, Database, s.name).defs
Cons(s) == Constraints(live, IsCombined, Database, s.name).defs
Cols(s, r) == Columns(live, Database, s.name, r.name).defs

(* Object x is one of schema s of the database. *)
Here(x, s) == x.db = Database /\ x.schema = s.name

(* An answer is a record of its two fields. *)
LEMMA AnswersAreRecords ==
  ASSUME NEW s
  PROVE  Rels(s) = [ok |-> Rels(s).ok, defs |-> Rels(s).defs]
BY DEF Rels, Relations, Ok, Err

(* The rows of each table, by the definitions they are made of. *)
LEMMA SchemaRows ==
  ASSUME NEW s
  PROVE  /\ RowsOfSchema("pg_namespace", s).defs = {NamespaceRow(s)}
         /\ RowsOfSchema("pg_class", s).ok = Rels(s).ok
         /\ RowsOfSchema("pg_class", s).defs =
              {ClassRow(r, s) : r \in Rels(s).defs} \cup {ClassRow(x, s) : x \in Inds(s)}
         /\ RowsOfSchema("pg_type", s).ok = Rels(s).ok
         /\ RowsOfSchema("pg_type", s).defs = UNION {{TypeRow(r, s)} : r \in Rels(s).defs}
         /\ RowsOfSchema("pg_attribute", s).ok = Rels(s).ok
         /\ RowsOfSchema("pg_attribute", s).defs =
              UNION {{AttributeRow(c, r) : c \in Cols(s, r)} : r \in Rels(s).defs}
         /\ RowsOfSchema("pg_attrdef", s).ok = Rels(s).ok
         /\ RowsOfSchema("pg_attrdef", s).defs =
              UNION {{AttrdefRow(c, r) : c \in {d \in Cols(s, r) : d.default}} : r \in Rels(s).defs}
         /\ RowsOfSchema("pg_index", s).defs = {IndexRow(x) : x \in Inds(s)}
         /\ RowsOfSchema("pg_constraint", s).defs = {ConstraintRow(c) : c \in Cons(s)}
         /\ RowsOfSchema("tables", s).ok = Rels(s).ok
         /\ RowsOfSchema("tables", s).defs = UNION {{InfoTableRow(r, s)} : r \in Rels(s).defs}
         /\ RowsOfSchema("columns", s).ok = Rels(s).ok
         /\ RowsOfSchema("columns", s).defs =
              UNION {{InfoColumnRow(c, r, s) : c \in Cols(s, r)} : r \in Rels(s).defs}
         /\ RowsOfSchema("schemata", s).defs = {[name |-> s.name]}
<1> DEFINE rels == Rels(s)
<1>1. rels = [ok |-> rels.ok, defs |-> rels.defs]
  BY AnswersAreRecords
<1>2. /\ RowsOfSchema("pg_namespace", s).defs = {NamespaceRow(s)}
      /\ RowsOfSchema("schemata", s).defs = {[name |-> s.name]}
      /\ RowsOfSchema("pg_index", s).defs = {IndexRow(x) : x \in Inds(s)}
      /\ RowsOfSchema("pg_constraint", s).defs = {ConstraintRow(c) : c \in Cons(s)}
  BY DEF RowsOfSchema, Ok, Inds, Cons
<1>3. RowsOfSchema("pg_class", s) =
        [[rels EXCEPT !.defs = UNION {{ClassRow(r, s)} : r \in @}]
           EXCEPT !.defs = @ \cup {ClassRow(x, s) : x \in Inds(s)}]
  BY DEF RowsOfSchema, Rels, Inds
<1>4. RowsOfSchema("pg_type", s) = [rels EXCEPT !.defs = UNION {{TypeRow(r, s)} : r \in @}]
  BY DEF RowsOfSchema, Rels
<1>5. RowsOfSchema("pg_attribute", s) =
        [rels EXCEPT !.defs = UNION {{AttributeRow(c, r) : c \in Cols(s, r)} : r \in @}]
  BY DEF RowsOfSchema, Rels, Cols
<1>6. RowsOfSchema("pg_attrdef", s) =
        [rels EXCEPT !.defs =
           UNION {{AttrdefRow(c, r) : c \in {d \in Cols(s, r) : d.default}} : r \in @}]
  BY DEF RowsOfSchema, Rels, Cols
<1>7. RowsOfSchema("tables", s) = [rels EXCEPT !.defs = UNION {{InfoTableRow(r, s)} : r \in @}]
  BY DEF RowsOfSchema, Rels
<1>8. RowsOfSchema("columns", s) =
        [rels EXCEPT !.defs = UNION {{InfoColumnRow(c, r, s) : c \in Cols(s, r)} : r \in @}]
  BY DEF RowsOfSchema, Rels, Cols
<1> HIDE DEF rels
<1>9. \A u : LET e == [rels EXCEPT !.defs = u] IN e.ok = rels.ok /\ e.defs = u
  BY <1>1
<1>10. UNION {{ClassRow(r, s)} : r \in rels.defs} = {ClassRow(r, s) : r \in rels.defs}
  OBVIOUS
<1> QED BY <1>1, <1>2, <1>3, <1>4, <1>5, <1>6, <1>7, <1>8, <1>9, <1>10 DEF rels

(* The same, row by row. *)
LEMMA RowMembers ==
  ASSUME NEW s, NEW row
  PROVE  /\ row \in RowsOfSchema("pg_type", s).defs <=> \E r \in Rels(s).defs : row = TypeRow(r, s)
         /\ row \in RowsOfSchema("pg_attribute", s).defs <=>
              \E r \in Rels(s).defs : \E c \in Cols(s, r) : row = AttributeRow(c, r)
         /\ row \in RowsOfSchema("pg_attrdef", s).defs =>
              \E r \in Rels(s).defs : \E c \in Cols(s, r) : row = AttrdefRow(c, r)
         /\ row \in RowsOfSchema("tables", s).defs <=>
              \E r \in Rels(s).defs : row = InfoTableRow(r, s)
         /\ row \in RowsOfSchema("columns", s).defs =>
              \E r \in Rels(s).defs : \E c \in Cols(s, r) : row = InfoColumnRow(c, r, s)
<1>1. RowsOfSchema("pg_type", s).defs = UNION {{TypeRow(r, s)} : r \in Rels(s).defs}
  BY SchemaRows
<1>2. RowsOfSchema("pg_attribute", s).defs =
        UNION {{AttributeRow(c, r) : c \in Cols(s, r)} : r \in Rels(s).defs}
  BY SchemaRows
<1>3. RowsOfSchema("pg_attrdef", s).defs =
        UNION {{AttrdefRow(c, r) : c \in {d \in Cols(s, r) : d.default}} : r \in Rels(s).defs}
  BY SchemaRows
<1>4. RowsOfSchema("tables", s).defs = UNION {{InfoTableRow(r, s)} : r \in Rels(s).defs}
  BY SchemaRows
<1>5. RowsOfSchema("columns", s).defs =
        UNION {{InfoColumnRow(c, r, s) : c \in Cols(s, r)} : r \in Rels(s).defs}
  BY SchemaRows
<1>6. row \in RowsOfSchema("pg_type", s).defs <=> \E r \in Rels(s).defs : row = TypeRow(r, s)
  BY <1>1
<1>7. row \in RowsOfSchema("pg_attribute", s).defs <=>
        \E r \in Rels(s).defs : \E c \in Cols(s, r) : row = AttributeRow(c, r)
  BY <1>2
<1>8. row \in RowsOfSchema("pg_attrdef", s).defs =>
        \E r \in Rels(s).defs : \E c \in Cols(s, r) : row = AttrdefRow(c, r)
  BY <1>3
<1>9. row \in RowsOfSchema("tables", s).defs <=> \E r \in Rels(s).defs : row = InfoTableRow(r, s)
  BY <1>4
<1>10. row \in RowsOfSchema("columns", s).defs =>
         \E r \in Rels(s).defs : \E c \in Cols(s, r) : row = InfoColumnRow(c, r, s)
  BY <1>5
<1> QED BY <1>6, <1>7, <1>8, <1>9, <1>10

(* A source that is asked directly is the only one. *)
LEMMA OneSource ==
  ASSUME TypeInv, ~IsCombined, NEW i \in DOMAIN live, NEW j \in DOMAIN live
  PROVE  i = j
<1>1. DOMAIN live = DOMAIN Deployments[deployed].contents
  BY DEF TypeInv, Holdings
<1> QED BY <1>1, ServedTables DEF TypeInv, IsCombined

(* relations(): every source's relations of the schema, and a name that    *)
(* two of them have is refused.                                            *)
LEMMA RelationsHere ==
  ASSUME TypeInv, NEW s, Rels(s).ok
  PROVE  /\ \A r : r \in Rels(s).defs <=>
                     \E i \in DOMAIN live : r \in live[i].relations /\ Here(r, s)
         /\ IsCombined =>
              \A i, j \in DOMAIN live : \A r \in live[i].relations, q \in live[j].relations :
                Here(r, s) /\ Here(q, s) /\ r.name = q.name => i = j /\ r = q
<1> DEFINE all == InSchema(Reported(live, "relations"), Database, s.name)
<1>1. ~(IsCombined /\ Clash(all, "name")) /\ Rels(s).defs = Untagged(all)
  BY DEF Rels, Relations, Ok, Err
<1>2. \A x \in all : x[1] \in DOMAIN live /\ x[2] \in live[x[1]].relations /\ Here(x[2], s)
  BY ReportedBy DEF InSchema, Here
<1>3. \A i \in DOMAIN live : \A r \in live[i].relations : Here(r, s) => <<i, r>> \in all
  BY ReportedBy DEF InSchema, Here
<1> HIDE DEF all
<1>4. \A r : r \in Rels(s).defs <=> \E i \in DOMAIN live : r \in live[i].relations /\ Here(r, s)
  <2>1. ASSUME NEW r \in Rels(s).defs
        PROVE  \E i \in DOMAIN live : r \in live[i].relations /\ Here(r, s)
    BY <1>1, <1>2 DEF Untagged
  <2>2. ASSUME NEW i \in DOMAIN live, NEW r \in live[i].relations, Here(r, s)
        PROVE  r \in Rels(s).defs
    <3>1. <<i, r>> \in all /\ <<i, r>>[2] = r
      BY <1>3, <2>2
    <3> QED BY <1>1, <3>1 DEF Untagged
  <2> QED BY <2>1, <2>2
<1>5. ASSUME IsCombined, NEW i \in DOMAIN live, NEW j \in DOMAIN live,
             NEW r \in live[i].relations, NEW q \in live[j].relations,
             Here(r, s), Here(q, s), r.name = q.name
      PROVE  i = j /\ r = q
  <2>1. <<i, r>> \in all /\ <<j, q>> \in all
    BY <1>3, <1>5
  <2>2. <<i, r>>[2]["name"] = <<j, q>>[2]["name"]
    BY <1>5
  <2>3. <<i, r>> = <<j, q>>
    BY <1>1, <1>5, <2>1, <2>2 DEF Clash
  <2> QED BY <2>3
<1> QED BY <1>4, <1>5

(* indexes(): told apart by OID, of which the host has each once.          *)
LEMMA IndexesHere ==
  ASSUME TypeInv, NEW s
  PROVE  \A x : x \in Inds(s) <=> \E i \in DOMAIN live : x \in live[i].indexes /\ Here(x, s)
<1> DEFINE all == InSchema(Reported(live, "indexes"), Database, s.name)
<1>1. Inds(s) = IF IsCombined THEN Earliest(all, "oid") ELSE Untagged(all)
  BY DEF Inds, Indexes, Ok
<1>2. \A x \in all : x[1] \in DOMAIN live /\ x[2] \in live[x[1]].indexes /\ Here(x[2], s)
  BY ReportedBy DEF InSchema, Here
<1>3. \A i \in DOMAIN live : \A x \in live[i].indexes : Here(x, s) => <<i, x>> \in all
  BY ReportedBy DEF InSchema, Here
<1> HIDE DEF all
<1>4. ASSUME NEW x \in Inds(s)
      PROVE  \E i \in DOMAIN live : x \in live[i].indexes /\ Here(x, s)
  <2>1. \E y \in all : x = y[2]
    BY <1>1, EarliestIsReported DEF Untagged
  <2> QED BY <1>2, <2>1
<1>5. ASSUME NEW i \in DOMAIN live, NEW x \in live[i].indexes, Here(x, s)
      PROVE  x \in Inds(s)
  <2> DEFINE z == <<i, x>>
  <2>1. z \in all /\ z[2] = x
    BY <1>3, <1>5
  <2> HIDE DEF z
  <2>2. CASE ~IsCombined
    BY <1>1, <2>1, <2>2 DEF Untagged
  <2>3. CASE IsCombined
    <3>1. \A w \in all : w[1] \in Nat
      BY <1>2, ContractHolds
    <3>2. PICK y \in all : y[2] \in Earliest(all, "oid") /\ y[2]["oid"] = z[2]["oid"]
      BY <2>1, <3>1, EarliestCovers
    <3>3. y[1] \in DOMAIN live /\ y[2] \in live[y[1]].indexes /\ y[2].oid = x.oid
      BY <1>2, <2>1, <3>2
    <3>4. y[2] = x
      BY <3>3, ContractHolds DEF HostContract
    <3> QED BY <1>1, <2>3, <3>2, <3>4
  <2> QED BY <2>2, <2>3
<1> QED BY <1>4, <1>5

(* constraints(): what is left is what some source reported. *)
LEMMA ConstraintsHere ==
  ASSUME NEW s, NEW x \in Cons(s)
  PROVE  \E i \in DOMAIN live : x \in live[i].constraints /\ Here(x, s)
<1> DEFINE all == InSchema(Reported(live, "constraints"), Database, s.name)
<1>1. Cons(s) = IF IsCombined THEN Earliest(all, "oid") ELSE Untagged(all)
  BY DEF Cons, Constraints, Ok
<1>2. \A y \in all : y[1] \in DOMAIN live /\ y[2] \in live[y[1]].constraints /\ Here(y[2], s)
  BY ReportedBy DEF InSchema, Here
<1> HIDE DEF all
<1>3. \E y \in all : x = y[2]
  BY <1>1, EarliestIsReported DEF Untagged
<1> QED BY <1>2, <1>3

(* Of every schema name the sources report, one schema is fetched. *)
LEMMA FetchedCover ==
  ASSUME TypeInv, Fetched.ok, NEW j \in DOMAIN live, NEW r \in live[j].schemas, r.db = Database
  PROVE  \E s \in Fetched.defs : s.name = r.name
<1> DEFINE all == {x \in Reported(live, "schemas") : x[2].db = Database}
           z == <<j, r>>
<1>1. Fetched.defs = IF IsCombined THEN Earliest(all, "name") ELSE Untagged(all)
  BY DEF Fetched, FetchSchemas, Schemas, Ok, Err
<1>2. z \in all /\ z[2] = r
  BY ReportedBy
<1>3. \A x \in all : x[1] \in Nat
  BY ReportedBy, ContractHolds
<1> HIDE DEF all, z
<1>4. CASE IsCombined
  <2>1. PICK y \in all : y[2] \in Earliest(all, "name") /\ y[2]["name"] = z[2]["name"]
    BY <1>2, <1>3, EarliestCovers
  <2> QED BY <1>1, <1>2, <1>4, <2>1
<1>5. CASE ~IsCombined
  BY <1>1, <1>2, <1>5 DEF Untagged
<1> QED BY <1>4, <1>5

(* So every relation and every index of the database is reached. *)
LEMMA ObjectsAreReached ==
  ASSUME TypeInv, Fetched.ok, NEW kind \in {"relations", "indexes"},
         NEW i \in DOMAIN live, NEW x \in live[i][kind], x.db = Database
  PROVE  \E s \in Fetched.defs : Here(x, s)
<1>1. PICK j \in DOMAIN live : \E s \in live[j].schemas : s.db = x.db /\ s.name = x.schema
  BY ContractHolds DEF HostContract
<1>2. PICK r \in live[j].schemas : r.db = Database /\ r.name = x.schema
  BY <1>1
<1>3. PICK s \in Fetched.defs : s.name = r.name
  BY <1>2, FetchedCover
<1> QED BY <1>2, <1>3 DEF Here

(* columns(): the columns of the source that reports the relation, all of  *)
(* them and no others.                                                     *)
LEMMA ColumnsHere ==
  ASSUME TypeInv, NEW s, Rels(s).ok,
         NEW i \in DOMAIN live, NEW r \in live[i].relations, Here(r, s)
  PROVE  Cols(s, r) = {c \in live[i].columns : Here(c, s) /\ c.relation = r.name}
<1> DEFINE all == {x \in InSchema(Reported(live, "columns"), Database, s.name) :
                     x[2].relation = r.name}
<1>1. Cols(s, r) = {x[2] : x \in {y \in all : \A z \in all : y[1] <= z[1]}}
  BY DEF Cols, Columns, Ok
<1>2. \A x \in all : /\ x[1] \in DOMAIN live /\ x[2] \in live[x[1]].columns
                     /\ Here(x[2], s) /\ x[2].relation = r.name
  BY ReportedBy DEF InSchema, Here
<1>3. \A c \in live[i].columns : Here(c, s) /\ c.relation = r.name => <<i, c>> \in all
  BY ReportedBy DEF InSchema, Here
<1> HIDE DEF all
<1>4. ASSUME NEW x \in all PROVE x[1] = i
  <2> DEFINE k == x[1]
             c == x[2]
  <2>1. k \in DOMAIN live /\ c \in live[k].columns /\ Here(c, s) /\ c.relation = r.name
    BY <1>2
  <2> HIDE DEF k, c
  <2>2. PICK q \in live[k].relations : q.db = c.db /\ q.schema = c.schema /\ q.name = c.relation
    BY <2>1, ContractHolds DEF HostContract
  <2>3. Here(q, s) /\ q.name = r.name
    BY <2>1, <2>2 DEF Here
  <2>4. k = i
    BY <2>1, <2>3, RelationsHere, OneSource
  <2> QED BY <2>4 DEF k
<1>5. i \in Nat
  BY ContractHolds
<1>6. \A x \in all : \A z \in all : x[1] <= z[1]
  BY <1>4, <1>5
<1>7. Cols(s, r) = {x[2] : x \in all}
  BY <1>1, <1>6
<1>8. ASSUME NEW c \in Cols(s, r) PROVE c \in live[i].columns /\ Here(c, s) /\ c.relation = r.name
  BY <1>2, <1>4, <1>7
<1>9. ASSUME NEW c \in live[i].columns, Here(c, s), c.relation = r.name PROVE c \in Cols(s, r)
  <2>1. <<i, c>> \in all /\ <<i, c>>[2] = c
    BY <1>3, <1>9
  <2> QED BY <1>7, <2>1
<1> QED BY <1>8, <1>9

-----------------------------------------------------------------------------
(* What an undisturbed query was served. *)

(* The rows of a table it read are the user rows and the built-in rows     *)
(* that no user row shadows.                                               *)
LEMMA ServedRows ==
  ASSUME IInv, Undisturbed, NEW t \in WalkedTables, served[t] # {}
  PROVE  /\ TypeInv /\ Fetched.ok /\ \A s \in Fetched.defs : RowsOfSchema(t, s).ok
         /\ \A s \in Fetched.defs : RowsOfSchema(t, s).defs \subseteq UserRows(t)
         /\ \A row \in UserRows(t) : \E s \in Fetched.defs : row \in RowsOfSchema(t, s).defs
         /\ UserRows(t) \subseteq served[t] /\ ~DuplicateKeys(t, UserRows(t))
         /\ \A row \in served[t] : row \in UserRows(t) \/ row \in Builtin[t]
         /\ \A b \in Builtin[t] :
              b \in served[t] \/ \E u \in UserRows(t) : ShadowKeyOf(t, u) = ShadowKeyOf(t, b)
<1>1. Faithful(t) /\ TypeInv
  BY DEF IInv, ServedInv, Undisturbed, Tables
<1>2. UserRows(t) = UNION {RowsOfSchema(t, s).defs : s \in Fetched.defs}
  BY DEF UserRows
<1>3. /\ Fetched.ok /\ \A s \in Fetched.defs : RowsOfSchema(t, s).ok
      /\ ~DuplicateKeys(t, UserRows(t)) /\ served[t] = Merged(t, UserRows(t))
  BY <1>1 DEF Faithful, Answerable
<1>4. /\ \A s \in Fetched.defs : RowsOfSchema(t, s).defs \subseteq UserRows(t)
      /\ \A row \in UserRows(t) : \E s \in Fetched.defs : row \in RowsOfSchema(t, s).defs
  BY <1>2
<1> QED BY <1>1, <1>3, <1>4 DEF Merged

(* pg_namespace has a row for every schema that is walked. *)
LEMMA NamespacesAreServed ==
  ASSUME IInv, Undisturbed, served["pg_namespace"] # {}
  PROVE  /\ \A s \in Fetched.defs : s.oid \in Oids("pg_namespace")
         /\ \A n \in SystemNamespaces : n.oid \in Oids("pg_namespace")
<1>1. "pg_namespace" \in WalkedTables
  BY DEF WalkedTables
<1>2. \A s : RowsOfSchema("pg_namespace", s).defs = {NamespaceRow(s)}
  BY SchemaRows
<1>3. \A s : NamespaceRow(s).oid = s.oid /\ NamespaceRow(s).name = s.name
  BY DEF NamespaceRow
<1>4. ASSUME NEW s \in Fetched.defs PROVE s.oid \in Oids("pg_namespace")
  <2>1. NamespaceRow(s) \in served["pg_namespace"]
    BY <1>1, <1>2, ServedRows
  <2> QED BY <1>3, <2>1 DEF Oids
<1>5. ASSUME NEW n \in SystemNamespaces PROVE n.oid \in Oids("pg_namespace")
  <2>1. n \in Builtin["pg_namespace"]
    BY DEF SystemNamespaces
  <2>2. ASSUME NEW u \in UserRows("pg_namespace") PROVE u.name # n.name
    <3>1. PICK s \in Fetched.defs : u = NamespaceRow(s)
      BY <1>1, <1>2, ServedRows
    <3> QED BY <1>3, <3>1, FetchedAreTheirOwn DEF IInv
  <2>3. n \in served["pg_namespace"]
    BY <1>1, <2>1, <2>2, ServedRows DEF ShadowKeyOf
  <2> QED BY <2>3 DEF Oids
<1> QED BY <1>4, <1>5

(* pg_class and pg_type rows are in a namespace that was served. *)
LEMMA NamespaceReferences ==
  ASSUME IInv, Undisturbed, served["pg_namespace"] # {},
         NEW t \in {"pg_class", "pg_type"}, NEW row \in served[t]
  PROVE  row.ns \in Oids("pg_namespace")
<1>1. t \in WalkedTables
  BY DEF WalkedTables
<1>2. CASE row \in Builtin[t]
  <2>1. row.ns \in {b.oid : b \in Builtin["pg_namespace"]}
    BY <1>2, BuiltinIsConsistent
  <2>2. PICK n \in Builtin["pg_namespace"] : n.oid = row.ns
    BY <2>1
  <2>3. n \in SystemNamespaces
    BY <1>2, <2>2 DEF SystemNamespaces
  <2> QED BY <2>2, <2>3, NamespacesAreServed
<1>3. CASE row \in UserRows(t)
  <2>1. PICK s \in Fetched.defs : row \in RowsOfSchema(t, s).defs
    BY <1>1, <1>3, ServedRows
  <2>2. row.ns = s.oid
    <3>1. /\ RowsOfSchema("pg_class", s).defs =
               {ClassRow(r, s) : r \in Rels(s).defs} \cup {ClassRow(x, s) : x \in Inds(s)}
          /\ RowsOfSchema("pg_type", s).defs = UNION {{TypeRow(r, s)} : r \in Rels(s).defs}
      BY SchemaRows
    <3>2. \A r : ClassRow(r, s).ns = s.oid /\ TypeRow(r, s).ns = s.oid
      BY DEF ClassRow, TypeRow
    <3> QED BY <2>1, <3>1, <3>2
  <2> QED BY <2>2, NamespacesAreServed
<1> QED BY <1>1, <1>2, <1>3, ServedRows

(* pg_class has a row for every relation and index that is reached, and    *)
(* for every built-in one.                                                 *)
LEMMA ClassesAreServed ==
  ASSUME IInv, Undisturbed, served["pg_class"] # {}
  PROVE  /\ Fetched.ok /\ \A s \in Fetched.defs : Rels(s).ok
         /\ \A s \in Fetched.defs : \A r \in Rels(s).defs \cup Inds(s) :
              ClassRow(r, s) \in UserRows("pg_class") /\ r.oid \in Oids("pg_class")
         /\ {b.oid : b \in Builtin["pg_class"]} \subseteq Oids("pg_class")
         /\ ~DuplicateKeys("pg_class", UserRows("pg_class"))
<1>1. "pg_class" \in WalkedTables
  BY DEF WalkedTables
<1>2. Fetched.ok /\ \A s \in Fetched.defs : Rels(s).ok
  BY <1>1, ServedRows, SchemaRows
<1>3. \A s : RowsOfSchema("pg_class", s).defs =
               {ClassRow(r, s) : r \in Rels(s).defs} \cup {ClassRow(x, s) : x \in Inds(s)}
  BY SchemaRows
<1>4. ASSUME NEW s \in Fetched.defs, NEW r \in Rels(s).defs \cup Inds(s)
      PROVE  ClassRow(r, s) \in UserRows("pg_class") /\ r.oid \in Oids("pg_class")
  <2>1. ClassRow(r, s) \in RowsOfSchema("pg_class", s).defs
    BY <1>3
  <2>2. ClassRow(r, s) \in UserRows("pg_class") /\ ClassRow(r, s) \in served["pg_class"]
    BY <1>1, <2>1, ServedRows
  <2>3. ClassRow(r, s).oid = r.oid
    BY DEF ClassRow
  <2> QED BY <2>2, <2>3 DEF Oids
<1>5. ASSUME NEW b \in Builtin["pg_class"] PROVE b.oid \in Oids("pg_class")
  <2>1. PICK n \in Builtin["pg_namespace"] : n.oid = b.ns
    BY BuiltinIsConsistent
  <2>2. n \in SystemNamespaces
    BY <2>1 DEF SystemNamespaces
  <2>3. ASSUME NEW u \in UserRows("pg_class") PROVE u.ns # b.ns
    <3>1. PICK s \in Fetched.defs : u \in RowsOfSchema("pg_class", s).defs
      BY <1>1, ServedRows
    <3>2. u.ns = s.oid
      BY <1>3, <3>1 DEF ClassRow
    <3> QED BY <2>1, <2>2, <3>2, FetchedAreTheirOwn DEF IInv
  <2>4. b \in served["pg_class"]
    BY <1>1, <2>3, ServedRows, KeysOfRows DEF ShadowKeyOf
  <2> QED BY <2>4 DEF Oids
<1> QED BY <1>1, <1>2, <1>4, <1>5, ServedRows

(* A relation of a source that is asked is reached, and is in pg_class.    *)
LEMMA RelationsAreServed ==
  ASSUME IInv, Undisturbed, served["pg_class"] # {},
         NEW i \in DOMAIN live, NEW r \in live[i].relations, r.db = Database
  PROVE  \E s \in Fetched.defs : Here(r, s) /\ r \in Rels(s).defs /\ r.oid \in Oids("pg_class")
<1>1. TypeInv /\ Fetched.ok /\ \A s \in Fetched.defs : Rels(s).ok
  BY ClassesAreServed DEF IInv
<1>2. PICK s \in Fetched.defs : Here(r, s)
  BY <1>1, ObjectsAreReached
<1>3. r \in Rels(s).defs
  BY <1>1, <1>2, RelationsHere
<1> QED BY <1>2, <1>3, ClassesAreServed

(* What is said of a relation is said of one in pg_class. *)
LEMMA ClassReferences ==
  ASSUME IInv, Undisturbed, served["pg_class"] # {},
         NEW t \in {"pg_type", "pg_attribute", "pg_index", "pg_constraint"},
         NEW row \in served[t]
  PROVE  row.relid \in Oids("pg_class")
<1>1. t \in WalkedTables
  BY DEF WalkedTables
<1>2. CASE row \in Builtin[t]
  <2>1. row.relid \in {b.oid : b \in Builtin["pg_class"]}
    BY <1>2, BuiltinIsConsistent
  <2> QED BY <2>1, ClassesAreServed
<1>3. CASE row \in UserRows(t)
  <2>1. PICK s \in Fetched.defs : row \in RowsOfSchema(t, s).defs
    BY <1>1, <1>3, ServedRows
  <2>2. \A r \in Rels(s).defs : r.oid \in Oids("pg_class")
    BY ClassesAreServed
  <2>3. CASE t = "pg_type"
    <3>1. PICK r \in Rels(s).defs : row = TypeRow(r, s)
      BY <2>1, <2>3, RowMembers
    <3> QED BY <2>2, <3>1 DEF TypeRow
  <2>4. CASE t = "pg_attribute"
    <3>1. PICK r \in Rels(s).defs : \E c \in Cols(s, r) : row = AttributeRow(c, r)
      BY <2>1, <2>4, RowMembers
    <3> QED BY <2>2, <3>1 DEF AttributeRow
  <2>5. CASE t = "pg_index"
    <3>1. PICK x \in Inds(s) : row = IndexRow(x)
      BY <2>1, <2>5, SchemaRows
    <3>2. PICK i \in DOMAIN live : x \in live[i].indexes /\ Here(x, s)
      BY <3>1, IndexesHere DEF IInv
    <3>3. PICK r \in live[i].relations : r.db = x.db /\ r.oid = x.relid
      BY <3>2, ContractHolds DEF IInv, HostContract
    <3>4. r.oid \in Oids("pg_class")
      BY <3>2, <3>3, RelationsAreServed DEF Here
    <3> QED BY <3>1, <3>3, <3>4 DEF IndexRow
  <2>6. CASE t = "pg_constraint"
    <3>1. PICK x \in Cons(s) : row = ConstraintRow(x)
      BY <2>1, <2>6, SchemaRows
    <3>2. PICK i \in DOMAIN live : x \in live[i].constraints /\ Here(x, s)
      BY <3>1, ConstraintsHere
    <3>3. PICK r \in live[i].relations : r.db = x.db /\ r.oid = x.relid
      BY <3>2, ContractHolds DEF IInv, HostContract
    <3>4. r.oid \in Oids("pg_class")
      BY <3>2, <3>3, RelationsAreServed DEF Here
    <3> QED BY <3>1, <3>3, <3>4 DEF ConstraintRow
  <2> QED BY <2>3, <2>4, <2>5, <2>6
<1> QED BY <1>1, <1>2, <1>3, ServedRows

(* An index of pg_index is a relation of pg_class. *)
LEMMA IndexesAreClasses ==
  ASSUME IInv, Undisturbed, served["pg_class"] # {}, NEW row \in served["pg_index"]
  PROVE  row.oid \in Oids("pg_class")
<1>1. "pg_index" \in WalkedTables
  BY DEF WalkedTables
<1>2. CASE row \in Builtin["pg_index"]
  BY <1>2, BuiltinIsConsistent, ClassesAreServed
<1>3. CASE row \in UserRows("pg_index")
  <2>1. PICK s \in Fetched.defs : row \in RowsOfSchema("pg_index", s).defs
    BY <1>1, <1>3, ServedRows
  <2>2. PICK x \in Inds(s) : row = IndexRow(x)
    BY <2>1, SchemaRows
  <2> QED BY <2>2, ClassesAreServed DEF IndexRow
<1> QED BY <1>1, <1>2, <1>3, ServedRows

(* A default is one of an attribute that was served. *)
LEMMA DefaultReferences ==
  ASSUME IInv, Undisturbed, served["pg_attribute"] # {}, NEW row \in served["pg_attrdef"]
  PROVE  \E a \in served["pg_attribute"] : a.relid = row.relid /\ a.num = row.num
<1>1. "pg_attribute" \in WalkedTables /\ "pg_attrdef" \in WalkedTables
  BY DEF WalkedTables
<1>2. \A s : RowsOfSchema("pg_attribute", s).defs =
               UNION {{AttributeRow(c, r) : c \in Cols(s, r)} : r \in Rels(s).defs}
  BY SchemaRows
<1>3. CASE row \in Builtin["pg_attrdef"]
  <2>1. PICK a \in Builtin["pg_attribute"] : a.relid = row.relid /\ a.num = row.num
    BY <1>3, BuiltinIsConsistent
  <2>2. ASSUME NEW u \in UserRows("pg_attribute") PROVE u.relid # a.relid
    <3>1. PICK s \in Fetched.defs : u \in RowsOfSchema("pg_attribute", s).defs
      BY <1>1, ServedRows
    <3>2. PICK r \in Rels(s).defs : u.relid = r.oid
      BY <1>2, <3>1 DEF AttributeRow
    <3>3. Rels(s).ok
      BY <1>1, ServedRows, SchemaRows
    <3>4. PICK i \in DOMAIN live : r \in live[i].relations
      BY <3>3, RelationsHere DEF IInv
    <3> QED BY <3>2, <3>4, ContractHolds DEF IInv, HostContract
  <2>3. a \in served["pg_attribute"]
    BY <1>1, <2>2, ServedRows, KeysOfRows DEF ShadowKeyOf
  <2> QED BY <2>1, <2>3
<1>4. CASE row \in UserRows("pg_attrdef")
  <2>1. PICK s \in Fetched.defs : row \in RowsOfSchema("pg_attrdef", s).defs
    BY <1>1, <1>4, ServedRows
  <2>2. PICK r \in Rels(s).defs : \E c \in Cols(s, r) : row = AttrdefRow(c, r)
    BY <2>1, RowMembers
  <2>3. PICK c \in Cols(s, r) : row = AttrdefRow(c, r)
    BY <2>2
  <2>4. AttributeRow(c, r) \in served["pg_attribute"]
    BY <1>1, <1>2, ServedRows
  <2> QED BY <2>3, <2>4 DEF AttributeRow, AttrdefRow
<1> QED BY <1>1, <1>3, <1>4, ServedRows

(* information_schema.columns speaks of tables that were served. *)
LEMMA InfoColumnReferences ==
  ASSUME IInv, Undisturbed, served["tables"] # {}, NEW row \in served["columns"]
  PROVE  \E r \in served["tables"] : r.schema = row.schema /\ r.name = row.relation
<1>1. "tables" \in WalkedTables /\ "columns" \in WalkedTables
  BY DEF WalkedTables
<1>2. CASE row \in Builtin["columns"]
  <2>1. PICK b \in Builtin["tables"] : b.schema = row.schema /\ b.name = row.relation
    BY <1>2, BuiltinIsConsistent
  <2>2. PICK u \in served["tables"] : KeyOf("tables", u) = KeyOf("tables", b)
    BY <1>1, ServedRows DEF ShadowKeyOf
  <2> QED BY <2>1, <2>2, KeysOfRows
<1>3. CASE row \in UserRows("columns")
  <2>1. PICK s \in Fetched.defs : row \in RowsOfSchema("columns", s).defs
    BY <1>1, <1>3, ServedRows
  <2>2. PICK r \in Rels(s).defs : \E c \in Cols(s, r) : row = InfoColumnRow(c, r, s)
    BY <2>1, RowMembers
  <2>3. InfoTableRow(r, s) \in RowsOfSchema("tables", s).defs
    BY <2>2, RowMembers
  <2>4. InfoTableRow(r, s) \in served["tables"]
    BY <1>1, <2>3, ServedRows
  <2> QED BY <2>2, <2>4 DEF InfoTableRow, InfoColumnRow
<1> QED BY <1>1, <1>2, <1>3, ServedRows

(* ... and tables of schemata that were. *)
LEMMA InfoTableReferences ==
  ASSUME IInv, Undisturbed, served["schemata"] # {}, NEW row \in served["tables"]
  PROVE  \E x \in served["schemata"] : x.name = row.schema
<1>1. "tables" \in WalkedTables /\ "schemata" \in WalkedTables
  BY DEF WalkedTables
<1>2. CASE row \in Builtin["tables"]
  <2>1. PICK b \in Builtin["schemata"] : b.name = row.schema
    BY <1>2, BuiltinIsConsistent
  <2>2. PICK u \in served["schemata"] : KeyOf("schemata", u) = KeyOf("schemata", b)
    BY <1>1, ServedRows DEF ShadowKeyOf
  <2> QED BY <2>1, <2>2, KeysOfRows
<1>3. CASE row \in UserRows("tables")
  <2>1. PICK s \in Fetched.defs : row \in RowsOfSchema("tables", s).defs
    BY <1>1, <1>3, ServedRows
  <2>2. row.schema = s.name
    BY <2>1, RowMembers DEF InfoTableRow
  <2>3. [name |-> s.name] \in served["schemata"]
    BY <1>1, ServedRows, SchemaRows
  <2> QED BY <2>2, <2>3
<1> QED BY <1>1, <1>2, <1>3, ServedRows

(***************************************************************************)
(* Whatever the sources hold and however they are combined, as long as the *)
(* host keeps the contract, the references between the tables of one query *)
(* resolve, and a schema is one namespace even while the sources change.   *)
(***************************************************************************)
THEOREM ReferencesAlwaysResolve == Spec => []ReferencesResolve
<1>1. IInv => ReferencesResolve
  <2> SUFFICES ASSUME IInv PROVE ReferencesResolve
    OBVIOUS
  <2>1. \A x, y \in served["pg_namespace"] : (x.name = y.name \/ x.oid = y.oid) => x = y
    BY DEF IInv, NamespacesAreOne
  <2>2. ASSUME Undisturbed
        PROVE  /\ Read({"pg_namespace"}) =>
                    \A t \in {"pg_class", "pg_type"} : \A row \in served[t] :
                      row.ns \in Oids("pg_namespace")
               /\ Read({"pg_class"}) =>
                    /\ \A t \in {"pg_type", "pg_attribute", "pg_index", "pg_constraint"} :
                         \A row \in served[t] : row.relid \in Oids("pg_class")
                    /\ Oids("pg_index") \subseteq Oids("pg_class")
    <3>1. Oids("pg_index") = {row.oid : row \in served["pg_index"]}
      BY DEF Oids
    <3> QED BY <2>2, <3>1, NamespaceReferences, ClassReferences, IndexesAreClasses DEF Read
  <2>3. ASSUME Undisturbed
        PROVE  /\ Read({"pg_attribute"}) =>
                    \A row \in served["pg_attrdef"] : \E a \in served["pg_attribute"] :
                      a.relid = row.relid /\ a.num = row.num
               /\ Read({"tables"}) =>
                    \A row \in served["columns"] : \E r \in served["tables"] :
                      r.schema = row.schema /\ r.name = row.relation
               /\ Read({"schemata"}) =>
                    \A row \in served["tables"] : \E x \in served["schemata"] : x.name = row.schema
    BY <2>3, DefaultReferences, InfoColumnReferences, InfoTableReferences DEF Read
  <2> QED BY <2>1, <2>2, <2>3 DEF ReferencesResolve
<1> QED BY <1>1, IInvIsInvariant, PTL

(* Two relations, or two indexes, of one name cannot both be in pg_class.  *)
LEMMA NamesAreUnique ==
  ASSUME IInv, Undisturbed, served["pg_class"] # {}, NEW kind \in {"relations", "indexes"},
         NEW i \in DOMAIN live, NEW j \in DOMAIN live,
         NEW r \in live[i][kind], NEW q \in live[j][kind],
         r.db = Database, q.db = Database, r.schema = q.schema, r.name = q.name
  PROVE  i = j /\ r = q
<1>1. TypeInv /\ Fetched.ok /\ \A s \in Fetched.defs : Rels(s).ok
  BY ClassesAreServed DEF IInv
<1>2. PICK s \in Fetched.defs : Here(r, s)
  BY <1>1, ObjectsAreReached
<1>3. Here(q, s) /\ Rels(s).ok
  BY <1>1, <1>2 DEF Here
<1>4. r \in Rels(s).defs \cup Inds(s) /\ q \in Rels(s).defs \cup Inds(s)
  <2>1. CASE kind = "relations"
    BY <1>1, <1>2, <1>3, <2>1, RelationsHere
  <2>2. CASE kind = "indexes"
    BY <1>1, <1>2, <1>3, <2>2, IndexesHere
  <2> QED BY <2>1, <2>2
<1>5. ClassRow(r, s) \in UserRows("pg_class") /\ ClassRow(q, s) \in UserRows("pg_class")
  BY <1>4, ClassesAreServed
<1>6. KeyOf("pg_class", ClassRow(r, s)) = KeyOf("pg_class", ClassRow(q, s))
  <2> DEFINE a == ClassRow(r, s)
             b == ClassRow(q, s)
  <2>1. a.ns = b.ns /\ a.name = b.name
    BY DEF ClassRow
  <2> HIDE DEF a, b
  <2>2. KeyOf("pg_class", a) = KeyOf("pg_class", b)
    BY <2>1, KeysOfRows
  <2> QED BY <2>2 DEF a, b
<1>7. ClassRow(r, s) = ClassRow(q, s)
  BY <1>5, <1>6, ClassesAreServed DEF DuplicateKeys
<1>8. r.oid = q.oid
  BY <1>7 DEF ClassRow
<1> QED BY <1>1, <1>8, ContractHolds DEF HostContract

(* Two databases of one name cannot both be in pg_database. *)
LEMMA DatabasesAreUnique ==
  ASSUME IInv, Undisturbed, served["pg_database"] # {},
         NEW i \in DOMAIN live, NEW j \in DOMAIN live,
         NEW d \in live[i].databases, NEW e \in live[j].databases, d.name = e.name
  PROVE  i = j /\ d = e
<1> DEFINE all == Reported(live, "databases")
<1>1. "pg_database" \in Tables /\ "pg_database" \in FlatTables /\ "pg_database" \notin WalkedTables
  BY DEF Tables, FlatTables, WalkedTables
<1>2. TypeInv /\ Answerable("pg_database")
  BY <1>1 DEF IInv, ServedInv, Undisturbed, Faithful
<1>3. RowsOfServer("pg_database") = Databases(live, IsCombined)
  BY DEF RowsOfServer
<1>4. /\ Databases(live, IsCombined).ok
      /\ ~DuplicateKeys("pg_database", Databases(live, IsCombined).defs)
  BY <1>1, <1>2, <1>3 DEF Answerable, UserRows
<1>5. ~(IsCombined /\ Clash(all, "name")) /\ Databases(live, IsCombined).defs = Untagged(all)
  BY <1>4 DEF Databases, Ok, Err
<1>6. <<i, d>> \in all /\ <<j, e>> \in all
  BY ReportedBy
<1> HIDE DEF all
<1>7. CASE IsCombined
  <2>1. <<i, d>>[2]["name"] = <<j, e>>[2]["name"]
    OBVIOUS
  <2>2. <<i, d>> = <<j, e>>
    BY <1>5, <1>6, <1>7, <2>1 DEF Clash
  <2> QED BY <2>2
<1>8. CASE ~IsCombined
  <2>1. i = j
    BY <1>2, <1>8, OneSource
  <2>2. d \in Untagged(all) /\ e \in Untagged(all)
    <3>1. <<i, d>>[2] = d /\ <<j, e>>[2] = e
      OBVIOUS
    <3> QED BY <1>6, <3>1 DEF Untagged
  <2>3. KeyOf("pg_database", d) = KeyOf("pg_database", e)
    BY <1>1, KeysOfRows
  <2> QED BY <1>4, <1>5, <2>1, <2>2, <2>3 DEF DuplicateKeys
<1> QED BY <1>7, <1>8

(***************************************************************************)
(* No answer over standing sources chose between two relations, indexes or *)
(* databases of one name, with any number of sources.                      *)
(***************************************************************************)
THEOREM CollisionsAreAlwaysRefused == Spec => []CollisionsAreRefused
<1>1. IInv => CollisionsAreRefused
  <2> SUFFICES ASSUME IInv, Undisturbed PROVE CollisionsAreRefused
    BY DEF CollisionsAreRefused
  <2>1. ASSUME served["pg_class"] # {}, NEW i \in DOMAIN live, NEW j \in DOMAIN live,
               NEW r \in live[i].relations, NEW q \in live[j].relations, r.db = Database,
               <<r.db, r.schema, r.name>> = <<q.db, q.schema, q.name>>
        PROVE  i = j /\ r = q
    <3> DEFINE kind == "relations"
    <3>1. /\ served["pg_class"] # {} /\ r.db = Database /\ q.db = Database
          /\ r.schema = q.schema /\ r.name = q.name
      BY <2>1
    <3>2. kind \in {"relations", "indexes"} /\ r \in live[i][kind] /\ q \in live[j][kind]
      OBVIOUS
    <3> HIDE DEF kind
    <3> QED BY <3>1, <3>2, NamesAreUnique
  <2>2. ASSUME served["pg_class"] # {}, NEW i \in DOMAIN live, NEW j \in DOMAIN live,
               NEW r \in live[i].indexes, NEW q \in live[j].indexes, r.db = Database,
               <<r.db, r.schema, r.name>> = <<q.db, q.schema, q.name>>
        PROVE  i = j /\ r = q
    <3> DEFINE kind == "indexes"
    <3>1. /\ served["pg_class"] # {} /\ r.db = Database /\ q.db = Database
          /\ r.schema = q.schema /\ r.name = q.name
      BY <2>2
    <3>2. kind \in {"relations", "indexes"} /\ r \in live[i][kind] /\ q \in live[j][kind]
      OBVIOUS
    <3> HIDE DEF kind
    <3> QED BY <3>1, <3>2, NamesAreUnique
  <2>3. ASSUME served["pg_database"] # {}, NEW i \in DOMAIN live, NEW j \in DOMAIN live,
               NEW d \in live[i].databases, NEW e \in live[j].databases, d.name = e.name
        PROVE  i = j /\ d = e
    BY <2>3, DatabasesAreUnique
  <2> QED BY <2>1, <2>2, <2>3 DEF CollisionsAreRefused, Read
<1> QED BY <1>1, IInvIsInvariant, PTL

(* The attributes of a relation of the database are its source's columns.  *)
LEMMA AttributesOfRelation ==
  ASSUME IInv, Undisturbed, served["pg_class"] # {}, served["pg_attribute"] # {},
         NEW i \in DOMAIN live, NEW r \in live[i].relations, NEW name
  PROVE  (\E a \in served["pg_attribute"] : a.relid = r.oid /\ a.name = name) <=>
           r.db = Database /\ name \in ColumnsOf(i, r)
<1>1. "pg_attribute" \in WalkedTables /\ TypeInv
  BY DEF WalkedTables, IInv
<1>2. \A s \in Fetched.defs : Rels(s).ok
  BY ClassesAreServed
<1>3. \A x : x \in ColumnsOf(i, r) <=>
        \E c \in live[i].columns : /\ x = c.name /\ c.db = r.db
                                   /\ c.schema = r.schema /\ c.relation = r.name
  BY DEF ColumnsOf
<1>4. ASSUME NEW a \in served["pg_attribute"], a.relid = r.oid, a.name = name
      PROVE  r.db = Database /\ name \in ColumnsOf(i, r)
  <2>1. a \notin Builtin["pg_attribute"]
    BY <1>1, <1>4, ContractHolds DEF HostContract
  <2>2. PICK s \in Fetched.defs : a \in RowsOfSchema("pg_attribute", s).defs
    BY <1>1, <2>1, ServedRows
  <2>3. PICK q \in Rels(s).defs : \E c \in Cols(s, q) : a = AttributeRow(c, q)
    BY <2>2, RowMembers
  <2>4. PICK c \in Cols(s, q) : a = AttributeRow(c, q)
    BY <2>3
  <2>5. a.relid = q.oid /\ a.name = c.name
    BY <2>4 DEF AttributeRow
  <2>6. PICK j \in DOMAIN live : q \in live[j].relations /\ Here(q, s)
    BY <1>1, <1>2, RelationsHere
  <2>7. i = j /\ r = q
    <3>1. \A x \in live[i].relations, y \in live[j].relations : x.oid = y.oid => i = j /\ x = y
      BY <1>1, ContractHolds DEF HostContract
    <3> QED BY <1>4, <2>5, <2>6, <3>1
  <2>8. c \in live[i].columns /\ Here(c, s) /\ c.relation = r.name
    BY <1>1, <1>2, <2>6, <2>7, ColumnsHere
  <2> QED BY <1>3, <1>4, <2>5, <2>6, <2>7, <2>8 DEF Here
<1>5. ASSUME r.db = Database, name \in ColumnsOf(i, r)
      PROVE  \E a \in served["pg_attribute"] : a.relid = r.oid /\ a.name = name
  <2>1. PICK s \in Fetched.defs : Here(r, s) /\ r \in Rels(s).defs
    BY <1>5, RelationsAreServed
  <2>2. PICK c \in live[i].columns : /\ name = c.name /\ c.db = r.db
                                     /\ c.schema = r.schema /\ c.relation = r.name
    BY <1>3, <1>5
  <2>3. Here(c, s)
    BY <2>1, <2>2 DEF Here
  <2>4. Cols(s, r) = {d \in live[i].columns : Here(d, s) /\ d.relation = r.name}
    BY <1>1, <1>2, <2>1, ColumnsHere
  <2>5. c \in Cols(s, r)
    BY <2>2, <2>3, <2>4
  <2>6. AttributeRow(c, r) \in RowsOfSchema("pg_attribute", s).defs
    BY <2>1, <2>5, RowMembers
  <2>7. AttributeRow(c, r) \in served["pg_attribute"]
    BY <1>1, <2>6, ServedRows
  <2> QED BY <2>2, <2>7 DEF AttributeRow
<1> QED BY <1>4, <1>5

(***************************************************************************)
(* A relation is served with the columns its own source gives, all of them *)
(* and no others, and only relations of the database are served.           *)
(***************************************************************************)
THEOREM ColumnsAlwaysFollow == Spec => []ColumnsFollowTheirRelation
<1>1. IInv => ColumnsFollowTheirRelation
  <2> SUFFICES ASSUME IInv, Undisturbed, Read({"pg_class", "pg_attribute"}),
                      NEW i \in DOMAIN live, NEW r \in live[i].relations
               PROVE  {row.name : row \in {a \in served["pg_attribute"] : a.relid = r.oid}} =
                        IF r.db = Database THEN ColumnsOf(i, r) ELSE {}
    BY DEF ColumnsFollowTheirRelation
  <2>1. served["pg_class"] # {} /\ served["pg_attribute"] # {}
    BY DEF Read
  <2>2. \A name : (\E a \in served["pg_attribute"] : a.relid = r.oid /\ a.name = name) <=>
                    r.db = Database /\ name \in ColumnsOf(i, r)
    BY <2>1, AttributesOfRelation
  <2> DEFINE names == {row.name : row \in {a \in served["pg_attribute"] : a.relid = r.oid}}
             columns == ColumnsOf(i, r)
  <2>3. \A name : name \in names <=> r.db = Database /\ name \in columns
    BY <2>2
  <2> HIDE DEF names, columns
  <2>4. names = IF r.db = Database THEN columns ELSE {}
    BY <2>3
  <2> QED BY <2>4 DEF names, columns
<1> QED BY <1>1, IInvIsInvariant, PTL
=============================================================================
