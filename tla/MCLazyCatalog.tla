--------------------------- MODULE MCLazyCatalog ---------------------------
(***************************************************************************)
(* Instances of LazyCatalog for TLC.  A declared source (its `public` has  *)
(* the canonical OID) and a live one with OIDs far above; the live one     *)
(* mounts tables into the declared database's `public`, which it numbers   *)
(* itself, drops them, reuses a declared name, or repeats a schema name.   *)
(***************************************************************************)
EXTENDS LazyCatalog

CONSTANTS d1, d2, public, system, extra, orders, items, key, id, note, guc

PublicOid == 2200
SystemOid == 11

Empty == [databases |-> {}, schemas |-> {}, relations |-> {}, columns |-> {},
          indexes |-> {}, constraints |-> {}, config |-> {}, settings |-> {}]

Schema(db, name, oid) == [db |-> db, name |-> name, oid |-> oid]
Relation(db, schema, name, oid) == [db |-> db, schema |-> schema, name |-> name, oid |-> oid]
Column(db, schema, relation, name, num) ==
  [db |-> db, schema |-> schema, relation |-> relation, name |-> name, num |-> num,
   default |-> num = 2]

Declared ==
  [Empty EXCEPT
    !.databases = {[name |-> d1]},
    !.schemas = {Schema(d1, public, PublicOid)},
    !.relations = {Relation(d1, public, orders, 20)},
    !.columns = {Column(d1, public, orders, id, 1), Column(d1, public, orders, note, 2)},
    !.indexes = {[db |-> d1, schema |-> public, name |-> key, oid |-> 22, relid |-> 20]},
    !.constraints = {[db |-> d1, schema |-> public, oid |-> 23, ns |-> PublicOid,
                      relid |-> 20]},
    !.config = {[name |-> guc, setting |-> "declared"]},
    !.settings = {[name |-> guc, setting |-> "declared"]}]

\* items mounted into d1.public, and a relation of the same name in d2.
Mounted ==
  [Empty EXCEPT
    !.databases = {[name |-> d2]},
    !.schemas = {Schema(d1, public, 9000), Schema(d1, extra, 9001), Schema(d2, public, 9002)},
    !.relations = {Relation(d1, public, items, 9010), Relation(d1, extra, orders, 9011),
                   Relation(d2, public, orders, 9012)},
    !.columns = {Column(d1, public, items, id, 1), Column(d1, public, items, note, 2),
                 Column(d1, extra, orders, note, 1),
                 Column(d2, public, orders, id, 1)},
    !.config = {[name |-> guc, setting |-> "live"]},
    !.settings = {[name |-> guc, setting |-> "live"]}]

\* A relation that the declared source has too.
Colliding == [Mounted EXCEPT !.relations = @ \cup {Relation(d1, public, orders, 9013)}]

\* The declared database's name again.
Impostor == [Mounted EXCEPT !.databases = {[name |-> d1]}]

\* Two schemas of one name.
Repeating == [Mounted EXCEPT !.schemas = @ \cup {Schema(d1, extra, 9003)}]

\* An index of the name the declared source's index has; a constraint of the
\* mounted table, in the schema as the live source numbers it.
Indexed ==
  [Mounted EXCEPT
    !.indexes = {[db |-> d1, schema |-> public, name |-> key, oid |-> 9020, relid |-> 9010]}]
Constrained ==
  [Mounted EXCEPT
    !.constraints = {[db |-> d1, schema |-> public, oid |-> 9030, ns |-> 9000,
                      relid |-> 9010]}]

Combined == [combined |-> TRUE,
  contents |-> <<{Declared}, {Empty, Mounted, Colliding, Impostor, Repeating, Indexed, Constrained}>>]
Alone == [combined |-> FALSE,
  contents |-> <<{Empty, Declared, Mounted, Repeating,
                  [Declared EXCEPT !.relations = @ \cup {Relation(d1, public, orders, 21)}]}>>]

CombinedOrAlone == <<Combined, Alone>>

BuiltinRows ==
  [t \in Tables |->
    CASE t = "pg_namespace" -> {[oid |-> SystemOid, name |-> system],
                                [oid |-> PublicOid, name |-> public]}
      [] t = "pg_class"     -> {[oid |-> 1259, ns |-> SystemOid, name |-> items]}
      [] t = "pg_attribute" -> {[relid |-> 1259, name |-> id, num |-> 1]}
      [] t = "pg_settings"  -> {[name |-> guc, setting |-> "builtin"]}
      [] OTHER              -> {}]

Queries == {{"pg_namespace", "pg_class", "pg_attribute"},
            {"pg_namespace", "pg_class", "pg_type"},
            {"pg_namespace", "pg_class", "pg_index", "pg_constraint"},
            {"pg_class", "pg_attribute", "pg_attrdef"},
            {"tables", "columns", "schemata"},
            {"pg_database", "pg_config", "pg_settings", "pg_namespace"}}
=============================================================================
