---------------------------- MODULE CatalogSource ----------------------------
(***************************************************************************)
(* What a LazyCatalogSource answers, and what CombinedCatalogSource makes  *)
(* of the answers of several sources.                                      *)
(*                                                                         *)
(* The contents of one source are sets of definitions, kept to the fields  *)
(* that the merge and the references between catalog tables depend on:     *)
(*   databases    [name]                                                   *)
(*   schemas      [db, name, oid]                                          *)
(*   relations    [db, schema, name, oid]                                  *)
(*   columns      [db, schema, relation, name, num, default]               *)
(*   indexes      [db, schema, name, oid, relid]                           *)
(*   constraints  [db, schema, oid, ns, relid]                             *)
(*   config       [name, setting]                                          *)
(*   settings     [name, setting]                                          *)
(* A column's num is its place in the list its source gives.               *)
(* A source that reports an object twice has two definitions of one name.  *)
(***************************************************************************)
EXTENDS Integers

\* Every definition of a kind with the position of the source reporting it.
Reported(live, kind) ==
  UNION {{<<i, def>> : def \in live[i][kind]} : i \in DOMAIN live}

Untagged(tagged) == {x[2] : x \in tagged}

\* Some key occurs twice: `if !seen.insert(key) { return Err }`.
Clash(tagged, key) == \E x, y \in tagged : x # y /\ x[2][key] = y[2][key]

\* The first definition whose key has the given value.
First(tagged, key, value) ==
  CHOOSE y \in tagged :
    /\ y[2][key] = value
    /\ \A z \in tagged : z[2][key] = value => y[1] <= z[1]

\* defs.retain(|def| seen.insert(key)): of each key the earliest one stays.
Earliest(tagged, key) == Untagged({x \in tagged : x = First(tagged, key, x[2][key])})

\* What a method gives its caller: definitions, or an error.
Ok(defs) == [ok |-> TRUE, defs |-> defs]
Err == [ok |-> FALSE, defs |-> {}]

-----------------------------------------------------------------------------
(***************************************************************************)
(* The methods of CombinedCatalogSource.  With one source that is not      *)
(* wrapped (combined = FALSE) the answers pass through as they are.        *)
(***************************************************************************)
Databases(live, combined) ==
  LET all == Reported(live, "databases")
  IN  IF combined /\ Clash(all, "name") THEN Err ELSE Ok(Untagged(all))

Schemas(live, combined, db) ==
  LET all == {x \in Reported(live, "schemas") : x[2].db = db}
  IN  Ok(IF combined THEN Earliest(all, "name") ELSE Untagged(all))

InSchema(tagged, db, schema) ==
  {x \in tagged : x[2].db = db /\ x[2].schema = schema}

\* Mutant: of two relations of one name the earlier source's wins.
RelationsEarliest(live, combined, db, schema) ==
  Ok(Earliest(InSchema(Reported(live, "relations"), db, schema), "name"))

Relations(live, combined, db, schema) ==
  LET all == InSchema(Reported(live, "relations"), db, schema)
  IN  IF combined /\ Clash(all, "name") THEN Err ELSE Ok(Untagged(all))

\* Mutant: columns are looked up by relation name in every schema.
ColumnsAnySchema(live, db, schema, relation) ==
  LET all == {x \in Reported(live, "columns") : x[2].db = db /\ x[2].relation = relation}
  IN  Ok({x[2] : x \in {y \in all : \A z \in all : y[1] <= z[1]}})

\* The first source with a non-empty answer gives all the columns.
Columns(live, db, schema, relation) ==
  LET all == {x \in InSchema(Reported(live, "columns"), db, schema) :
                x[2].relation = relation}
  IN  Ok({x[2] : x \in {y \in all : \A z \in all : y[1] <= z[1]}})

Indexes(live, combined, db, schema) ==
  LET all == InSchema(Reported(live, "indexes"), db, schema)
  IN  Ok(IF combined THEN Earliest(all, "oid") ELSE Untagged(all))

Constraints(live, combined, db, schema) ==
  LET all == InSchema(Reported(live, "constraints"), db, schema)
  IN  Ok(IF combined THEN Earliest(all, "oid") ELSE Untagged(all))

Config(live, combined) ==
  LET all == Reported(live, "config")
  IN  Ok(IF combined THEN Earliest(all, "name") ELSE Untagged(all))

Settings(live, combined) ==
  LET all == Reported(live, "settings")
  IN  Ok(IF combined THEN Earliest(all, "name") ELSE Untagged(all))

-----------------------------------------------------------------------------
\* fetch_schemas: nspname is unique in a database, and the merge could not
\* enforce it, so a repeated name is refused here.
FetchSchemas(live, combined, db) ==
  LET answer == Schemas(live, combined, db)
  IN  IF \E s, t \in answer.defs : s # t /\ s.name = t.name THEN Err ELSE answer
=============================================================================
