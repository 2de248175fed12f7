------------------------ MODULE DeclaredCatalogProofs ------------------------
(***************************************************************************)
(* Proofs about DeclaredCatalog for any number of builders, argument       *)
(* lists, names, process runs and sources, and any size of the OID space.  *)
(***************************************************************************)
EXTENDS DeclaredCatalog, SequenceTheorems, FiniteSetTheorems, TLAPS

---------------------------------------------------------------------------
(* What the allocator's arithmetic does to a registry, free of processes,  *)
(* transactions and builders.                                              *)

(* A span is one number or two. *)
LEMMA SpanType == \A k : Span(k) \in {1, 2}
BY DEF Span

(* The operators the transaction is built from stay within the type of     *)
(* a registry, as long as the allocation fits.                             *)
LEMMA EmptyRegistryType == EmptyRegistry \in Registry
BY OidRange DEF EmptyRegistry, Registry, Oid32, NoOid

(* The counter as it is read is never the absent one. *)
LEMMA NextOidType == \A reg \in Registry : NextOid(reg) \in 1 .. MaxOid
BY OidRange DEF NextOid, Registry, Oid32, NoOid

(* Bumping the counter leaves the tables alone and keeps the i32. *)
LEMMA AdvancedType ==
  ASSUME NEW reg \in Registry, NEW k \in Keys, Fits(NextOid(reg), Span(k))
  PROVE  /\ Advanced(reg, Span(k)) \in Registry
         /\ Advanced(reg, Span(k)).recorded = reg.recorded
         /\ Advanced(reg, Span(k)).next = NextOid(reg) + Span(k)
BY NextOidType, SpanType, OidRange DEF Advanced, Fits, Registry, Oid32

(* Inserting a table entry leaves the counter and other entries alone. *)
LEMMA RecordedType ==
  ASSUME NEW reg \in Registry, NEW k \in Keys, NEW n \in Oid32
  PROVE  /\ Recorded(reg, k, n) \in Registry
         /\ Recorded(reg, k, n).recorded = [reg.recorded EXCEPT ![k] = n]
         /\ Recorded(reg, k, n).next = reg.next
BY DEF Recorded, Registry

(***************************************************************************)
(* The heart of the matter, free of processes and steps: recording a new   *)
(* name at the counter and moving the counter past its span keeps every    *)
(* number below the counter, the objects disjoint and the numbers dense.   *)
(***************************************************************************)
LEMMA AllocationIsSound ==
  ASSUME NEW reg \in Registry, NEW k \in Keys, NEW new,
         Below(reg), Disjoint(reg), Dense(reg),
         reg.recorded[k] = NoOid, Fits(NextOid(reg), Span(k)),
         new = Recorded(Advanced(reg, Span(k)), k, NextOid(reg))
  PROVE  /\ new \in Registry /\ Below(new) /\ Disjoint(new) /\ Dense(new)
         /\ new.recorded = [reg.recorded EXCEPT ![k] = NextOid(reg)]
         /\ NextOid(reg) # NoOid
<1> DEFINE n == NextOid(reg)
<1>1. /\ n \in 1 .. MaxOid /\ n \in Oid32 /\ n # NoOid
      /\ Span(k) \in {1, 2} /\ n + Span(k) <= MaxOid
  BY NextOidType, SpanType, OidRange DEF Oid32, NoOid, Fits
<1>2. /\ new \in Registry
      /\ new.recorded = [reg.recorded EXCEPT ![k] = n]
      /\ new.next = n + Span(k)
  BY <1>1, AdvancedType, RecordedType
<1>3. NextOid(new) = n + Span(k)
  BY <1>1, <1>2 DEF NextOid, NoOid
<1>4. /\ new.recorded[k] = n
      /\ \A j \in Keys : j # k => new.recorded[j] = reg.recorded[j]
      /\ \A j \in Keys : reg.recorded[j] \in Oid32
  BY <1>2 DEF Registry
<1>5. Known(new) = Known(reg) \cup {k} /\ k \notin Known(reg)
  BY <1>1, <1>4 DEF Known
<1>6. \A j \in Known(reg) : /\ Oids(new, j) = Oids(reg, j)
                            /\ Oids(reg, j) \subseteq FirstUserOid .. n - 1
  <2> SUFFICES ASSUME NEW j \in Known(reg)
               PROVE  Oids(new, j) = Oids(reg, j) /\ Oids(reg, j) \subseteq FirstUserOid .. n - 1
    OBVIOUS
  <2>1. j \in Keys /\ j # k /\ reg.recorded[j] \in Int /\ Span(j) \in Int
    BY <1>4, <1>5, SpanType, OidRange DEF Known, Oid32
  <2>2. FirstUserOid <= reg.recorded[j] /\ reg.recorded[j] + Span(j) <= n
    BY DEF Below
  <2> QED BY <1>1, <1>4, <2>1, <2>2, OidRange DEF Oids
<1>7. Oids(new, k) = n .. n + Span(k) - 1
  BY <1>4 DEF Oids
<1>8. Below(new)
  <2>1. FirstUserOid <= n
    BY DEF Below
  <2>2. \A j \in Known(reg) : /\ FirstUserOid <= new.recorded[j]
                              /\ new.recorded[j] + Span(j) <= n + Span(k)
    <3> SUFFICES ASSUME NEW j \in Known(reg)
                 PROVE  /\ FirstUserOid <= new.recorded[j]
                        /\ new.recorded[j] + Span(j) <= n + Span(k)
      OBVIOUS
    <3>1. new.recorded[j] = reg.recorded[j] /\ reg.recorded[j] \in Oid32
      BY <1>4, <1>5 DEF Known
    <3>2. FirstUserOid <= reg.recorded[j] /\ reg.recorded[j] + Span(j) <= n
      BY DEF Below
    <3> QED BY <1>1, <3>1, <3>2, SpanType, OidRange DEF Oid32
  <2> QED BY <1>1, <1>3, <1>4, <1>5, <2>1, <2>2, OidRange DEF Below
<1>9. Disjoint(new)
  <2>1. \A j \in Known(reg) : Oids(new, j) \cap Oids(new, k) = {}
    BY <1>1, <1>6, <1>7, OidRange
  <2> QED BY <1>5, <1>6, <2>1 DEF Disjoint
<1>10. Dense(new)
  <2> SUFFICES ASSUME NEW i \in FirstUserOid .. MaxOid
               PROVE  i < n + Span(k) <=> \E j \in Known(new) : i \in Oids(new, j)
    BY <1>3 DEF Dense
  <2>1. i < n <=> \E j \in Known(reg) : i \in Oids(reg, j)
    BY DEF Dense
  <2>2. i \in Oids(new, k) <=> n <= i /\ i < n + Span(k)
    BY <1>1, <1>7, OidRange
  <2>3. i < n + Span(k) <=> i < n \/ (n <= i /\ i < n + Span(k))
    BY <1>1, OidRange
  <2> QED BY <1>5, <1>6, <2>1, <2>2, <2>3
<1> QED BY <1>1, <1>2, <1>8, <1>9, <1>10

---------------------------------------------------------------------------

(* What a row says is what the registry has recorded for its name, or the  *)
(* built-in number of `public`.                                            *)
RowSound(reg, row) ==
  IF IsPublic(row[1])
  THEN row[2] = PublicSchemaOid
  ELSE row[1] \in Keys /\ reg.recorded[row[1]] = row[2] /\ row[2] # NoOid

RowsSound(reg, rows) ==
  \A row \in rows.databases \cup rows.schemas \cup rows.relations : RowSound(reg, row)

RegistrySound == Below(registry) /\ Disjoint(registry) /\ Dense(registry)

(* The numbers of the sources of this run, or of every run of a file-      *)
(* backed registry, are the registry's.                                    *)
PublishedSound ==
  \A s \in published :
    /\ s.run <= run
    /\ durable \/ s.run = run => RowsSound(registry, s.rows)

NamingInv ==
  /\ TypeOK
  /\ RegistrySound
  /\ \A b \in Builders : phase[b] = "relation" => todo[b].tables # <<>>
  /\ \A b \in Builders : RowsSound(registry, source[b])
  /\ PublishedSound
  /\ NamesKeepTheirOids
  /\ OidsIdentifyObjects

Tables == {"databases", "schemas", "relations"}

KeysOf(table) == CASE table = "databases" -> DatabaseKeys
                   [] table = "schemas"   -> SchemaKeys
                   [] table = "relations" -> RelationKeys

(* The names of the three lists are keys of the registry, and only a       *)
(* schema is ever `public`.                                                *)
LEMMA KeyShapes ==
  /\ \A table \in Tables : KeysOf(table) \subseteq Keys
  /\ \A k \in DatabaseKeys \cup RelationKeys : ~IsPublic(k)
  /\ \A k \in SchemaKeys : IsPublic(k) <=> k[2] = PublicSchema
BY DEF Tables, KeysOf, Keys, DatabaseKeys, SchemaKeys, RelationKeys, IsPublic

(***************************************************************************)
(* A registry call that succeeds answers the number it has recorded, keeps *)
(* every number it had recorded before, and leaves a sound registry.       *)
(***************************************************************************)
Grown(reg, new) ==
  \A j \in Keys : reg.recorded[j] # NoOid => new.recorded[j] = reg.recorded[j]

(* The call, with the number it answers, on a registry that is sound. *)
LEMMA ResolvedSound ==
  ASSUME registry \in Registry, RegistrySound, NEW k \in Keys, CanResolve(k)
  PROVE  /\ Resolved(k) \in Registry
         /\ Below(Resolved(k)) /\ Disjoint(Resolved(k)) /\ Dense(Resolved(k))
         /\ Grown(registry, Resolved(k))
         /\ ResolvedOid(k) \in Oid32 /\ ResolvedOid(k) # NoOid
         /\ Resolved(k).recorded[k] = ResolvedOid(k)
<1>1. CASE registry.recorded[k] # NoOid
  BY <1>1 DEF Resolved, ResolvedOid, RegistrySound, Grown, Registry
<1>2. CASE registry.recorded[k] = NoOid
  <2>1. Fits(NextOid(registry), Span(k))
    BY <1>2 DEF CanResolve
  <2>2. /\ Resolved(k) = Recorded(Advanced(registry, Span(k)), k, NextOid(registry))
        /\ ResolvedOid(k) = NextOid(registry)
    BY <1>2 DEF Resolved, ResolvedOid
  <2>3. /\ Resolved(k) \in Registry
        /\ Below(Resolved(k)) /\ Disjoint(Resolved(k)) /\ Dense(Resolved(k))
        /\ Resolved(k).recorded = [registry.recorded EXCEPT ![k] = NextOid(registry)]
        /\ NextOid(registry) # NoOid
    BY <1>2, <2>1, <2>2, AllocationIsSound DEF RegistrySound
  <2>4. registry.recorded \in [Keys -> Oid32] /\ NextOid(registry) \in Oid32
    BY NextOidType, OidRange DEF Registry, Oid32
  <2> QED BY <1>2, <2>2, <2>3, <2>4 DEF Grown
<1> QED BY <1>1, <1>2

(* Rows stay sound while the registry only learns new names. *)
LEMMA GrowthKeepsRows ==
  ASSUME NEW reg, NEW new, Grown(reg, new), NEW rows, RowsSound(reg, rows)
  PROVE  RowsSound(new, rows)
BY DEF Grown, RowsSound, RowSound

(* A row joins builder b's source, with the number of its name. *)
RowAdded(b, table, k) ==
  \E n \in Oid32 :
    /\ source' = [source EXCEPT ![b][table] = @ \cup {<<k, n>>}]
    /\ RowSound(registry', <<k, n>>)
    /\ registry' \in Registry /\ RegistrySound'
    /\ Grown(registry, registry')

(* It does after a registry call, *)
LEMMA ResolveAddsRow ==
  ASSUME NamingInv, NEW b \in Builders, NEW table \in Tables, NEW k \in KeysOf(table),
         ~IsPublic(k), ResolveInto(b, table, k)
  PROVE  RowAdded(b, table, k)
<1>1. k \in Keys
  BY KeyShapes
<1>2. /\ Resolved(k) \in Registry
      /\ Below(Resolved(k)) /\ Disjoint(Resolved(k)) /\ Dense(Resolved(k))
      /\ Grown(registry, Resolved(k))
      /\ ResolvedOid(k) \in Oid32 /\ ResolvedOid(k) # NoOid
      /\ Resolved(k).recorded[k] = ResolvedOid(k)
  BY <1>1, ResolvedSound DEF ResolveInto, NamingInv, TypeOK
<1>3. registry' = Resolved(k)
  BY DEF ResolveInto
<1>4. RegistrySound'
  BY <1>2, <1>3 DEF RegistrySound
<1>5. RowSound(registry', <<k, ResolvedOid(k)>>)
  BY <1>1, <1>2, <1>3 DEF RowSound
<1>6. source' = [source EXCEPT ![b][table] = @ \cup {<<k, ResolvedOid(k)>>}]
  BY DEF ResolveInto
<1> QED BY <1>2, <1>3, <1>4, <1>5, <1>6 DEF RowAdded

(* and for a schema, `public` or not. *)
LEMMA SchemaRowAdded ==
  ASSUME NamingInv, NEW b \in Builders, NEW k \in SchemaKeys, DeclaredSchemaRow(b, k)
  PROVE  RowAdded(b, "schemas", k)
<1>1. CASE k[2] # PublicSchema
  <2>1. ~IsPublic(k) /\ k \in KeysOf("schemas") /\ "schemas" \in Tables
    BY <1>1, KeyShapes DEF KeysOf, Tables
  <2>2. ResolveInto(b, "schemas", k)
    BY <1>1 DEF DeclaredSchemaRow
  <2> QED BY <2>1, <2>2, ResolveAddsRow
<1>2. CASE k[2] = PublicSchema
  <2>1. /\ source' = [source EXCEPT ![b]["schemas"] = @ \cup {<<k, PublicSchemaOid>>}]
        /\ registry' = registry
    BY <1>2 DEF DeclaredSchemaRow, ResolveInto
  <2>2. RowSound(registry', <<k, PublicSchemaOid>>)
    BY <1>2, KeyShapes DEF RowSound
  <2>3. registry' \in Registry /\ RegistrySound' /\ Grown(registry, registry')
    BY <2>1 DEF NamingInv, TypeOK, RegistrySound, Grown, Below, Disjoint, Dense, Known,
                Oids, NextOid
  <2>4. PublicSchemaOid \in Oid32
    BY DeclaredConstants, OidRange DEF Oid32
  <2> QED BY <2>1, <2>2, <2>3, <2>4 DEF RowAdded
<1> QED BY <1>1, <1>2

(***************************************************************************)
(* The first invariant: what every step keeps of the numbers.              *)
(***************************************************************************)
NamingKept ==
  /\ registry' \in Registry /\ RegistrySound'
  /\ source' \in [Builders -> Rows]
  /\ \A b \in Builders : RowsSound(registry', source'[b])
  /\ PublishedSound' /\ NamesKeepTheirOids' /\ OidsIdentifyObjects'
  /\ published' \in SUBSET [run : Nat, given : Declaration, rows : Rows]

(* A step that changes neither the published sources nor the run keeps     *)
(* what is said of them while the registry grows.                          *)
LEMMA PublishedAlone ==
  ASSUME NamingInv, UNCHANGED <<durable, run, published>>, Grown(registry, registry')
  PROVE  /\ PublishedSound' /\ NamesKeepTheirOids' /\ OidsIdentifyObjects'
         /\ published' \in SUBSET [run : Nat, given : Declaration, rows : Rows]
<1>1. PublishedSound'
  BY GrowthKeepsRows DEF NamingInv, PublishedSound
<1>2. NamesKeepTheirOids' /\ OidsIdentifyObjects'
  BY DEF NamingInv, NamesKeepTheirOids, OidsIdentifyObjects, AllRows, Comparable
<1> QED BY <1>1, <1>2 DEF NamingInv, TypeOK

(* A row joins a source: other sources keep their numbers. *)
LEMMA AddingKeepsNaming ==
  ASSUME NamingInv, NEW b \in Builders, NEW table \in Tables, NEW k \in KeysOf(table),
         RowAdded(b, table, k), UNCHANGED <<durable, run, published>>
  PROVE  NamingKept
<1>1. PICK n \in Oid32 :
        /\ source' = [source EXCEPT ![b][table] = @ \cup {<<k, n>>}]
        /\ RowSound(registry', <<k, n>>)
        /\ registry' \in Registry /\ RegistrySound'
        /\ Grown(registry, registry')
  BY DEF RowAdded
<1>2. source'[b] = [source[b] EXCEPT ![table] = @ \cup {<<k, n>>}]
  BY <1>1 DEF NamingInv, TypeOK
<1>3. \A c \in Builders : c # b => source'[c] = source[c]
  BY <1>1 DEF NamingInv, TypeOK
<1>4. source'[b] \in Rows /\ RowsSound(registry', source'[b])
  <2>1. source[b] \in Rows /\ <<k, n>> \in KeysOf(table) \X Oid32
    BY DEF NamingInv, TypeOK
  <2>2. RowsSound(registry', source[b])
    BY <1>1, GrowthKeepsRows DEF NamingInv
  <2>3. source'[b] \in Rows
    BY <1>2, <2>1 DEF Rows, Tables, KeysOf
  <2>4. /\ source'[b].databases \subseteq source[b].databases \cup {<<k, n>>}
        /\ source'[b].schemas \subseteq source[b].schemas \cup {<<k, n>>}
        /\ source'[b].relations \subseteq source[b].relations \cup {<<k, n>>}
    BY <1>2, <2>1 DEF Rows, Tables
  <2> QED BY <1>1, <2>2, <2>3, <2>4 DEF RowsSound
<1>5. \A c \in Builders : c # b => source'[c] \in Rows /\ RowsSound(registry', source'[c])
  BY <1>1, <1>3, GrowthKeepsRows DEF NamingInv, TypeOK
<1>6. source' \in [Builders -> Rows]
  BY <1>1, <1>4, <1>5 DEF NamingInv, TypeOK
<1> QED BY <1>1, <1>4, <1>5, <1>6, PublishedAlone DEF NamingKept

(* A step that leaves registry and published sources alone, and every      *)
(* source as it was or empty.                                              *)
LEMMA NamingAlone ==
  ASSUME NamingInv, UNCHANGED <<durable, registry, run, published>>,
         source' \in [Builders -> Rows],
         \A b \in Builders : source'[b] \in {source[b], NoRows}
  PROVE  NamingKept
<1>1. RowsSound(registry', NoRows)
  BY DEF NoRows, RowsSound
<1>2. Grown(registry, registry') /\ RegistrySound' /\ registry' \in Registry
  BY DEF Grown, NamingInv, TypeOK, RegistrySound, Below, Disjoint, Dense, Known, Oids, NextOid
<1>3. \A b \in Builders : RowsSound(registry', source'[b])
  BY <1>1 DEF NamingInv
<1> QED BY <1>2, <1>3, PublishedAlone DEF NamingKept

(***************************************************************************)
(* Two rows with numbers from one sound registry: one name has one number, *)
(* and overlapping numbers are one name's, or `public`'s.                  *)
(***************************************************************************)
LEMMA RowsAgree ==
  ASSUME NEW reg \in Registry, Below(reg), Disjoint(reg), NEW x, NEW y,
         RowSound(reg, x), RowSound(reg, y)
  PROVE  /\ x[1] = y[1] => x[2] = y[2]
         /\ NumbersOf(x) \cap NumbersOf(y) # {} =>
              x[1] = y[1] \/ (IsPublic(x[1]) /\ IsPublic(y[1]))
<1>1. x[1] = y[1] => x[2] = y[2]
  BY DEF RowSound
<1>2. \A k : IsPublic(k) => Span(k) = 1
  BY DEF IsPublic, Span, RelationKeys
<1>3. ASSUME NEW r, RowSound(reg, r), IsPublic(r[1])
      PROVE  NumbersOf(r) = {PublicSchemaOid} /\ PublicSchemaOid < FirstUserOid
  BY <1>2, <1>3, DeclaredConstants, OidRange DEF RowSound, NumbersOf
<1>4. ASSUME NEW r, RowSound(reg, r), ~IsPublic(r[1])
      PROVE  /\ r[1] \in Known(reg) /\ NumbersOf(r) = Oids(reg, r[1])
             /\ \A n \in NumbersOf(r) : n >= FirstUserOid
  <2>1. r[1] \in Known(reg) /\ reg.recorded[r[1]] = r[2] /\ r[2] \in Oid32
    BY <1>4 DEF RowSound, Known, Registry
  <2>2. NumbersOf(r) = Oids(reg, r[1])
    BY <2>1 DEF NumbersOf, Oids
  <2>3. FirstUserOid <= r[2] /\ Span(r[1]) \in {1, 2}
    BY <2>1, SpanType DEF Below
  <2> QED BY <2>1, <2>2, <2>3, OidRange DEF NumbersOf, Oid32
<1>5. ASSUME NumbersOf(x) \cap NumbersOf(y) # {}
      PROVE  x[1] = y[1] \/ (IsPublic(x[1]) /\ IsPublic(y[1]))
  <2>1. CASE IsPublic(x[1]) /\ ~IsPublic(y[1])
    BY <1>3, <1>4, <1>5, <2>1, DeclaredConstants, OidRange
  <2>2. CASE ~IsPublic(x[1]) /\ IsPublic(y[1])
    BY <1>3, <1>4, <1>5, <2>2, DeclaredConstants, OidRange
  <2>3. CASE ~IsPublic(x[1]) /\ ~IsPublic(y[1])
    BY <1>4, <1>5, <2>3 DEF Disjoint
  <2> QED BY <2>1, <2>2, <2>3
<1> QED BY <1>1, <1>5

(* The pairs and triples of the argument lists are the registry's keys. *)
LEMMA KeySets ==
  /\ \A k \in Databases \X Schemas : k \in SchemaKeys
  /\ \A k \in Databases \X Schemas \X Relations : k \in RelationKeys
BY DEF SchemaKeys, RelationKeys

(* What a builder's lists contribute: the next name of a list is a key of  *)
(* its kind.                                                               *)
LEMMA NextNames ==
  ASSUME TypeOK, NEW b \in Builders
  PROVE  /\ todo[b].databases # <<>> =>
              /\ <<Head(todo[b].databases)>> \in DatabaseKeys
              /\ [todo[b] EXCEPT !.databases = Tail(@)] \in Declaration
         /\ todo[b].schemas # <<>> =>
              /\ Head(todo[b].schemas) \in SchemaKeys
              /\ [todo[b] EXCEPT !.schemas = Tail(@)] \in Declaration
         /\ todo[b].tables # <<>> =>
              /\ Head(todo[b].tables) \in RelationKeys
              /\ TableSchema(b) \in SchemaKeys
              /\ [todo[b] EXCEPT !.tables = Tail(@)] \in Declaration
<1>1. todo[b] \in Declaration
  BY DEF TypeOK
<1>2. /\ todo[b].databases \in Seq(Databases)
      /\ todo[b].schemas \in Seq(Databases \X Schemas)
      /\ todo[b].tables \in Seq(Databases \X Schemas \X Relations)
  BY <1>1 DEF Declaration
<1>3. ASSUME todo[b].databases # <<>>
      PROVE  /\ <<Head(todo[b].databases)>> \in DatabaseKeys
             /\ [todo[b] EXCEPT !.databases = Tail(@)] \in Declaration
  <2>1. Head(todo[b].databases) \in Databases /\ Tail(todo[b].databases) \in Seq(Databases)
    BY <1>2, <1>3, HeadTailProperties
  <2> QED BY <1>1, <2>1 DEF DatabaseKeys, Declaration
<1>4. ASSUME todo[b].schemas # <<>>
      PROVE  /\ Head(todo[b].schemas) \in SchemaKeys
             /\ [todo[b] EXCEPT !.schemas = Tail(@)] \in Declaration
  <2>1. /\ Head(todo[b].schemas) \in Databases \X Schemas
        /\ Tail(todo[b].schemas) \in Seq(Databases \X Schemas)
    BY <1>2, <1>4, HeadTailProperties
  <2>2. [todo[b] EXCEPT !.schemas = Tail(@)] \in Declaration
    BY <1>1, <2>1 DEF Declaration
  <2> QED BY <2>1, <2>2, KeySets
<1>5. ASSUME todo[b].tables # <<>>
      PROVE  /\ Head(todo[b].tables) \in RelationKeys
             /\ TableSchema(b) \in SchemaKeys
             /\ [todo[b] EXCEPT !.tables = Tail(@)] \in Declaration
  <2>1. /\ Head(todo[b].tables) \in Databases \X Schemas \X Relations
        /\ Tail(todo[b].tables) \in Seq(Databases \X Schemas \X Relations)
    BY <1>2, <1>5, HeadTailProperties
  <2>2. [todo[b] EXCEPT !.tables = Tail(@)] \in Declaration
    BY <1>1, <2>1 DEF Declaration
  <2>3. TableSchema(b) \in SchemaKeys
    BY <2>1, KeySets DEF TableSchema, SchemaKeys
  <2> QED BY <2>1, <2>2, <2>3, KeySets
<1> QED BY <1>3, <1>4, <1>5

(***************************************************************************)
(* What every step keeps of the builders' control.                         *)
(***************************************************************************)
ControlKept ==
  /\ durable' \in BOOLEAN /\ run' \in Nat
  /\ phase' \in [Builders -> {"idle", "databases", "schemas", "tables", "relation"}]
  /\ todo' \in [Builders -> Declaration]
  /\ given' \in [Builders -> Declaration]
  /\ \A b \in Builders : phase'[b] = "relation" => todo'[b].tables # <<>>

(* Keeping the naming and the control is keeping the naming invariant. *)
LEMMA KeptIsInv ==
  ASSUME NamingKept, ControlKept
  PROVE  NamingInv'
<1>1. TypeOK'
  BY DEF NamingKept, ControlKept, TypeOK
<1> QED BY <1>1 DEF NamingKept, ControlKept, NamingInv

(* The empty lists and the empty source. *)
LEMMA EmptyLists == NoDeclarations \in Declaration /\ NoRows \in Rows
<1>1. /\ <<>> \in Seq(Databases)
      /\ <<>> \in Seq(Databases \X Schemas)
      /\ <<>> \in Seq(Databases \X Schemas \X Relations)
  BY EmptySeq
<1> QED BY <1>1 DEF NoDeclarations, Declaration, NoRows, Rows

(* A builder that stops with an error. *)
LEMMA RefuseKeepsNaming ==
  ASSUME NamingInv, NEW b \in Builders, Refuse(b)
  PROVE  NamingInv'
<1>1. NamingKept
  <2>1. source' \in [Builders -> Rows]
    BY EmptyLists DEF NamingInv, TypeOK, Refuse, Finish
  <2>2. \A c \in Builders : source'[c] \in {source[c], NoRows}
    BY DEF NamingInv, TypeOK, Refuse, Finish
  <2> QED BY <2>1, <2>2, NamingAlone DEF Refuse
<1>2. ControlKept
  BY EmptyLists DEF NamingInv, TypeOK, ControlKept, Refuse, Finish
<1> QED BY <1>1, <1>2, KeptIsInv

(* A builder that only moves on: to the first loop, or to the next one. *)
LEMMA MoveKeepsNaming ==
  ASSUME NamingInv, NEW b \in Builders, NEW p \in {"databases", "schemas", "tables"},
         phase' = [phase EXCEPT ![b] = p],
         todo' \in [Builders -> Declaration], given' \in [Builders -> Declaration],
         \A c \in Builders : c # b => todo'[c] = todo[c],
         UNCHANGED <<durable, registry, run, source, published>>
  PROVE  NamingInv'
<1>1. NamingKept
  BY NamingAlone DEF NamingInv, TypeOK
<1>2. ControlKept
  BY DEF NamingInv, TypeOK, ControlKept
<1> QED BY <1>1, <1>2, KeptIsInv

(* The empty registry is sound, vacuously. *)
LEMMA EmptyRegistrySound ==
  ASSUME NEW reg, reg = EmptyRegistry
  PROVE  reg \in Registry /\ Below(reg) /\ Disjoint(reg) /\ Dense(reg) /\ Known(reg) = {}
<1>1. Known(reg) = {} /\ NextOid(reg) = FirstUserOid
  BY DEF EmptyRegistry, Known, NextOid
<1>2. reg \in Registry
  BY EmptyRegistryType
<1> QED BY <1>1, <1>2, OidRange DEF Below, Disjoint, Dense

(* The invariant holds before the first builder starts. *)
LEMMA InitNaming == Init => NamingInv
<1> SUFFICES ASSUME Init PROVE NamingInv
  OBVIOUS
<1>1. registry \in Registry /\ RegistrySound
  BY EmptyRegistrySound DEF Init, RegistrySound
<1>2. TypeOK
  BY <1>1, EmptyLists DEF Init, TypeOK
<1>3. \A b \in Builders : phase[b] # "relation" /\ RowsSound(registry, source[b])
  BY DEF Init, RowsSound, NoRows
<1>4. PublishedSound /\ NamesKeepTheirOids /\ OidsIdentifyObjects
  BY DEF Init, PublishedSound, NamesKeepTheirOids, OidsIdentifyObjects
<1> QED BY <1>1, <1>2, <1>3, <1>4 DEF NamingInv

(* A declaration that is accepted pushes its row and leaves its list. *)
LEMMA DeclareKeepsNaming ==
  ASSUME NamingInv, NEW b \in Builders,
         DeclareDatabase(b) \/ DeclareSchema(b) \/ ImplySchema(b) \/ DeclareTable(b)
  PROVE  NamingInv'
<1>1. CASE DeclareDatabase(b)
  <2> DEFINE k == <<Head(todo[b].databases)>>
  <2>1. k \in DatabaseKeys /\ [todo[b] EXCEPT !.databases = Tail(@)] \in Declaration
    BY <1>1, NextNames DEF NamingInv, DeclareDatabase, DatabaseAccepted
  <2>2. k \in KeysOf("databases") /\ "databases" \in Tables /\ ~IsPublic(k)
    BY <2>1, KeyShapes DEF KeysOf, Tables
  <2>3. ResolveInto(b, "databases", k) /\ UNCHANGED <<durable, run, published>>
    BY <1>1 DEF DeclareDatabase
  <2> HIDE DEF k
  <2>4. NamingKept
    BY <2>2, <2>3, ResolveAddsRow, AddingKeepsNaming
  <2>5. ControlKept
    BY <1>1, <2>1 DEF NamingInv, TypeOK, ControlKept, DeclareDatabase, DatabaseAccepted
  <2> QED BY <2>4, <2>5, KeptIsInv
<1>2. CASE DeclareSchema(b)
  <2> DEFINE k == Head(todo[b].schemas)
  <2>1. k \in SchemaKeys /\ [todo[b] EXCEPT !.schemas = Tail(@)] \in Declaration
    BY <1>2, NextNames DEF NamingInv, DeclareSchema, SchemaAccepted
  <2>2. k \in KeysOf("schemas") /\ "schemas" \in Tables
    BY <2>1 DEF KeysOf, Tables
  <2>3. DeclaredSchemaRow(b, k) /\ UNCHANGED <<durable, run, published>>
    BY <1>2 DEF DeclareSchema
  <2> HIDE DEF k
  <2>4. NamingKept
    BY <2>1, <2>2, <2>3, SchemaRowAdded, AddingKeepsNaming
  <2>5. ControlKept
    BY <1>2, <2>1 DEF NamingInv, TypeOK, ControlKept, DeclareSchema, SchemaAccepted
  <2> QED BY <2>4, <2>5, KeptIsInv
<1>3. CASE ImplySchema(b)
  <2>1. todo[b].tables # <<>> /\ UNCHANGED <<durable, run, todo, given, published>>
    BY <1>3 DEF ImplySchema, TableAccepted
  <2>2. TableSchema(b) \in SchemaKeys
    BY <2>1, NextNames DEF NamingInv
  <2>3. NamingKept
    <3>1. CASE UNCHANGED <<registry, source>>
      BY <2>1, <3>1, NamingAlone DEF NamingInv, TypeOK
    <3>2. CASE DeclaredSchemaRow(b, TableSchema(b))
      <4>1. TableSchema(b) \in KeysOf("schemas") /\ "schemas" \in Tables
        BY <2>2 DEF KeysOf, Tables
      <4> QED BY <2>1, <2>2, <3>2, <4>1, SchemaRowAdded, AddingKeepsNaming
    <3> QED BY <1>3, <3>1, <3>2 DEF ImplySchema
  <2>4. ControlKept
    BY <1>3, <2>1 DEF NamingInv, TypeOK, ControlKept, ImplySchema
  <2> QED BY <2>3, <2>4, KeptIsInv
<1>4. CASE DeclareTable(b)
  <2> DEFINE k == Head(todo[b].tables)
  <2>1. k \in RelationKeys /\ [todo[b] EXCEPT !.tables = Tail(@)] \in Declaration
    BY <1>4, NextNames DEF NamingInv, DeclareTable
  <2>2. k \in KeysOf("relations") /\ "relations" \in Tables /\ ~IsPublic(k)
    BY <2>1, KeyShapes DEF KeysOf, Tables
  <2>3. ResolveInto(b, "relations", k) /\ UNCHANGED <<durable, run, published>>
    BY <1>4 DEF DeclareTable
  <2> HIDE DEF k
  <2>4. NamingKept
    BY <2>2, <2>3, ResolveAddsRow, AddingKeepsNaming
  <2>5. ControlKept
    BY <1>4, <2>1 DEF NamingInv, TypeOK, ControlKept, DeclareTable
  <2> QED BY <2>4, <2>5, KeptIsInv
<1> QED BY <1>1, <1>2, <1>3, <1>4

(***************************************************************************)
(* A published source joins the others: its rows have the registry's       *)
(* numbers, and so do those of every source it may be compared with.       *)
(***************************************************************************)
LEMMA PublishKeepsNaming ==
  ASSUME NamingInv, NEW b \in Builders, Publish(b)
  PROVE  NamingInv'
<1> DEFINE new == [run |-> run, given |-> given[b], rows |-> source[b]]
<1>1. /\ published' = published \cup {new}
      /\ UNCHANGED <<durable, registry, run>> /\ Finish(b)
  BY DEF Publish
<1>2. new \in [run : Nat, given : Declaration, rows : Rows]
  BY DEF NamingInv, TypeOK
<1>3. new.run = run /\ RowsSound(registry, new.rows)
  BY DEF NamingInv
<1> HIDE DEF new
<1>4. source' \in [Builders -> Rows]
  BY <1>1, EmptyLists DEF NamingInv, TypeOK, Finish
<1>5. \A c \in Builders : RowsSound(registry', source'[c])
  <2>1. RowsSound(registry, NoRows)
    BY DEF NoRows, RowsSound
  <2>2. \A c \in Builders : source'[c] \in {source[c], NoRows}
    BY <1>1 DEF NamingInv, TypeOK, Finish
  <2> QED BY <1>1, <2>1, <2>2 DEF NamingInv
<1>6. PublishedSound'
  BY <1>1, <1>3 DEF NamingInv, TypeOK, PublishedSound
<1>7. registry' \in Registry /\ RegistrySound'
  BY <1>1 DEF NamingInv, TypeOK, RegistrySound, Below, Disjoint, Dense, Known, Oids, NextOid
<1>8. ASSUME NEW s \in published', NEW t \in published', Comparable(s, t)',
             NEW x \in AllRows(s), NEW y \in AllRows(t)
      PROVE  /\ x[1] = y[1] => x[2] = y[2]
             /\ NumbersOf(x) \cap NumbersOf(y) # {} =>
                  x[1] = y[1] \/ (IsPublic(x[1]) /\ IsPublic(y[1]))
  <2>1. CASE s \in published /\ t \in published
    BY <1>1, <1>8, <2>1 DEF NamingInv, NamesKeepTheirOids, OidsIdentifyObjects, Comparable
  <2>2. CASE s = new \/ t = new
    <3>1. RowsSound(registry, s.rows) /\ RowsSound(registry, t.rows)
      BY <1>1, <1>3, <1>8, <2>2 DEF NamingInv, PublishedSound, Comparable
    <3>2. RowSound(registry, x) /\ RowSound(registry, y)
      BY <3>1, <1>8 DEF RowsSound, AllRows
    <3> QED BY <3>2, RowsAgree DEF NamingInv, TypeOK, RegistrySound
  <2> QED BY <1>1, <2>1, <2>2
<1>9. NamesKeepTheirOids' /\ OidsIdentifyObjects'
  BY <1>8 DEF NamesKeepTheirOids, OidsIdentifyObjects, AllRows, NumbersOf, IsPublic, Span
<1>10. published' \in SUBSET [run : Nat, given : Declaration, rows : Rows]
  BY <1>1, <1>2 DEF NamingInv, TypeOK
<1>11. NamingKept
  BY <1>4, <1>5, <1>6, <1>7, <1>9, <1>10 DEF NamingKept
<1>12. ControlKept
  BY <1>1, EmptyLists DEF NamingInv, TypeOK, ControlKept, Finish
<1> QED BY <1>11, <1>12, KeptIsInv

(***************************************************************************)
(* After a restart a file has kept its numbers; a registry in memory has   *)
(* none, and no source of its new run is there to disagree with them.      *)
(***************************************************************************)
LEMMA RestartKeepsNaming ==
  ASSUME NamingInv, Restart
  PROVE  NamingInv'
<1>1. /\ UNCHANGED <<durable, published>> /\ run' = run + 1
      /\ registry' = IF durable THEN registry ELSE EmptyRegistry
      /\ source' = [b \in Builders |-> NoRows]
  BY DEF Restart
<1>2. registry' \in Registry /\ RegistrySound'
  <2>1. CASE durable
    BY <1>1, <2>1 DEF NamingInv, TypeOK, RegistrySound, Below, Disjoint, Dense, Known, Oids, NextOid
  <2>2. CASE ~durable
    BY <1>1, <2>2, EmptyRegistrySound DEF RegistrySound
  <2> QED BY <2>1, <2>2
<1>3. source' \in [Builders -> Rows] /\ \A b \in Builders : RowsSound(registry', source'[b])
  BY <1>1, EmptyLists DEF RowsSound, NoRows
<1>4. PublishedSound'
  <2> SUFFICES ASSUME NEW s \in published
               PROVE  s.run <= run' /\ (durable' \/ s.run = run' => RowsSound(registry', s.rows))
    BY <1>1 DEF PublishedSound
  <2>1. s.run <= run /\ s.run \in Nat /\ run \in Nat
    BY DEF NamingInv, TypeOK, PublishedSound
  <2>2. s.run <= run' /\ s.run # run'
    BY <1>1, <2>1
  <2>3. durable => RowsSound(registry', s.rows)
    BY <1>1 DEF NamingInv, PublishedSound
  <2> QED BY <1>1, <2>2, <2>3
<1>5. NamesKeepTheirOids' /\ OidsIdentifyObjects'
  BY <1>1 DEF NamingInv, NamesKeepTheirOids, OidsIdentifyObjects, AllRows, Comparable
<1>6. NamingKept
  BY <1>1, <1>2, <1>3, <1>4, <1>5 DEF NamingKept, NamingInv, TypeOK
<1>7. ControlKept
  BY <1>1, EmptyLists DEF NamingInv, TypeOK, ControlKept, Restart
<1> QED BY <1>6, <1>7, KeptIsInv

(* Every step keeps the invariant. *)
LEMMA NextNaming == NamingInv /\ [Next]_vars => NamingInv'
<1> SUFFICES ASSUME NamingInv, [Next]_vars PROVE NamingInv'
  OBVIOUS
<1>1. ASSUME NEW b \in Builders, Build(b) PROVE NamingInv'
  <2>1. CASE DeclareDatabase(b) \/ DeclareSchema(b) \/ ImplySchema(b) \/ DeclareTable(b)
    BY <2>1, DeclareKeepsNaming
  <2>2. CASE DuplicateDatabase(b) \/ RefusedSchema(b) \/ RefusedTable(b) \/ RegistryError(b)
    BY <2>2, RefuseKeepsNaming DEF DuplicateDatabase, RefusedSchema, RefusedTable, RegistryError
  <2>3. CASE DatabasesDone(b)
    BY <2>3, MoveKeepsNaming DEF DatabasesDone, NamingInv, TypeOK
  <2>4. CASE SchemasDone(b)
    BY <2>4, MoveKeepsNaming DEF SchemasDone, NamingInv, TypeOK
  <2>5. CASE Publish(b)
    BY <2>5, PublishKeepsNaming
  <2> QED BY <1>1, <2>1, <2>2, <2>3, <2>4, <2>5 DEF Build
<1>2. ASSUME NEW b \in Builders, NEW d \in Declarations, Start(b, d) PROVE NamingInv'
  <2>1. /\ todo' \in [Builders -> Declaration] /\ given' \in [Builders -> Declaration]
        /\ \A c \in Builders : c # b => todo'[c] = todo[c]
    BY <1>2, DeclarationsType DEF Start, NamingInv, TypeOK
  <2> QED BY <1>2, <2>1, MoveKeepsNaming DEF Start
<1>3. CASE Restart
  BY <1>3, RestartKeepsNaming
<1>4. CASE UNCHANGED vars
  <2>1. NamingKept
    BY <1>4, NamingAlone DEF vars, NamingInv, TypeOK
  <2>2. ControlKept
    BY <1>4 DEF vars, NamingInv, TypeOK, ControlKept
  <2> QED BY <2>1, <2>2, KeptIsInv
<1> QED BY <1>1, <1>2, <1>3, <1>4 DEF Next

(* Every reachable state satisfies the naming invariant. *)
LEMMA NamingIsInvariant == Spec => []NamingInv
BY InitNaming, NextNaming, PTL DEF Spec

(* The locals and the results of from_declarations keep their types, and   *)
(* every number they carry fits an i32, whatever is declared and however   *)
(* many builders and runs share the registry.                              *)
THEOREM TypeCorrectness == Spec => []TypeOK
<1>1. NamingInv => TypeOK
  BY DEF NamingInv
<1> QED BY <1>1, NamingIsInvariant, PTL

(***************************************************************************)
(* For any number of builders over one registry, failed builds and         *)
(* restarts included, one name has one number in all the sources a client  *)
(* may compare.                                                            *)
(***************************************************************************)
THEOREM OidsAreStable == Spec => []NamesKeepTheirOids
<1>1. NamingInv => NamesKeepTheirOids
  BY DEF NamingInv
<1> QED BY <1>1, NamingIsInvariant, PTL

(***************************************************************************)
(* And one number, a relation's second one included, names one object, or  *)
(* it is the built-in number of the schemas called `public`.               *)
(***************************************************************************)
THEOREM OidsAreUnique == Spec => []OidsIdentifyObjects
<1>1. NamingInv => OidsIdentifyObjects
  BY DEF NamingInv
<1> QED BY <1>1, NamingIsInvariant, PTL

(***************************************************************************)
(* The second invariant: how far a builder has got.  What it has pushed    *)
(* and what it has still to do make up what it was given; the counts agree *)
(* because a name that is there already is refused.                        *)
(***************************************************************************)
KeysIn(rows) == {r[1] : r \in rows}

SchemasOf(tables) == {<<t[1], t[2]>> : t \in RangeOf(tables)}

(* Names listed as databases, schemas and relations. *)
DatabasesListed(g, t, s) ==
  /\ IsFiniteSet(s.databases)
  /\ Cardinality(s.databases) + Len(t.databases) = Len(g.databases)

RelationsListed(g, t, s) ==
  /\ IsFiniteSet(s.relations)
  /\ Cardinality(s.relations) + Len(t.tables) = Len(g.tables)
  /\ KeysIn(s.relations) \cup RangeOf(t.tables) = RangeOf(g.tables)

SchemasListed(g, t, s) ==
  /\ IsFiniteSet(s.schemas)
  /\ \A x, y \in s.schemas : x[1] = y[1] => x = y
  /\ KeysIn(s.schemas) \cup RangeOf(t.schemas) \cup SchemasOf(t.tables)
       = RangeOf(g.schemas) \cup SchemasOf(g.tables)

Closed(s) == \A x \in s.schemas : \E d \in s.databases : d[1] = <<x[1][1]>>

Listed(g, t, s) ==
  DatabasesListed(g, t, s) /\ RelationsListed(g, t, s) /\ SchemasListed(g, t, s) /\ Closed(s)

(* The loops are run one after the other, and between the two registry     *)
(* calls of one table its schema is listed and the table is not.           *)
InOrder(p, t, s) ==
  /\ p = "idle" => s = NoRows
  /\ p \in {"schemas", "tables", "relation"} => t.databases = <<>>
  /\ p \in {"tables", "relation"} => t.schemas = <<>>
  /\ p = "relation" =>
       /\ t.tables # <<>>
       /\ Head(t.tables) \notin KeysIn(s.relations)
       /\ <<Head(t.tables)[1], Head(t.tables)[2]>> \in KeysIn(s.schemas)

ListedInv ==
  /\ \A b \in Builders : /\ Listed(given[b], todo[b], source[b])
                         /\ InOrder(phase[b], todo[b], source[b])
  /\ \A s \in published : Listed(s.given, NoDeclarations, s.rows)

(* Taking the head off a list: what it names stays named. *)
LEMMA HeadAndTail ==
  ASSUME NEW S, NEW q \in Seq(S), q # <<>>
  PROVE  /\ Head(q) \in S /\ Tail(q) \in Seq(S)
         /\ Len(Tail(q)) = Len(q) - 1 /\ Len(q) \in Nat
         /\ RangeOf(q) = {Head(q)} \cup RangeOf(Tail(q))
<1>1. Head(q) \in S /\ Tail(q) \in Seq(S) /\ Len(Tail(q)) = Len(q) - 1 /\ Len(q) \in Nat
  BY HeadTailProperties
<1>2. \A i \in 1 .. Len(Tail(q)) : Tail(q)[i] = q[i + 1]
  BY HeadTailProperties
<1>3. /\ Len(q) >= 1 /\ Head(q) = q[1]
      /\ DOMAIN q = 1 .. Len(q) /\ DOMAIN Tail(q) = 1 .. Len(q) - 1
  BY <1>1, EmptySeq
<1>4. \A i \in 1 .. Len(q) : q[i] = Head(q) \/ \E j \in 1 .. Len(q) - 1 : q[i] = Tail(q)[j]
  <2> SUFFICES ASSUME NEW i \in 1 .. Len(q), i # 1
               PROVE  \E j \in 1 .. Len(q) - 1 : q[i] = Tail(q)[j]
    BY <1>3
  <2>1. i - 1 \in 1 .. Len(q) - 1
    BY <1>1
  <2>2. Tail(q)[i - 1] = q[i]
    BY <1>1, <1>2, <2>1
  <2> QED BY <2>1, <2>2
<1>5. \A j \in 1 .. Len(q) - 1 : j + 1 \in 1 .. Len(q) /\ Tail(q)[j] = q[j + 1]
  BY <1>1, <1>2
<1>6. RangeOf(q) \subseteq {Head(q)} \cup RangeOf(Tail(q))
  <2> SUFFICES ASSUME NEW i \in 1 .. Len(q)
               PROVE  q[i] \in {Head(q)} \cup RangeOf(Tail(q))
    BY <1>3 DEF RangeOf
  <2>1. CASE q[i] = Head(q)
    BY <2>1
  <2>2. CASE \E j \in 1 .. Len(q) - 1 : q[i] = Tail(q)[j]
    BY <1>3, <2>2 DEF RangeOf
  <2> QED BY <1>4, <2>1, <2>2
<1>7. {Head(q)} \cup RangeOf(Tail(q)) \subseteq RangeOf(q)
  BY <1>1, <1>3, <1>5 DEF RangeOf
<1> QED BY <1>1, <1>6, <1>7

(* A row under a new name makes the list one longer. *)
Pushed(rows, k, n) == rows \cup {<<k, n>>}

(* ... and adds exactly that name to the names it lists. *)
LEMMA NewRow ==
  ASSUME NEW rows, IsFiniteSet(rows), NEW k, NEW n, k \notin KeysIn(rows),
         NEW new, new = Pushed(rows, k, n)
  PROVE  /\ IsFiniteSet(new)
         /\ Cardinality(rows) \in Nat
         /\ Cardinality(new) = Cardinality(rows) + 1
         /\ KeysIn(new) = KeysIn(rows) \cup {k}
<1>1. <<k, n>> \notin rows
  BY DEF KeysIn
<1>2. KeysIn(new) = KeysIn(rows) \cup {k}
  <2>1. \A x : x \in KeysIn(new) <=> \E r \in new : x = r[1]
    BY DEF KeysIn
  <2>2. \A x : x \in KeysIn(rows) <=> \E r \in rows : x = r[1]
    BY DEF KeysIn
  <2>3. \A r : r \in new <=> r \in rows \/ r = <<k, n>>
    BY DEF Pushed
  <2>4. <<k, n>>[1] = k
    OBVIOUS
  <2>5. \A x : x \in KeysIn(new) <=> x \in KeysIn(rows) \/ x = k
    BY <2>1, <2>2, <2>3, <2>4
  <2> QED BY <2>5
<1>3. IsFiniteSet(rows \cup {<<k, n>>})
  BY FS_AddElement
<1>4. Cardinality(rows \cup {<<k, n>>}) = Cardinality(rows) + 1
  BY <1>1, FS_AddElement
<1>5. Cardinality(rows) \in Nat
  BY FS_CardinalityType
<1> QED BY <1>2, <1>3, <1>4, <1>5 DEF Pushed

(* What the list gains the declarations lose. *)
LEMMA OneForOne ==
  ASSUME NEW a \in Nat, NEW l \in Nat, NEW total, a + l = total
  PROVE  (a + 1) + (l - 1) = total
OBVIOUS

(* The types of a builder's locals, list by list. *)
LEMMA ListTypes ==
  ASSUME NEW t \in Declaration
  PROVE  /\ t.databases \in Seq(Databases)
         /\ t.schemas \in Seq(Databases \X Schemas)
         /\ t.tables \in Seq(Databases \X Schemas \X Relations)
BY DEF Declaration

(* A database leaves its list and joins the source. *)
LEMMA DatabaseListed ==
  ASSUME NEW g, NEW t \in Declaration, NEW s \in Rows, NEW n, NEW t2, NEW s2,
         Listed(g, t, s), t.databases # <<>>, Len(g.databases) \in Nat,
         <<Head(t.databases)>> \notin KeysIn(s.databases),
         t2 = [t EXCEPT !.databases = Tail(@)],
         s2 = [s EXCEPT !.databases = @ \cup {<<<<Head(t.databases)>>, n>>}]
  PROVE  Listed(g, t2, s2)
<1>1. /\ t2.databases = Tail(t.databases) /\ t2.schemas = t.schemas /\ t2.tables = t.tables
      /\ s2.databases = s.databases \cup {<<<<Head(t.databases)>>, n>>}
      /\ s2.schemas = s.schemas /\ s2.relations = s.relations
  BY DEF Declaration, Rows
<1>2. Len(Tail(t.databases)) = Len(t.databases) - 1 /\ Len(t.databases) \in Nat
  BY ListTypes, HeadAndTail
<1>3. DatabasesListed(g, t2, s2)
  <2>1. IsFiniteSet(s.databases) /\ Cardinality(s.databases) + Len(t.databases) = Len(g.databases)
    BY DEF Listed, DatabasesListed
  <2>2. /\ IsFiniteSet(s2.databases) /\ Cardinality(s.databases) \in Nat
        /\ Cardinality(s2.databases) = Cardinality(s.databases) + 1
    <3> DEFINE old == s.databases
               name == <<Head(t.databases)>>
               new == s2.databases
    <3>1. new = Pushed(old, name, n) /\ IsFiniteSet(old) /\ name \notin KeysIn(old)
      BY <1>1, <2>1 DEF Pushed
    <3> HIDE DEF old, name, new
    <3>2. /\ IsFiniteSet(new) /\ Cardinality(old) \in Nat
          /\ Cardinality(new) = Cardinality(old) + 1
          /\ KeysIn(new) = KeysIn(old) \cup {name}
      BY <3>1, NewRow
    <3> QED BY <3>2 DEF old, name, new
  <2>3. Cardinality(s2.databases) + Len(t2.databases) = Len(g.databases)
    BY <1>1, <1>2, <2>1, <2>2, OneForOne
  <2> QED BY <2>2, <2>3 DEF DatabasesListed
<1>4. RelationsListed(g, t2, s2) /\ SchemasListed(g, t2, s2)
  BY <1>1 DEF Listed, RelationsListed, SchemasListed
<1>5. Closed(s2)
  BY <1>1 DEF Listed, Closed
<1> QED BY <1>3, <1>4, <1>5 DEF Listed

(* A schema joins the source, from its own list or for a table's sake. *)
LEMMA SchemaListed ==
  ASSUME NEW g, NEW t \in Declaration, NEW s \in Rows, NEW k, NEW n, NEW t2, NEW s2,
         Listed(g, t, s), k \notin KeysIn(s.schemas), <<k[1]>> \in KeysIn(s.databases),
         t2.databases = t.databases, t2.tables = t.tables,
         k \in RangeOf(t.schemas) \cup SchemasOf(t.tables),
         {k} \cup RangeOf(t2.schemas) \cup SchemasOf(t.tables)
           = RangeOf(t.schemas) \cup SchemasOf(t.tables),
         s2 = [s EXCEPT !.schemas = @ \cup {<<k, n>>}]
  PROVE  Listed(g, t2, s2)
<1>1. /\ s2.schemas = s.schemas \cup {<<k, n>>}
      /\ s2.databases = s.databases /\ s2.relations = s.relations
  BY DEF Rows
<1>2. DatabasesListed(g, t2, s2) /\ RelationsListed(g, t2, s2)
  BY <1>1 DEF Listed, DatabasesListed, RelationsListed
<1>3. SchemasListed(g, t2, s2)
  <2>1. /\ IsFiniteSet(s.schemas) /\ \A x, y \in s.schemas : x[1] = y[1] => x = y
        /\ KeysIn(s.schemas) \cup RangeOf(t.schemas) \cup SchemasOf(t.tables)
             = RangeOf(g.schemas) \cup SchemasOf(g.tables)
    BY DEF Listed, SchemasListed
  <2>2. IsFiniteSet(s2.schemas) /\ KeysIn(s2.schemas) = KeysIn(s.schemas) \cup {k}
    <3> DEFINE old == s.schemas
               name == k
               new == s2.schemas
    <3>1. new = Pushed(old, name, n) /\ IsFiniteSet(old) /\ name \notin KeysIn(old)
      BY <1>1, <2>1 DEF Pushed
    <3> HIDE DEF old, name, new
    <3>2. /\ IsFiniteSet(new) /\ Cardinality(old) \in Nat
          /\ Cardinality(new) = Cardinality(old) + 1
          /\ KeysIn(new) = KeysIn(old) \cup {name}
      BY <3>1, NewRow
    <3> QED BY <3>2 DEF old, name, new
  <2>3. \A x, y \in s2.schemas : x[1] = y[1] => x = y
    BY <1>1, <2>1 DEF KeysIn
  <2>4. KeysIn(s2.schemas) \cup RangeOf(t2.schemas) \cup SchemasOf(t2.tables)
          = RangeOf(g.schemas) \cup SchemasOf(g.tables)
    BY <2>1, <2>2
  <2> QED BY <2>2, <2>3, <2>4 DEF SchemasListed
<1>4. Closed(s2)
  <2>1. PICK d \in s.databases : d[1] = <<k[1]>>
    BY DEF KeysIn
  <2>2. \A x \in s2.schemas : x \in s.schemas \/ x[1] = k
    BY <1>1
  <2> QED BY <1>1, <2>1, <2>2 DEF Listed, Closed
<1> QED BY <1>2, <1>3, <1>4 DEF Listed

(* A table leaves its list and joins the source; its schema is listed. *)
LEMMA TableListed ==
  ASSUME NEW g, NEW t \in Declaration, NEW s \in Rows, NEW n, NEW t2, NEW s2,
         Listed(g, t, s), t.tables # <<>>, Len(g.tables) \in Nat,
         Head(t.tables) \notin KeysIn(s.relations),
         <<Head(t.tables)[1], Head(t.tables)[2]>> \in KeysIn(s.schemas),
         t2 = [t EXCEPT !.tables = Tail(@)],
         s2 = [s EXCEPT !.relations = @ \cup {<<Head(t.tables), n>>}]
  PROVE  Listed(g, t2, s2)
<1>1. /\ t2.tables = Tail(t.tables) /\ t2.schemas = t.schemas /\ t2.databases = t.databases
      /\ s2.relations = s.relations \cup {<<Head(t.tables), n>>}
      /\ s2.schemas = s.schemas /\ s2.databases = s.databases
  BY DEF Declaration, Rows
<1>2. /\ Len(Tail(t.tables)) = Len(t.tables) - 1 /\ Len(t.tables) \in Nat
      /\ RangeOf(t.tables) = {Head(t.tables)} \cup RangeOf(Tail(t.tables))
  BY ListTypes, HeadAndTail
<1>3. DatabasesListed(g, t2, s2) /\ Closed(s2)
  BY <1>1 DEF Listed, DatabasesListed, Closed
<1>4. RelationsListed(g, t2, s2)
  <2>1. /\ IsFiniteSet(s.relations) /\ Cardinality(s.relations) + Len(t.tables) = Len(g.tables)
        /\ KeysIn(s.relations) \cup RangeOf(t.tables) = RangeOf(g.tables)
    BY DEF Listed, RelationsListed
  <2>2. /\ IsFiniteSet(s2.relations) /\ Cardinality(s.relations) \in Nat
        /\ Cardinality(s2.relations) = Cardinality(s.relations) + 1
        /\ KeysIn(s2.relations) = KeysIn(s.relations) \cup {Head(t.tables)}
    <3> DEFINE old == s.relations
               name == Head(t.tables)
               new == s2.relations
    <3>1. new = Pushed(old, name, n) /\ IsFiniteSet(old) /\ name \notin KeysIn(old)
      BY <1>1, <2>1 DEF Pushed
    <3> HIDE DEF old, name, new
    <3>2. /\ IsFiniteSet(new) /\ Cardinality(old) \in Nat
          /\ Cardinality(new) = Cardinality(old) + 1
          /\ KeysIn(new) = KeysIn(old) \cup {name}
      BY <3>1, NewRow
    <3> QED BY <3>2 DEF old, name, new
  <2>3. Cardinality(s2.relations) + Len(t2.tables) = Len(g.tables)
    BY <1>1, <1>2, <2>1, <2>2, OneForOne
  <2>4. KeysIn(s2.relations) \cup RangeOf(t2.tables) = RangeOf(g.tables)
    BY <1>1, <1>2, <2>1, <2>2
  <2> QED BY <2>2, <2>3, <2>4 DEF RelationsListed
<1>5. SchemasListed(g, t2, s2)
  <2>1. SchemasOf(t.tables) =
          {<<Head(t.tables)[1], Head(t.tables)[2]>>} \cup SchemasOf(t2.tables)
    BY <1>1, <1>2 DEF SchemasOf
  <2> QED BY <1>1, <2>1 DEF Listed, SchemasListed
<1> QED BY <1>3, <1>4, <1>5 DEF Listed

(* The look-ups of the three loops. *)
LEMMA HasRowIsListed ==
  ASSUME NEW b, NEW k
  PROVE  /\ HasRow(b, "databases", k) <=> k \in KeysIn(source[b].databases)
         /\ HasRow(b, "schemas", k) <=> k \in KeysIn(source[b].schemas)
         /\ HasRow(b, "relations", k) <=> k \in KeysIn(source[b].relations)
BY DEF HasRow, KeysIn

(* One builder's step: the others and the published sources are as before. *)
OnlyBuilder(b) ==
  /\ published' = published
  /\ \A c \in Builders : c # b =>
       /\ phase'[c] = phase[c] /\ todo'[c] = todo[c]
       /\ given'[c] = given[c] /\ source'[c] = source[c]

(* Such a step keeps the listing of everyone if it keeps its own. *)
LEMMA OneBuilderSteps ==
  ASSUME ListedInv, NEW b \in Builders, OnlyBuilder(b),
         Listed(given'[b], todo'[b], source'[b]), InOrder(phase'[b], todo'[b], source'[b])
  PROVE  ListedInv'
<1>1. \A c \in Builders : /\ Listed(given'[c], todo'[c], source'[c])
                          /\ InOrder(phase'[c], todo'[c], source'[c])
  BY DEF ListedInv, OnlyBuilder
<1> QED BY <1>1 DEF ListedInv, OnlyBuilder

(* Before the first declaration nothing is listed; with no declarations    *)
(* left everything is.                                                     *)
LEMMA NothingListed ==
  ASSUME NEW d \in Declaration
  PROVE  Listed(d, d, NoRows)
<1>1. Len(d.databases) \in Nat /\ Len(d.tables) \in Nat
  BY ListTypes, LenProperties
<1>2. KeysIn({}) = {}
  BY DEF KeysIn
<1>3. DatabasesListed(d, d, NoRows) /\ RelationsListed(d, d, NoRows)
  BY <1>1, <1>2, FS_EmptySet DEF DatabasesListed, RelationsListed, NoRows
<1>4. SchemasListed(d, d, NoRows) /\ Closed(NoRows)
  BY <1>2, FS_EmptySet DEF SchemasListed, Closed, NoRows
<1> QED BY <1>3, <1>4 DEF Listed

(* A builder that stops has nothing left and nothing listed. *)
LEMMA FinishListed ==
  ASSUME NamingInv, ListedInv, NEW b \in Builders, Finish(b)
  PROVE  \A c \in Builders : /\ Listed(given'[c], todo'[c], source'[c])
                             /\ InOrder(phase'[c], todo'[c], source'[c])
<1>1. \A c \in Builders : c # b =>
        /\ phase'[c] = phase[c] /\ todo'[c] = todo[c]
        /\ given'[c] = given[c] /\ source'[c] = source[c]
  BY DEF Finish, NamingInv, TypeOK
<1>2. /\ phase'[b] = "idle" /\ todo'[b] = NoDeclarations
      /\ given'[b] = NoDeclarations /\ source'[b] = NoRows
  BY DEF Finish, NamingInv, TypeOK
<1>3. Listed(given'[b], todo'[b], source'[b])
  BY <1>2, EmptyLists, NothingListed
<1>4. InOrder(phase'[b], todo'[b], source'[b])
  BY <1>2 DEF InOrder
<1> QED BY <1>1, <1>3, <1>4 DEF ListedInv

(* Each loop's declaration, through the lemma about its list. *)
LEMMA DeclareDatabaseListed ==
  ASSUME NamingInv, ListedInv, NEW b \in Builders, DeclareDatabase(b)
  PROVE  ListedInv'
<1> DEFINE k == <<Head(todo[b].databases)>>
           n == ResolvedOid(k)
<1>1. phase[b] = "databases" /\ todo[b].databases # <<>> /\ k \notin KeysIn(source[b].databases)
  BY HasRowIsListed DEF DeclareDatabase, DatabaseAccepted
<1>2. /\ given[b] \in Declaration /\ todo[b] \in Declaration /\ source[b] \in Rows
      /\ Len(given[b].databases) \in Nat
  BY ListTypes, LenProperties DEF NamingInv, TypeOK
<1>3. /\ source' = [source EXCEPT ![b].databases = @ \cup {<<k, n>>}]
      /\ todo' = [todo EXCEPT ![b].databases = Tail(@)]
      /\ UNCHANGED <<phase, given, published>>
  BY DEF DeclareDatabase, ResolveInto
<1> HIDE DEF n
<1>4. /\ source'[b] = [source[b] EXCEPT !.databases = @ \cup {<<k, n>>}]
      /\ todo'[b] = [todo[b] EXCEPT !.databases = Tail(@)]
      /\ OnlyBuilder(b)
  BY <1>3 DEF OnlyBuilder, NamingInv, TypeOK
<1>5. Listed(given'[b], todo'[b], source'[b])
  BY <1>1, <1>2, <1>3, <1>4, DatabaseListed DEF ListedInv
<1>6. InOrder(phase'[b], todo'[b], source'[b])
  BY <1>1, <1>3 DEF InOrder
<1> QED BY <1>4, <1>5, <1>6, OneBuilderSteps

(* The row declared_schema_row makes, `public` or not. *)
LEMMA SchemaRow ==
  ASSUME NamingInv, NEW b \in Builders, NEW k, DeclaredSchemaRow(b, k)
  PROVE  \E n : /\ source'[b] = [source[b] EXCEPT !.schemas = @ \cup {<<k, n>>}]
                /\ \A c \in Builders : c # b => source'[c] = source[c]
<1>1. \E n : source' = [source EXCEPT ![b].schemas = @ \cup {<<k, n>>}]
  BY DEF DeclaredSchemaRow, ResolveInto
<1> QED BY <1>1 DEF NamingInv, TypeOK

(* A declared schema moves from what is left to do to what is listed. *)
LEMMA DeclareSchemaListed ==
  ASSUME NamingInv, ListedInv, NEW b \in Builders, DeclareSchema(b)
  PROVE  ListedInv'
<1> DEFINE k == Head(todo[b].schemas)
<1>1. /\ phase[b] = "schemas" /\ todo[b].schemas # <<>> /\ k \notin KeysIn(source[b].schemas)
      /\ <<k[1]>> \in KeysIn(source[b].databases)
  BY HasRowIsListed DEF DeclareSchema, SchemaAccepted
<1>2. given[b] \in Declaration /\ todo[b] \in Declaration /\ source[b] \in Rows
  BY DEF NamingInv, TypeOK
<1>3. DeclaredSchemaRow(b, k) /\ UNCHANGED <<phase, given, published>>
  BY DEF DeclareSchema
<1>4. PICK n : /\ source'[b] = [source[b] EXCEPT !.schemas = @ \cup {<<k, n>>}]
               /\ \A c \in Builders : c # b => source'[c] = source[c]
  BY <1>3, SchemaRow
<1>5. /\ todo'[b] = [todo[b] EXCEPT !.schemas = Tail(@)]
      /\ \A c \in Builders : c # b => todo'[c] = todo[c]
  BY DEF DeclareSchema, NamingInv, TypeOK
<1>6. /\ todo'[b].schemas = Tail(todo[b].schemas)
      /\ todo'[b].databases = todo[b].databases /\ todo'[b].tables = todo[b].tables
  BY <1>2, <1>5 DEF Declaration
<1>7. RangeOf(todo[b].schemas) = {k} \cup RangeOf(todo'[b].schemas)
  BY <1>1, <1>2, <1>6, ListTypes, HeadAndTail
<1> HIDE DEF k
<1>8. Listed(given'[b], todo'[b], source'[b])
  <2> DEFINE t == todo[b]
             t2 == todo'[b]
  <2>1. /\ k \in RangeOf(t.schemas) \cup SchemasOf(t.tables)
        /\ {k} \cup RangeOf(t2.schemas) \cup SchemasOf(t.tables)
             = RangeOf(t.schemas) \cup SchemasOf(t.tables)
    BY <1>7
  <2>2. Listed(given[b], t, source[b])
    BY DEF ListedInv
  <2>3. t \in Declaration /\ t2.databases = t.databases /\ t2.tables = t.tables
    BY <1>2, <1>6
  <2> HIDE DEF t, t2
  <2>4. Listed(given[b], t2, source'[b])
    BY <1>1, <1>2, <1>4, <2>1, <2>2, <2>3, SchemaListed
  <2> QED BY <1>3, <2>4 DEF t2
<1>9. InOrder(phase'[b], todo'[b], source'[b])
  BY <1>1, <1>3, <1>6 DEF InOrder, ListedInv
<1>10. OnlyBuilder(b)
  BY <1>3, <1>4, <1>5 DEF OnlyBuilder
<1> QED BY <1>8, <1>9, <1>10, OneBuilderSteps

(* The schema of the next table: listed already, or listed now. *)
LEMMA ImplySchemaListed ==
  ASSUME NamingInv, ListedInv, NEW b \in Builders, ImplySchema(b)
  PROVE  ListedInv'
<1> DEFINE r == Head(todo[b].tables)
           k == TableSchema(b)
<1>1. /\ phase[b] = "tables" /\ todo[b].tables # <<>> /\ r \notin KeysIn(source[b].relations)
      /\ <<r[1]>> \in KeysIn(source[b].databases)
  BY HasRowIsListed DEF ImplySchema, TableAccepted
<1>2. given[b] \in Declaration /\ todo[b] \in Declaration /\ source[b] \in Rows
  BY DEF NamingInv, TypeOK
<1>3. UNCHANGED <<todo, given, published>> /\ phase' = [phase EXCEPT ![b] = "relation"]
  BY DEF ImplySchema
<1>4. k = <<r[1], r[2]>> /\ k[1] = r[1]
  BY DEF TableSchema
<1>5. k \in SchemasOf(todo[b].tables)
  <2>1. r \in RangeOf(todo[b].tables)
    BY <1>1, <1>2, ListTypes, HeadAndTail
  <2> QED BY <1>4, <2>1 DEF SchemasOf
<1>6. /\ Listed(given[b], todo[b], source'[b]) /\ k \in KeysIn(source'[b].schemas)
      /\ source'[b].relations = source[b].relations
      /\ \A c \in Builders : c # b => source'[c] = source[c]
  <2>1. CASE HasRow(b, "schemas", k) /\ UNCHANGED <<registry, source>>
    BY <2>1, HasRowIsListed DEF ListedInv
  <2>2. CASE ~HasRow(b, "schemas", k) /\ DeclaredSchemaRow(b, k)
    <3>1. PICK n : /\ source'[b] = [source[b] EXCEPT !.schemas = @ \cup {<<k, n>>}]
                   /\ \A c \in Builders : c # b => source'[c] = source[c]
      BY <2>2, SchemaRow
    <3>2. k \notin KeysIn(source[b].schemas) /\ <<k[1]>> \in KeysIn(source[b].databases)
      BY <1>1, <1>4, <2>2, HasRowIsListed
    <3> DEFINE t == todo[b]
    <3>3. /\ Listed(given[b], t, source[b]) /\ t \in Declaration
          /\ k \in RangeOf(t.schemas) \cup SchemasOf(t.tables)
          /\ {k} \cup RangeOf(t.schemas) \cup SchemasOf(t.tables)
               = RangeOf(t.schemas) \cup SchemasOf(t.tables)
      BY <1>2, <1>5 DEF ListedInv
    <3>4. /\ source'[b].relations = source[b].relations
          /\ source'[b].schemas = source[b].schemas \cup {<<k, n>>}
      BY <1>2, <3>1 DEF Rows
    <3>5. k \in KeysIn(source'[b].schemas)
      <4>1. <<k, n>> \in source'[b].schemas /\ <<k, n>>[1] = k
        BY <3>4
      <4> QED BY <4>1 DEF KeysIn
    <3> HIDE DEF k, t
    <3>6. Listed(given[b], t, source'[b])
      BY <1>2, <3>1, <3>2, <3>3, SchemaListed
    <3> QED BY <3>1, <3>4, <3>5, <3>6 DEF t
  <2> QED BY <2>1, <2>2 DEF ImplySchema
<1>7. InOrder(phase'[b], todo'[b], source'[b])
  <2>1. phase'[b] = "relation" /\ todo'[b] = todo[b]
    BY <1>3 DEF NamingInv, TypeOK
  <2>2. todo[b].databases = <<>> /\ todo[b].schemas = <<>>
    BY <1>1 DEF ListedInv, InOrder
  <2> QED BY <1>1, <1>4, <1>6, <2>1, <2>2 DEF InOrder
<1>8. OnlyBuilder(b)
  BY <1>3, <1>6 DEF OnlyBuilder, NamingInv, TypeOK
<1>9. given'[b] = given[b] /\ todo'[b] = todo[b]
  BY <1>3
<1> QED BY <1>6, <1>7, <1>8, <1>9, OneBuilderSteps

(* So does a declared table, whose schema is listed by then. *)
LEMMA DeclareTableListed ==
  ASSUME NamingInv, ListedInv, NEW b \in Builders, DeclareTable(b)
  PROVE  ListedInv'
<1> DEFINE k == Head(todo[b].tables)
           n == ResolvedOid(k)
<1>1. /\ phase[b] = "relation" /\ todo[b].tables # <<>>
      /\ todo[b].databases = <<>> /\ todo[b].schemas = <<>>
      /\ k \notin KeysIn(source[b].relations) /\ <<k[1], k[2]>> \in KeysIn(source[b].schemas)
  BY DEF DeclareTable, ListedInv, InOrder
<1>2. /\ given[b] \in Declaration /\ todo[b] \in Declaration /\ source[b] \in Rows
      /\ Len(given[b].tables) \in Nat
  BY ListTypes, LenProperties DEF NamingInv, TypeOK
<1>3. /\ source' = [source EXCEPT ![b].relations = @ \cup {<<k, n>>}]
      /\ todo' = [todo EXCEPT ![b].tables = Tail(@)]
      /\ phase' = [phase EXCEPT ![b] = "tables"]
      /\ UNCHANGED <<given, published>>
  BY DEF DeclareTable, ResolveInto
<1> HIDE DEF n
<1>4. /\ source'[b] = [source[b] EXCEPT !.relations = @ \cup {<<k, n>>}]
      /\ todo'[b] = [todo[b] EXCEPT !.tables = Tail(@)]
      /\ phase'[b] = "tables"
      /\ OnlyBuilder(b)
  BY <1>3 DEF OnlyBuilder, NamingInv, TypeOK
<1>5. Listed(given'[b], todo'[b], source'[b])
  BY <1>1, <1>2, <1>3, <1>4, TableListed DEF ListedInv
<1>6. todo'[b].databases = <<>> /\ todo'[b].schemas = <<>>
  BY <1>1, <1>2, <1>4 DEF Declaration
<1>7. InOrder(phase'[b], todo'[b], source'[b])
  BY <1>4, <1>6 DEF InOrder
<1> QED BY <1>4, <1>5, <1>7, OneBuilderSteps

(* A source is returned when the last list is empty. *)
LEMMA PublishListed ==
  ASSUME NamingInv, ListedInv, NEW b \in Builders, Publish(b)
  PROVE  ListedInv'
<1>1. phase[b] = "tables" /\ todo[b].tables = <<>> /\ todo[b] \in Declaration
  BY DEF Publish, NamingInv, TypeOK
<1>2. todo[b].databases = <<>> /\ todo[b].schemas = <<>>
  BY <1>1 DEF ListedInv, InOrder
<1>3. todo[b] = NoDeclarations
  BY <1>1, <1>2 DEF Declaration, NoDeclarations
<1>4. Listed(given[b], NoDeclarations, source[b])
  BY <1>3 DEF ListedInv
<1>5. \A s \in published' : Listed(s.given, NoDeclarations, s.rows)
  BY <1>4 DEF Publish, ListedInv
<1>6. \A c \in Builders : /\ Listed(given'[c], todo'[c], source'[c])
                          /\ InOrder(phase'[c], todo'[c], source'[c])
  BY FinishListed DEF Publish
<1> QED BY <1>5, <1>6 DEF ListedInv

(* The next loop starts where the one before has nothing left. *)
LEMMA MoveListed ==
  ASSUME NamingInv, ListedInv, NEW b \in Builders, DatabasesDone(b) \/ SchemasDone(b)
  PROVE  ListedInv'
<1>1. /\ UNCHANGED <<todo, given, source, published>>
      /\ \A c \in Builders : c # b => phase'[c] = phase[c]
      /\ Listed(given'[b], todo'[b], source'[b])
  BY DEF DatabasesDone, SchemasDone, ListedInv, NamingInv, TypeOK
<1>2. OnlyBuilder(b)
  BY <1>1 DEF OnlyBuilder
<1>3. InOrder(phase'[b], todo'[b], source'[b])
  <2>1. CASE DatabasesDone(b)
    BY <2>1 DEF DatabasesDone, InOrder, NamingInv, TypeOK
  <2>2. CASE SchemasDone(b)
    <3>1. todo[b].databases = <<>> /\ todo[b].schemas = <<>>
      BY <2>2 DEF SchemasDone, ListedInv, InOrder
    <3> QED BY <1>1, <2>2, <3>1 DEF SchemasDone, InOrder, NamingInv, TypeOK
  <2> QED BY <2>1, <2>2
<1> QED BY <1>1, <1>2, <1>3, OneBuilderSteps

(* A builder starts with everything to do and nothing listed. *)
LEMMA StartListed ==
  ASSUME NamingInv, ListedInv, NEW b \in Builders, NEW d \in Declarations, Start(b, d)
  PROVE  ListedInv'
<1>1. source[b] = NoRows /\ UNCHANGED <<source, published>>
  BY DEF Start, ListedInv, InOrder
<1>2. phase'[b] = "databases" /\ todo'[b] = d /\ given'[b] = d
  BY DEF Start, NamingInv, TypeOK
<1>3. OnlyBuilder(b)
  BY <1>1 DEF OnlyBuilder, Start, NamingInv, TypeOK
<1>4. Listed(given'[b], todo'[b], source'[b])
  BY <1>1, <1>2, DeclarationsType, NothingListed
<1>5. InOrder(phase'[b], todo'[b], source'[b])
  BY <1>2 DEF InOrder
<1> QED BY <1>3, <1>4, <1>5, OneBuilderSteps

(* Every step of a builder, and a restart, keep the lists in order. *)
LEMMA NextListed == NamingInv /\ ListedInv /\ [Next]_vars => ListedInv'
<1> SUFFICES ASSUME NamingInv, ListedInv, [Next]_vars PROVE ListedInv'
  OBVIOUS
<1>1. ASSUME NEW b \in Builders, Build(b) PROVE ListedInv'
  <2>1. CASE DuplicateDatabase(b) \/ RefusedSchema(b) \/ RefusedTable(b) \/ RegistryError(b)
    <3>1. Finish(b) /\ published' = published
      BY <2>1 DEF DuplicateDatabase, RefusedSchema, RefusedTable, RegistryError, Refuse
    <3> QED BY <3>1, FinishListed DEF ListedInv
  <2> QED BY <1>1, <2>1, DeclareDatabaseListed, DeclareSchemaListed, ImplySchemaListed,
             DeclareTableListed, MoveListed, PublishListed DEF Build
<1>2. ASSUME NEW b \in Builders, NEW d \in Declarations, Start(b, d) PROVE ListedInv'
  BY <1>2, StartListed
<1>3. CASE Restart
  <2>1. \A b \in Builders : /\ phase'[b] = "idle" /\ todo'[b] = NoDeclarations
                            /\ given'[b] = NoDeclarations /\ source'[b] = NoRows
    BY <1>3 DEF Restart
  <2>2. \A b \in Builders : /\ Listed(given'[b], todo'[b], source'[b])
                            /\ InOrder(phase'[b], todo'[b], source'[b])
    BY <2>1, EmptyLists, NothingListed DEF InOrder
  <2> QED BY <1>3, <2>2 DEF Restart, ListedInv
<1>4. CASE UNCHANGED vars
  BY <1>4 DEF vars, ListedInv
<1> QED BY <1>1, <1>2, <1>3, <1>4 DEF Next

(* Before the first builder starts nothing is listed. *)
LEMMA InitListed == Init => ListedInv
<1> SUFFICES ASSUME Init PROVE ListedInv
  OBVIOUS
<1>1. \A b \in Builders : /\ phase[b] = "idle" /\ todo[b] = NoDeclarations
                          /\ given[b] = NoDeclarations /\ source[b] = NoRows
  BY DEF Init
<1>2. \A b \in Builders : /\ Listed(given[b], todo[b], source[b])
                          /\ InOrder(phase[b], todo[b], source[b])
  BY <1>1, EmptyLists, NothingListed DEF InOrder
<1> QED BY <1>2 DEF Init, ListedInv

(* With nothing left to do, what is listed is what was declared. *)
LEMMA ListedIsDeclared ==
  ASSUME NEW s, Listed(s.given, NoDeclarations, s.rows), s.given \in Declaration
  PROVE  /\ {r[1] : r \in s.rows.relations} = RangeOf(s.given.tables)
         /\ Cardinality(s.rows.relations) = Len(s.given.tables)
         /\ Cardinality(s.rows.databases) = Len(s.given.databases)
         /\ {x[1] : x \in s.rows.schemas} =
              RangeOf(s.given.schemas) \cup {<<t[1], t[2]>> : t \in RangeOf(s.given.tables)}
         /\ Cardinality(s.rows.schemas) = Cardinality({x[1] : x \in s.rows.schemas})
         /\ \A x \in s.rows.schemas : \E d \in s.rows.databases : d[1] = <<x[1][1]>>
<1>1. /\ NoDeclarations.databases = <<>> /\ NoDeclarations.schemas = <<>>
      /\ NoDeclarations.tables = <<>> /\ RangeOf(<<>>) = {} /\ SchemasOf(<<>>) = {}
      /\ Len(<<>>) = 0
  BY DEF NoDeclarations, RangeOf, SchemasOf
<1>2. /\ {r[1] : r \in s.rows.relations} = RangeOf(s.given.tables)
      /\ Cardinality(s.rows.relations) = Len(s.given.tables)
  <2>1. /\ IsFiniteSet(s.rows.relations)
        /\ Cardinality(s.rows.relations) + 0 = Len(s.given.tables)
        /\ KeysIn(s.rows.relations) = RangeOf(s.given.tables)
    BY <1>1 DEF Listed, RelationsListed
  <2>2. Cardinality(s.rows.relations) \in Nat
    BY <2>1, FS_CardinalityType
  <2> QED BY <2>1, <2>2 DEF KeysIn
<1>3. Cardinality(s.rows.databases) = Len(s.given.databases)
  <2>1. /\ IsFiniteSet(s.rows.databases)
        /\ Cardinality(s.rows.databases) + 0 = Len(s.given.databases)
    BY <1>1 DEF Listed, DatabasesListed
  <2>2. Cardinality(s.rows.databases) \in Nat
    BY <2>1, FS_CardinalityType
  <2> QED BY <2>1, <2>2
<1>4. KeysIn(s.rows.schemas) = RangeOf(s.given.schemas) \cup SchemasOf(s.given.tables)
  BY <1>1 DEF Listed, SchemasListed
<1>5. Cardinality(s.rows.schemas) = Cardinality(KeysIn(s.rows.schemas))
  <2> DEFINE S == s.rows.schemas
             f == [x \in S |-> x[1]]
  <2>1. IsFiniteSet(S) /\ \A x, y \in S : x[1] = y[1] => x = y
    BY DEF Listed, SchemasListed
  <2>2. f \in Bijection(S, KeysIn(S))
    BY <2>1 DEF Bijection, Injection, IsInjective, Surjection, KeysIn
  <2>3. ExistsBijection(S, KeysIn(S))
    BY <2>2 DEF ExistsBijection
  <2> HIDE DEF S, f
  <2>4. Cardinality(KeysIn(S)) = Cardinality(S)
    BY <2>1, <2>3, FS_Bijection
  <2> QED BY <2>4 DEF S
<1>6. \A x \in s.rows.schemas : \E d \in s.rows.databases : d[1] = <<x[1][1]>>
  BY DEF Listed, Closed
<1> QED BY <1>2, <1>3, <1>4, <1>5, <1>6 DEF KeysIn, SchemasOf

(***************************************************************************)
(* A source is what was declared: its relations are the given ones, each   *)
(* once, its schemas the given and the implied ones, each once and each in *)
(* a listed database.  A build that met a repetition returns no source.    *)
(***************************************************************************)
THEOREM SourcesAreDeclared == Spec => []SourcesMatchDeclarations
<1>1. NamingInv /\ ListedInv => SourcesMatchDeclarations
  <2> SUFFICES ASSUME NamingInv, ListedInv PROVE SourcesMatchDeclarations
    OBVIOUS
  <2>1. \A s \in published : Listed(s.given, NoDeclarations, s.rows) /\ s.given \in Declaration
    BY DEF ListedInv, NamingInv, TypeOK
  <2> QED BY <2>1, ListedIsDeclared DEF SourcesMatchDeclarations
<1> QED BY <1>1, NamingIsInvariant, InitListed, NextListed, PTL DEF Spec
=============================================================================
