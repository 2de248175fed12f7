---------------------------- MODULE OidAllocator ----------------------------
(***************************************************************************)
(* The tables of the OID registry and the arithmetic of its allocator, as  *)
(* both registry implementations of catalog_oid_registry.rs share them.    *)
(*                                                                         *)
(* The three tables (databases, schemas, relations) are one function here: *)
(* a key carries its table in its shape, <<database>>, <<database, schema>>*)
(* or <<database, schema, relation>>, so keys of two tables never collide, *)
(* exactly as the tuple keys of the redb tables do not.                    *)
(***************************************************************************)
EXTENDS Integers

CONSTANTS
  Databases,     \* database names
  Schemas,       \* schema names
  Relations,     \* relation names
  FirstUserOid,  \* FIRST_USER_OID: the first number the counter hands out
  MaxOid         \* i32::MAX, the width of the counter

(***************************************************************************)
(* 0 is PostgreSQL's InvalidOid; it stands for a table entry or a counter  *)
(* that is not there (the None of the code's Options).                     *)
(***************************************************************************)
NoOid == 0

ASSUME OidRange ==
  /\ FirstUserOid \in Nat \ {0}
  /\ MaxOid \in Nat
  /\ FirstUserOid <= MaxOid

DatabaseKeys == {<<d>> : d \in Databases}
SchemaKeys   == {<<d, s>> : d \in Databases, s \in Schemas}
RelationKeys == {<<d, s, r>> : d \in Databases, s \in Schemas, r \in Relations}

Keys == DatabaseKeys \cup SchemaKeys \cup RelationKeys

(***************************************************************************)
(* A relation is two catalog objects in one OID space, its pg_class row    *)
(* and its composite rowtype, so it takes two consecutive numbers.         *)
(***************************************************************************)
Span(k) == IF k \in RelationKeys THEN 2 ELSE 1

(***************************************************************************)
(* What a registry stores: the number recorded for each key (for a         *)
(* relation, the pg_class one: the rowtype is the next), and the counter.  *)
(***************************************************************************)
Oid32 == 0 .. MaxOid

Registry == [recorded : [Keys -> Oid32], next : Oid32]

EmptyRegistry == [recorded |-> [k \in Keys |-> NoOid], next |-> NoOid]

(***************************************************************************)
(* The counter as the allocator reads it: absent means nothing was ever    *)
(* allocated.                                                              *)
(***************************************************************************)
NextOid(reg) == IF reg.next = NoOid THEN FirstUserOid ELSE reg.next

\* Mutant: the addition is not checked.
FitsUnchecked(next, count) == TRUE

\* Mutant: the check covers the first number only.
FitsFirstOnly(next, count) == next + 1 <= MaxOid

(***************************************************************************)
(* i32::checked_add fails exactly when the sum passes i32::MAX.  The sum   *)
(* is the counter AFTER the allocation, so the number i32::MAX itself is   *)
(* never handed out.                                                       *)
(***************************************************************************)
Fits(next, count) == next + count <= MaxOid

\* Mutant: the counter moves by one whatever was allocated.
AdvancedByOne(reg, count) == [reg EXCEPT !.next = NextOid(reg) + 1]

Advanced(reg, count) == [reg EXCEPT !.next = NextOid(reg) + count]

Recorded(reg, k, oid) == [reg EXCEPT !.recorded[k] = oid]

-----------------------------------------------------------------------------
(* Vocabulary of the properties. *)

Known(reg) == {k \in Keys : reg.recorded[k] # NoOid}

\* The catalog OIDs that the number recorded for k stands for.
Oids(reg, k) == reg.recorded[k] .. reg.recorded[k] + Span(k) - 1

\* Two different objects never share a catalog OID.
Disjoint(reg) ==
  \A j, k \in Known(reg) : j # k => Oids(reg, j) \cap Oids(reg, k) = {}

\* Every recorded number, and a relation's second one, is below the counter.
Below(reg) ==
  /\ NextOid(reg) \in FirstUserOid .. MaxOid
  /\ \A k \in Known(reg) :
        FirstUserOid <= reg.recorded[k] /\ reg.recorded[k] + Span(k) <= NextOid(reg)

\* The numbers handed out so far are exactly the ones the tables account for.
Dense(reg) ==
  \A n \in FirstUserOid .. MaxOid :
    n < NextOid(reg) <=> \E k \in Known(reg) : n \in Oids(reg, k)
=============================================================================
