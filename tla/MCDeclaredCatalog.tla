------------------------- MODULE MCDeclaredCatalog -------------------------
(***************************************************************************)
(* Instances of DeclaredCatalog for TLC: argument lists that reorder,      *)
(* extend and repeat each other, name undeclared databases and imply       *)
(* schemas.                                                                *)
(***************************************************************************)
EXTENDS DeclaredCatalog, TLC

CONSTANTS d1, d2, public, s1, r1

Lists(ds, ss, ts) == [databases |-> ds, schemas |-> ss, tables |-> ts]

\* Four lists that can be built, in orders that would number the names
\* differently; together they need one number more than there are.
Buildable == {
  Lists(<<d1>>, <<>>, <<<<d1, s1, r1>>, <<d1, public, r1>>>>),
  Lists(<<d2, d1>>, <<<<d1, s1>>>>, <<<<d1, s1, r1>>>>),
  Lists(<<d1>>, <<<<d1, public>>, <<d1, s1>>>>, <<<<d1, public, r1>>>>),
  Lists(<<d2>>, <<<<d2, s1>>, <<d2, public>>>>, <<>>)}

\* Repetitions of each kind, and databases nobody declared.
Refused == {
  Lists(<<d2, d2>>, <<>>, <<>>),
  Lists(<<d1>>, <<<<d1, s1>>, <<d1, s1>>>>, <<>>),
  Lists(<<d1>>, <<>>, <<<<d1, s1, r1>>, <<d1, s1, r1>>>>),
  Lists(<<d1>>, <<<<d2, s1>>>>, <<>>),
  Lists(<<d2>>, <<>>, <<<<d1, s1, r1>>>>)}

DeclarationLists == Buildable \cup Refused

Symmetry == Permutations(Builders)
=============================================================================
