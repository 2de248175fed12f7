\* Either registry: two interchangeable builders, two process runs.  The lists need
\* eight numbers; there are seven, so building everything runs out of them.  With
\* their sources built the hosts have nothing left to do.
SPECIFICATION Spec
CONSTANTS
  d1 = d1
  d2 = d2
  public = public
  s1 = s1
  r1 = r1
  Databases = {d1, d2}
  Schemas = {public, s1}
  Relations = {r1}
  PublicSchema = public
  PublicSchemaOid = 3
  FirstUserOid = 5
  MaxOid = 12
  Builders = {b1, b2}
  Declarations <- DeclarationLists
  MaxRuns = 2
  MaxSources = 2
SYMMETRY Symmetry
CHECK_DEADLOCK FALSE
INVARIANTS
  TypeOK
  NamesKeepTheirOids
  OidsIdentifyObjects
  SourcesMatchDeclarations
