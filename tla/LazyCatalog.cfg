\* A declared and a live source combined, or one source asked directly; the
\* sources change at will.
SPECIFICATION Spec
CONSTANTS
  d1 = d1
  d2 = d2
  public = public
  system = system
  extra = extra
  orders = orders
  items = items
  key = key
  id = id
  note = note
  guc = guc
  Deployments <- CombinedOrAlone
  Plans <- Queries
  Database = d1
  Builtin <- BuiltinRows
INVARIANTS
  ReferencesResolve
  CollisionsAreRefused
  ColumnsFollowTheirRelation
