\* Three clients, four inserts, over a table loaded with one batch of one row.
\* When all inserts are done nothing is left to do.
SPECIFICATION InsertSpec
CONSTANTS
  Clients = {c1, c2, c3}
  Operations = {"append", "overwrite"}
  Loaded <- LoadedBatch
  MaxInserts = 4
SYMMETRY Symmetry
CHECK_DEADLOCK FALSE
INVARIANTS
  UnracedInsertsAreSerial
