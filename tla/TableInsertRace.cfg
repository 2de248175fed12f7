\* Two clients append at the same time.
SPECIFICATION InsertSpec
CONSTANTS
  Clients = {c1, c2}
  Operations = {"append"}
  Loaded <- LoadedBatch
  MaxInserts = 2
CHECK_DEADLOCK FALSE
INVARIANT InsertsAreSerial
