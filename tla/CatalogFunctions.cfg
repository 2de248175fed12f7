\* Every function beside a call that contends for the one worker, with a query
\* nested in them, over a catalog that changes; all tables are lazy, pg_class
\* becomes so while the calls run.
SPECIFICATION Spec
CONSTANTS
    Calls = {"c1", "c2"}
    Requests <- MCRequests
    Loaded <- MCLoaded
    Catalogs <- MCCatalogs
    LazyAtStart = {"pg_namespace", "pg_attribute", "pg_index", "pg_constraint"}
    Installed <- MCInstalled
    Resolvers = {"r1"}
    AtStartup = {"r1"}
    Declined <- MCDeclined
    Flavors = {"multi_thread", "current_thread"}
    Workers = 1
    Depth = 1
    MaxInstalls = 1
INVARIANTS
    AnswersAreExplained
    FailuresAreTheHosts
PROPERTIES
    EveryCallReturns
CHECK_DEADLOCK FALSE
