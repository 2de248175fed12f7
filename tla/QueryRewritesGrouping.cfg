SPECIFICATION Spec
CONSTANTS
    Oids <- MCOids
    RowArrays <- MCRowArrays
    Tables <- MCTables
    TableFunctions <- MCTableFunctions
    ScalarFunctions <- MCScalarFunctions
    Default <- MCDefault
    Varied <- MCVaried
INVARIANT RowsAreNotCollapsed
