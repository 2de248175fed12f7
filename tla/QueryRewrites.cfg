SPECIFICATION Spec
CONSTANTS
    Oids <- MCOids
    RowArrays <- MCRowArrays
    Tables <- MCTables
    TableFunctions <- MCTableFunctions
    ScalarFunctions <- MCScalarFunctions
    Default <- MCDefault
    Varied <- MCVaried
INVARIANTS
    RoutingFollowsTheNames
    ParametersKeepTheirValues
    IdentitySpellingsResolve
    FromItemsKeepTheirMeaning
    CastsArePlannable
    ComparisonsKeepTheirMeaning
    LiftedScalarsKeepRows
    PredicatesKeepTheirRows
    LateralJoinsKeepRows
    ClientColumnsKeepTheirNames
    SortKeysAreOutputColumns
    GroupingKeepsRows
    ArraysKeepTheirElements
