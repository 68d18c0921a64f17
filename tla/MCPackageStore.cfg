CONSTANTS
    Stores <- MCStores
    Amounts <- MCAmounts
    MaxLoads = 3
    None = None
    Empty = Empty
INIT Init
NEXT Next
INVARIANTS
    TypeOK
    SelectionResolves
