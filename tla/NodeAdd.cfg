CONSTANTS
    SchemaIds = {0, 1, 2}
    MaxCalls = 3
    None = None
SPECIFICATION Spec
INVARIANTS
    TypeOK
    CreatedMatchesPlaced
PROPERTIES
    ImplementsPlacementSpec
