CONSTANTS
    NoText = NoText
    NoInventory = NoInventory
    EnvironmentToken = NoText
    NoEndpoint = NoEndpoint
    NoId = NoId
    NotADict = NotADict
    entry = entry
    Segments <- MCSegments
    Schemes <- MCSchemes
    Endpoints <- MCEndpoints
    Ids <- MCIds
    Entries = {entry}
    Calls = {c1, c2}
    Operations <- MCOperations
    Words <- MCWords
    Inventories <- MCInventories
    Urls <- MCUrls
    Parts <- MCParts
SPECIFICATION Spec
SYMMETRY Symmetry
CHECK_DEADLOCK FALSE
INVARIANTS
    TypeOK
    TouchesOnlyItsOwn
    NamesLeadBack
PROPERTY
    KeepsPromise
