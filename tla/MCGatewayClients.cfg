SPECIFICATION AllSpec
CONSTANTS
    Accounts = {1, 2}
    Things = {1, 2}
    Unminted = Unminted
    Burned = Burned
    MaxVersion = 3
    NoCursor = NoCursor
    Kinds = {"fungible", "nonFungible", "entries", "tokens"}
    Sizes = {1, 2}
    Concurrency = 2
    Calls = {c1, c2}
    Supplied = Supplied
    NoIntent = NoIntent
    MaxRetries = 2
INVARIANTS
    TypesOK
    OneVersion
    DataOfHeld
    SteadyHoldersFound
    TraceIsLastHolder
    AtMostOneSuccess
PROPERTIES
    KeepsPromise
    AbortStopsAsking
    AllEnds
CHECK_DEADLOCK FALSE
