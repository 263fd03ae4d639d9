SPECIFICATION Spec
CONSTANTS
    Accounts = {1, 2}
    Things = {1, 2}
    Unminted = Unminted
    Burned = Burned
    MaxVersion = 3
    NoCursor = NoCursor
    Kinds = {"fungible"}
    Sizes = {1}
    Concurrency = 1
INVARIANT BalanceWasReal
CHECK_DEADLOCK FALSE
