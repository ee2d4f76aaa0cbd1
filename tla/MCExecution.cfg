SPECIFICATION Spec
CONSTANTS
    sum = sum
    mine = mine
    sleep = sleep
    Functions = {sum, mine, sleep}
    BUILTIN_DENIED_FUNCTIONS = {sleep}
    Anonymous = {mine}
    Trees <- MCTrees
    Policies <- MCPolicies
    Unread = Unread
    MaxRows = 2
    Limits = {0, 1, 2, 3, 4}
    Yields = {0, 2, 3, 4}
INVARIANTS
    TypeOK
    CapIsExact
    NothingLeftOpen
    NestingIsCounted
    ListedFunctionsPass
