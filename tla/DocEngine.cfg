SPECIFICATION Spec
CONSTANTS
    sum = sum
    mine = mine
    sleep = sleep
    Functions = {sum, mine, sleep}
    BUILTIN_DENIED_FUNCTIONS = {sleep}
    Anonymous = {mine}
    Trees <- MCTrees
    Policies <- MCPolicies
    Unread = Unread
    MaxRows = 2
    Limits = {2, 3}
    Yields = {3}
INVARIANTS
    DatabaseErrorsAreEngineErrors
