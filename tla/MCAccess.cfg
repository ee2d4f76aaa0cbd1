SPECIFICATION Spec
CONSTANTS
    orders = orders
    users = users
    x = x
    y = y
    public = public
    admin = admin
    Tables = {orders, users}
    Columns = {x, y}
    Names = {public, admin}
    Implicit = Implicit
    Everything = Everything
    Empty = Empty
    None = None
    Configs <- MCConfigs
    Queries <- MCQueries
    Warehouses <- MCWarehouses
    MaxChanges = 3
INVARIANTS
    TypeOK
    ListedIsWhatMayBeQueried
PROPERTIES
    OnlyGrantedIsRead
