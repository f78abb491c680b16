SPECIFICATION FairSpec
CONSTANTS
    N = 3
    Files <- MCFiles
    c1 = c1
    c2 = c2
    n1 = n1
    Clients = {c1, c2}
    Networks = {n1}
    BuildSet = {2}
    BareSet = {3}
    Targets <- MCTargets
    MaxVms = 2
INVARIANTS
    TypeOK
    OrderRespectsDeps
    RefusedHasNoOrder
    UndisturbedDelivers
PROPERTIES
    KeepsDependencyOrder
    CommandsEnd
