SPECIFICATION FairSpec
CONSTANTS
    a = a
    b = b
    Sources = {a, b}
    KindOf <- WaitAndDrop
    Handlers = {h1}
    Refresher = r
    NoSource = NoSource
    MaxPools = 3
INVARIANTS
    PoolsPerSourceBounded
PROPERTIES
    ShutdownCompletes
