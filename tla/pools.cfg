SPECIFICATION Spec
CONSTANTS
    a = a
    b = b
    Sources = {a, b}
    KindOf <- RetryAndClient
    Handlers = {h1}
    Refresher = r
    NoSource = NoSource
    MaxPools = 3
INVARIANTS
    TypeOK
    HandleUsableUntilCloseAll
    CleanDrainCutsNothing
    NoSilentLeak
    MapServesOpenPools
    NilClientOnlyAfterCloseAll
