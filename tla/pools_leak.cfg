SPECIFICATION Spec
CONSTANTS
    a = a
    b = b
    Sources = {a}
    KindOf <- SQLite
    Handlers = {h1, h2}
    Refresher = r
    NoSource = NoSource
    MaxPools = 2
SYMMETRY HandlerSymmetry
INVARIANTS
    CloseAllClosesEveryPool
