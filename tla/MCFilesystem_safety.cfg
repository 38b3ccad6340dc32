CONSTANTS
    t1 = t1
    t2 = t2
    t3 = t3
    b1 = b1
    b2 = b2
    b3 = b3
    d1 = d1
    d2 = d2
    n1 = n1
    n2 = n2
    n3 = n3
    NULL = NULL
    Thread = {t1, t2, t3}
    Block = {b1, b2, b3}
    DirId = {d1, d2}
    Name = {n1, n2, n3}
    kWays = 2
    WayOf <- MCWayOf
    Owned <- MCOwned
    ReadonlyDb <- MCReadonlyDb
    DirLruSize = 1
    SkipNameCollisionChecks = FALSE
    Request <- AllRequests
    MaxCalls = 3
SPECIFICATION Spec
SYMMETRY Symmetry
INVARIANTS
    TypeOK
    NoUseAfterFree
    OneBlockPerDir
    RefsExact
    WaysExclusive
    CleanShutdown
    InoUnique
PROPERTIES
    NoOverwrite
    Atomic
