CONSTANTS
    e1 = e1
    e2 = e2
    e3 = e3
    e4 = e4
    k1 = k1
    k2 = k2
    k3 = k3
    k4 = k4
    NULL = NULL
    Entry = {e1, e2, e3, e4}
    Key = {k1, k2, k3, k4}
    Charge = {1, 2}
    capacity = 3
    MaxHeld = 2
SPECIFICATION Spec
SYMMETRY Symmetry
INVARIANTS
    ListsPartition
    RefsAccounted
    TableExact
    UsageExact
PROPERTIES
    OldestFirst
    ImplementsRefCache
