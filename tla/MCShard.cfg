\* Two keys, three slots, and timestamps that pass while a command runs.
CONSTANTS
    Key = {k1, k2}
    Val = {v1, v2}
    Nil = Nil
    Capacity = 3
    Second = 2
    Seconds <- MCSeconds
    Lag = 2
    MaxTime = 5
SPECIFICATION Spec
INVARIANTS TypeOK NoOrphanExpiry
PROPERTY ImplementsTtlMap
