\* Two cores or one, two SAVEs, one command of another core during each, one key that may expire, one with two values, and every fault.
CONSTANTS
    k1 = k1
    k2 = k2
    k3 = k3
    v1 = v1
    v2 = v2
    v3 = v3
    Key = {k1, k2, k3}
    Val <- MCVal
    Junk = Junk
    CoreCounts = {1, 2}
    Owner <- MCOwner
    Slot <- MCSlot
    Capacity = 2
    MayExpire = {k2}
    CrashInSave = TRUE
    DiskFull = TRUE
    MaxOps = 1
    MaxSaves = 2
SYMMETRY MCSymmetry
SPECIFICATION Spec
INVARIANT TypeOK
PROPERTIES  NoResurrection
