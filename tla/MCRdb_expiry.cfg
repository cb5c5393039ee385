\* A key with a timestamp; no crash during a SAVE, no failing write.
CONSTANTS
    k1 = k1
    k2 = k2
    k3 = k3
    v1 = v1
    v2 = v2
    v3 = v3
    Key = {k1, k2, k3}
    Val <- MCVal
    Junk = Junk
    CoreCounts = {2}
    Owner <- MCOwner
    Slot <- MCSlot
    Capacity = 2
    MayExpire = {k2}
    CrashInSave = FALSE
    DiskFull = FALSE
    MaxOps = 0
    MaxSaves = 1
SPECIFICATION Spec
PROPERTY DurableAcrossRestarts
