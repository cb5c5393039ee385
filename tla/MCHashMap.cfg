\* Three slots for four keys: collisions, wrap-around, tombstones and a full map.
CONSTANTS
    Key = {k1, k2, k3, k4}
    Val = {v1, v2}
    NoKey = NoKey
    Monostate = Monostate
    Absent = Absent
    Capacity = 3
SPECIFICATION Spec
SYMMETRY Interchangeable
INVARIANTS
    TypeOK
    ChainUnbroken
    KeysUnique
    SizeExact
PROPERTIES
    ImplementsKeyMap
