\* Up to three shards with two virtual nodes each, on a ring of five positions:
\* every placement, so virtual nodes collide and the last shard may hide one.
CONSTANTS
    HashMax = 4
    MaxShards = 3
    Vnodes = 2
SPECIFICATION Spec
INVARIANTS
    OwnerInRange
    GrowthMovesOnlyToNewShard
    ClosestClockwise
\* The constructor returns.
CHECK_DEADLOCK FALSE
