-------------------------------- MODULE MCRdb --------------------------------
(* Instances of Rdb for TLC. *)
EXTENDS Rdb, TLC

CONSTANTS k1, k2, k3, v1, v2, v3

\* On two cores one key is on the first shard and two are on the second.
MCOwner == [n \in CoreCounts |-> [k \in Key |-> IF n = 1 \/ k = k1 THEN 0 ELSE 1]]

\* One key changes its value, so that an old one can be told from a new one.
MCVal == [k \in Key |-> IF k = k1 THEN {v1, v2} ELSE {v3}]

MCSymmetry == Permutations({v1, v2})

MCSlot == [k \in Key |-> IF k = k1 THEN 1 ELSE IF k = k2 THEN 2 ELSE 3]
=============================================================================
