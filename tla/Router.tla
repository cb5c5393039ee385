-------------------------------- MODULE Router --------------------------------
(***************************************************************************)
(* core::Router: the consistent-hash ring that maps a key to the shard (=  *)
(* core) that owns it.  initialize_ring is the state machine, one step per *)
(* virtual node; get_shard_id is the lookup.  FNV-1a is an unknown         *)
(* function: Init ranges over every placement of the virtual nodes, the    *)
(* ones that collide included.                                             *)
(***************************************************************************)
EXTENDS Integers, FiniteSets

CONSTANTS
    HashMax,     \* hashes are 0 .. HashMax (2^32 - 1 in the code)
    MaxShards,   \* bound on the number of shards
    Vnodes       \* VIRTUAL_NODES_PER_SHARD

ASSUME HashMaxAssumption == HashMax \in Nat
ASSUME ShardsAssumption == MaxShards \in Nat
ASSUME VnodesAssumption == Vnodes \in Nat \ {0}

Hash == 0 .. HashMax
Shard == 0 .. MaxShards - 1
VnodeNr == 0 .. Vnodes - 1

VARIABLES
    vnode,       \* hash_key("SHARD-<s>-VN-<v>")
    num_shards,  \* num_shards_
    ring,        \* ring_, a std::map from hash to shard
    shard_id, v, \* the loop variables of initialize_ring
    before       \* history: who owned each hash when shard_id's turn began

vars == <<vnode, num_shards, ring, shard_id, v, before>>

-----------------------------------------------------------------------------

Least(S) == CHOOSE x \in S : \A y \in S : x <= y

\* Mutants: upper_bound; the entry whose rank is the hash modulo the ring's size.
upper_bound(r, h) ==
    LET after == {x \in DOMAIN r : x > h}
    IN  IF after # {} THEN Least(after) ELSE Least(DOMAIN r)
by_rank(r, h) ==
    CHOOSE x \in DOMAIN r :
        Cardinality({y \in DOMAIN r : y < x}) = h % Cardinality(DOMAIN r)

\* ring_.lower_bound(h), or ring_.begin() past the end.
LowerBound(r, h) ==
    LET after == {x \in DOMAIN r : x >= h}
    IN  IF after # {} THEN Least(after) ELSE Least(DOMAIN r)

\* Router::get_shard_id, h being the key's hash.  The fallback's crc16(key) is
\* one more unknown hash of the key: h stands for it (OwnerInRange shows that
\* the branch is dead).
get_shard_id(r, h) ==
    IF num_shards = 0 THEN 0
    ELSE IF DOMAIN r = {} THEN h % num_shards
    ELSE r[LowerBound(r, h)]

Owners(r) == [h \in Hash |-> get_shard_id(r, h)]

Init ==
    /\ vnode \in [Shard \X VnodeNr -> Hash]
    /\ num_shards \in 0 .. MaxShards
    /\ ring = [h \in {} |-> 0]
    /\ shard_id = 0
    /\ v = 0
    /\ before = [h \in Hash |-> 0]

\* ring_[hash] = shard_id
Placed(r, h, s) == [x \in DOMAIN r \cup {h} |-> IF x = h THEN s ELSE r[x]]

\* Mutant: shards are numbered from one.
place_from_one ==
    /\ shard_id < num_shards
    /\ ring' = Placed(ring, vnode[<<shard_id, v>>], shard_id + 1)
    /\ v' = IF v + 1 < Vnodes THEN v + 1 ELSE 0
    /\ shard_id' = IF v + 1 < Vnodes THEN shard_id ELSE shard_id + 1
    /\ before' = IF v + 1 < Vnodes THEN before ELSE Owners(ring')
    /\ UNCHANGED <<vnode, num_shards>>

\* One iteration of the inner loop of initialize_ring.
place ==
    /\ shard_id < num_shards
    /\ ring' = Placed(ring, vnode[<<shard_id, v>>], shard_id)
    /\ v' = IF v + 1 < Vnodes THEN v + 1 ELSE 0
    /\ shard_id' = IF v + 1 < Vnodes THEN shard_id ELSE shard_id + 1
    /\ before' = IF v + 1 < Vnodes THEN before ELSE Owners(ring')
    /\ UNCHANGED <<vnode, num_shards>>

Next == place

Spec == Init /\ [][Next]_vars

\* The constructor has returned.
Ready == shard_id = num_shards

-----------------------------------------------------------------------------
(* Properties *)

\* The ring holds shards that exist, at hashes.
TypeOK ==
    /\ vnode \in [Shard \X VnodeNr -> Hash]
    /\ num_shards \in 0 .. MaxShards
    /\ DOMAIN ring \subseteq Hash
    /\ \A h \in DOMAIN ring : ring[h] \in Shard
    /\ shard_id \in 0 .. num_shards
    /\ v \in VnodeNr
    /\ before \in [Hash -> Nat]

\* Whatever the hash function, every key of a router with at least one shard
\* has an owner below num_shards, so that get_shard and get_channel never throw,
\* and the crc16 fallback of get_shard_id is never reached.
OwnerInRange ==
    Ready /\ num_shards > 0
    => /\ DOMAIN ring # {}
       /\ \A h \in Hash : get_shard_id(ring, h) \in 0 .. num_shards - 1

\* Consistent hashing: while the virtual nodes of one more shard are placed,
\* every hash keeps the owner it had on the smaller ring or moves to the new
\* shard, colliding virtual nodes included.
GrowthMovesOnlyToNewShard ==
    shard_id > 0
    => \A h \in Hash : get_shard_id(ring, h) \in {before[h], shard_id}

\* lower_bound with wrap-around picks the virtual node that is closest
\* clockwise, and of colliding virtual nodes the one of the highest shard.
ClosestClockwise ==
    Ready /\ num_shards > 0
    => \A h \in Hash :
        LET nodes == {x \in Shard \X VnodeNr : x[1] < num_shards}
            Distance(x) == (vnode[x] - h + HashMax + 1) % (HashMax + 1)
            closest == {x \in nodes : \A y \in nodes : Distance(x) <= Distance(y)}
        IN  /\ \E x \in closest : x[1] = get_shard_id(ring, h)
            /\ \A x \in closest : x[1] <= get_shard_id(ring, h)
=============================================================================
